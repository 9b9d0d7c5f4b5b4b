----------------------------- MODULE JtagProofs -----------------------------
(***************************************************************************)
(* Proofs about the debugger of the bench: wherever the TAP was before the *)
(* first call, every path ends idle with the register it selected and      *)
(* brings back what that register held, so no call mistakes the debug port *)
(* and the calls for the hart leave it as they were asked to.  Over the    *)
(* class's own pins and over a socket that takes commands in chunks of any *)
(* length, for any calls, memory, delays and capacity of the socket.       *)
(***************************************************************************)
EXTENDS RemoteBitbang, TLAPS, SequenceTheorems, WellFoundedInduction

-----------------------------------------------------------------------------
(* What is known of the hart, as facts that nothing but a request to the   *)
(* debug module ends: it is halted or about to be, halted with no resume   *)
(* asked, not asked to halt, running and not asked to halt.                *)

Facts(d) ==
  (IF ~d.resumereq /\ (d.haltreq \/ d.hart = "halted") THEN {"halting"} ELSE {})
  \cup (IF ~d.resumereq /\ d.hart = "halted" THEN {"halted"} ELSE {})
  \cup (IF ~d.haltreq THEN {"released"} ELSE {})
  \cup (IF ~d.haltreq /\ d.hart = "running" THEN {"running"} ELSE {})

\* A request served by a debug module of which the facts x held leaves the facts
\* y and answers v. No more is said of it than the calls need.
Served(op, x, y, v) ==
  /\ op.operation = DMI_READ =>
       /\ x \subseteq y
       /\ op.address = SBCS => Flag(v, SBA_SUPPORTED)
       /\ op.address = DMSTATUS =>
            /\ Flag(v, DM_ANYHALTED) /\ "halting" \in x => "halted" \in y
            /\ Flag(v, DM_ANYRUNNING) /\ "released" \in x => "running" \in y
  /\ op.operation = DMI_WRITE /\ op.address = DMCONTROL =>
       /\ op.data = DM_HALTREQ => "halting" \in y
       /\ op.data = DM_ACTIVE => "released" \in y /\ x \cap {"halted", "running"} \subseteq y
       /\ op.data = DM_RESET => {"running", "released"} \subseteq y

-----------------------------------------------------------------------------
(* Where pulses and commands lead. A point is the TAP with the pins of the *)
(* server, the facts, and the answers given since the path began. The      *)
(* debug module works between any two commands: it serves the request on   *)
(* its way, or lets the facts grow.                                        *)

Point(t, tck, trst, facts, out) ==
  [tap |-> t, tck |-> tck, trst |-> trst, facts |-> facts, out |-> out]

IsTap(t) ==
  /\ t = [state |-> t.state, ir |-> t.ir, shift |-> t.shift, sticky |-> t.sticky,
          op |-> t.op, data |-> t.data]
  /\ t.state \in TapStates
\* A request on its way when a register was captured made it sticky: the falling
\* edge of an update does not race with the answer.
InDr == {"shiftDR", "exit1DR", "pauseDR", "exit2DR"}
Calm(t, tck) ==
  (t.state \in InDr \/ (t.state = "updateDR" /\ tck = 1)) /\ t.ir = IR_DMI /\ t.op # None
    => t.sticky = TRUE
Clean(g) ==
  /\ g = Point(g.tap, g.tck, g.trst, g.facts, g.out)
  /\ IsTap(g.tap) /\ g.tck \in {0, 1} /\ g.trst \in BOOLEAN
  /\ g.trst = TRUE => g.tap.state = "reset"
  /\ Calm(g.tap, g.tck)

Goes(g, h) ==
  \/ h.tap.op = g.tap.op /\ h.tap.data = g.tap.data /\ g.facts \subseteq h.facts
  \/ g.tap.op # None /\ h.tap.op = None /\ Served(g.tap.op, g.facts, h.facts, h.tap.data)
Keeps(g, h) == h.tap.sticky = g.tap.sticky /\ Goes(g, h)
Waits(g, h) ==
  /\ Clean(h) /\ Keeps(g, h)
  /\ h.tap.state = g.tap.state /\ h.tap.ir = g.tap.ir /\ h.tap.shift = g.tap.shift
  /\ h.tck = g.tck /\ h.trst = g.trst /\ h.out = g.out

\* A pulse of the driver is a whole clock; a command does what the server makes
\* of it.
IsPulse(x) == "cmd" \notin DOMAIN x
Clicked(g, p) ==
  Point(Fall(Rise(g.tap, p.tms, p.tdi)), g.tck, g.trst, g.facts,
        IF p.keep THEN Append(g.out, jtag_tdo(g.tap)) ELSE g.out)
Pinned(g, c) ==
  IF g.trst = TRUE THEN g.tap
  ELSE IF g.tck = 0 /\ c.tck = 1 THEN Rise(g.tap, c.tms, c.tdi)
  ELSE IF g.tck = 1 /\ c.tck = 0 THEN Fall(g.tap)
  ELSE g.tap
InReset(t) == [t EXCEPT !.state = "reset", !.ir = IR_IDCODE]
Done(g, c) ==
  IF c.cmd = "pins" THEN Point(Pinned(g, c), c.tck, g.trst, g.facts, g.out)
  ELSE IF c.cmd = "R"
    THEN Point(g.tap, g.tck, g.trst, g.facts, Append(g.out, jtag_tdo(g.tap)))
  ELSE IF c.cmd = "reset"
    THEN Point(IF c.trst = TRUE THEN InReset(g.tap) ELSE g.tap, g.tck, c.trst, g.facts, g.out)
  ELSE g
Move(g, x) == IF IsPulse(x) THEN Clicked(g, x) ELSE Done(g, x)
Step(g, x, h) == Clean(h) /\ \E k : Waits(g, k) /\ h = Move(k, x)

\* s, pulses or commands, may lead from g to h, by the points f.
Leads(s, g, h) ==
  \E f : /\ f[0] = g /\ Waits(f[Len(s)], h)
         /\ \A i \in 1 .. Len(s) : Step(f[i - 1], s[i], f[i])

LEMMA ServedWider ==
  ASSUME NEW op, NEW w, NEW x, NEW y, NEW z, NEW v, Served(op, x, y, v), w \subseteq x,
         y \subseteq z
  PROVE  Served(op, w, z, v)
BY DEF Served

LEMMA GoesTwice ==
  ASSUME NEW g, NEW h, NEW k, Goes(g, h), Goes(h, k)
  PROVE  Goes(g, k)
<1>1. CASE h.tap.op = g.tap.op /\ h.tap.data = g.tap.data /\ g.facts \subseteq h.facts
  <2>1. CASE k.tap.op = h.tap.op /\ k.tap.data = h.tap.data /\ h.facts \subseteq k.facts
    BY <1>1, <2>1 DEF Goes
  <2>2. CASE /\ h.tap.op # None /\ k.tap.op = None
             /\ Served(h.tap.op, h.facts, k.facts, k.tap.data)
    <3>1. Served(g.tap.op, g.facts, k.facts, k.tap.data)
      BY <1>1, <2>2, ServedWider
    <3> QED
      BY <1>1, <2>2, <3>1 DEF Goes
  <2> QED
    BY <2>1, <2>2 DEF Goes
<1>2. CASE /\ g.tap.op # None /\ h.tap.op = None
           /\ Served(g.tap.op, g.facts, h.facts, h.tap.data)
  <2>1. k.tap.op = None /\ k.tap.data = h.tap.data /\ h.facts \subseteq k.facts
    BY <1>2 DEF Goes
  <2>2. Served(g.tap.op, g.facts, k.facts, k.tap.data)
    BY <1>2, <2>1, ServedWider
  <2> QED
    BY <1>2, <2>1, <2>2 DEF Goes
<1> QED
  BY <1>1, <1>2 DEF Goes

LEMMA KeepsTwice ==
  ASSUME NEW g, NEW h, NEW k, Keeps(g, h), Keeps(h, k)
  PROVE  Keeps(g, k)
BY GoesTwice DEF Keeps

LEMMA WaitsNot ==
  ASSUME NEW g, Clean(g)
  PROVE  Waits(g, g)
BY DEF Waits, Keeps, Goes

LEMMA WaitsTwice ==
  ASSUME NEW g, NEW h, NEW k, Waits(g, h), Waits(h, k)
  PROVE  Waits(g, k)
<1>1. Keeps(g, k)
  BY KeepsTwice DEF Waits
<1> QED
  BY <1>1 DEF Waits

LEMMA WaitStep ==
  ASSUME NEW g, NEW h, NEW x, NEW k, Waits(g, h), Step(h, x, k)
  PROVE  Step(g, x, k)
BY WaitsTwice DEF Step

LEMMA LeadsClean ==
  ASSUME NEW s, NEW g, NEW h, Leads(s, g, h)
  PROVE  Clean(h)
BY DEF Leads, Waits

LEMMA LeadsNone ==
  ASSUME NEW g, NEW h
  PROVE  Leads(<<>>, g, h) <=> Waits(g, h)
<1>1. Len(<<>>) = 0
  OBVIOUS
<1>2. ASSUME Waits(g, h) PROVE Leads(<<>>, g, h)
  <2> DEFINE f == [i \in {0} |-> g]
  <2>1. f[0] = g
    OBVIOUS
  <2> HIDE DEF f
  <2> QED
    BY <1>1, <1>2, <2>1 DEF Leads
<1> QED
  BY <1>1, <1>2 DEF Leads

LEMMA LeadsOne ==
  ASSUME NEW g, NEW x, NEW h, Step(g, x, h)
  PROVE  Leads(<<x>>, g, h)
<1> DEFINE f == [i \in 0 .. 1 |-> IF i = 0 THEN g ELSE h]
<1>1. Len(<<x>>) = 1 /\ <<x>>[1] = x
  OBVIOUS
<1>2. f[0] = g /\ f[1] = h
  OBVIOUS
<1> HIDE DEF f
<1>3. ASSUME NEW i \in 1 .. Len(<<x>>) PROVE Step(f[i - 1], <<x>>[i], f[i])
  <2>1. i = 1 /\ i - 1 = 0
    BY <1>1
  <2> QED
    BY <1>1, <1>2, <2>1
<1>4. Waits(h, h)
  BY WaitsNot DEF Step
<1> QED
  BY <1>1, <1>2, <1>3, <1>4 DEF Leads

IsSeq(s) == \E S : s \in Seq(S)
LEMMA ConcatIs ==
  ASSUME NEW s, NEW t, IsSeq(s), IsSeq(t)
  PROVE  /\ IsSeq(s \o t) /\ Len(s) \in Nat /\ Len(t) \in Nat
         /\ Len(s \o t) = Len(s) + Len(t)
         /\ \A i \in 1 .. Len(s) + Len(t) :
              (s \o t)[i] = IF i <= Len(s) THEN s[i] ELSE t[i - Len(s)]
         /\ \A i \in 1 .. Len(s) : (s \o t)[i] = s[i]
         /\ \A i \in 1 .. Len(t) : (s \o t)[Len(s) + i] = t[i]
<1>1. PICK S : s \in Seq(S)
  BY DEF IsSeq
<1>2. PICK T : t \in Seq(T)
  BY DEF IsSeq
<1> DEFINE U == S \cup T
           m == Len(s)
           n == Len(t)
<1>3. s \in Seq(U) /\ t \in Seq(U)
  BY <1>1, <1>2
<1> HIDE DEF U
<1>4. /\ s \o t \in Seq(U) /\ Len(s \o t) = m + n /\ m \in Nat /\ n \in Nat
      /\ \A i \in 1 .. m + n : (s \o t)[i] = IF i <= m THEN s[i] ELSE t[i - m]
  BY <1>3
<1> HIDE DEF m, n
<1>5. \A i \in 1 .. m : (s \o t)[i] = s[i]
  <2> SUFFICES ASSUME NEW i \in 1 .. m PROVE (s \o t)[i] = s[i]
    OBVIOUS
  <2>1. i \in 1 .. m + n /\ i <= m
    BY <1>4
  <2> QED
    BY <1>4, <2>1
<1>6. \A i \in 1 .. n : (s \o t)[m + i] = t[i]
  <2> SUFFICES ASSUME NEW i \in 1 .. n PROVE (s \o t)[m + i] = t[i]
    OBVIOUS
  <2>1. m + i \in 1 .. m + n /\ ~(m + i <= m) /\ (m + i) - m = i
    BY <1>4
  <2> QED
    BY <1>4, <2>1
<1> QED
  BY <1>4, <1>5, <1>6 DEF IsSeq, m, n

LEMMA LeadsConcat ==
  ASSUME NEW s, NEW t, IsSeq(s), IsSeq(t), NEW g, NEW h, NEW k, Leads(s, g, h), Leads(t, h, k)
  PROVE  Leads(s \o t, g, k)
<1>1. PICK a : /\ a[0] = g /\ Waits(a[Len(s)], h)
               /\ \A i \in 1 .. Len(s) : Step(a[i - 1], s[i], a[i])
  BY DEF Leads
<1>2. PICK b : /\ b[0] = h /\ Waits(b[Len(t)], k)
               /\ \A i \in 1 .. Len(t) : Step(b[i - 1], t[i], b[i])
  BY DEF Leads
<1> DEFINE m == Len(s)
           n == Len(t)
           f == [i \in 0 .. m + n |-> IF i <= m THEN a[i] ELSE b[i - m]]
<1>3. /\ m \in Nat /\ n \in Nat /\ Len(s \o t) = m + n
      /\ \A i \in 1 .. m : (s \o t)[i] = s[i]
      /\ \A i \in 1 .. n : (s \o t)[m + i] = t[i]
  BY ConcatIs
<1> HIDE DEF m, n
<1>4. f[0] = g
  <2>1. 0 \in 0 .. m + n /\ 0 <= m
    BY <1>3
  <2> QED
    BY <1>1, <2>1
<1>5. /\ \A i \in 0 .. m : f[i] = a[i]
      /\ \A i \in 1 .. n : f[m + i] = b[i]
  <2>1. ASSUME NEW i \in 0 .. m PROVE f[i] = a[i]
    <3>1. i \in 0 .. m + n /\ i <= m
      BY <1>3
    <3> QED
      BY <3>1
  <2>2. ASSUME NEW i \in 1 .. n PROVE f[m + i] = b[i]
    <3>1. m + i \in 0 .. m + n /\ ~(m + i <= m) /\ (m + i) - m = i
      BY <1>3
    <3> QED
      BY <3>1
  <2> QED
    BY <2>1, <2>2
<1> HIDE DEF f
<1>6. Waits(f[m + n], k)
  <2>1. CASE n = 0
    <3>1. m + n = m /\ m \in 0 .. m
      BY <1>3, <2>1
    <3>2. f[m + n] = a[m] /\ Waits(a[m], h) /\ Waits(h, k)
      BY <1>1, <1>2, <1>5, <2>1, <3>1 DEF m, n
    <3> QED
      BY <3>2, WaitsTwice
  <2>2. CASE n # 0
    <3>1. n \in 1 .. n
      BY <1>3, <2>2
    <3>2. f[m + n] = b[n]
      BY <1>5, <3>1
    <3> QED
      BY <1>2, <3>2 DEF n
  <2> QED
    BY <2>1, <2>2
<1>7. ASSUME NEW i \in 1 .. m + n PROVE Step(f[i - 1], (s \o t)[i], f[i])
  <2>1. CASE i <= m
    <3>1. i \in 1 .. m /\ i \in 0 .. m /\ i - 1 \in 0 .. m
      BY <1>3, <2>1
    <3>2. f[i] = a[i] /\ f[i - 1] = a[i - 1] /\ (s \o t)[i] = s[i]
      BY <1>3, <1>5, <3>1
    <3> QED
      BY <1>1, <3>1, <3>2 DEF m
  <2>2. CASE i > m
    <3> DEFINE j == i - m
    <3>1. j \in 1 .. n /\ i = m + j
      BY <1>3, <2>2
    <3>2. f[i] = b[j] /\ (s \o t)[i] = t[j] /\ Step(b[j - 1], t[j], b[j])
      BY <1>2, <1>3, <1>5, <3>1 DEF n
    <3>3. CASE j = 1
      <4>1. i - 1 = m /\ j - 1 = 0 /\ m \in 0 .. m
        BY <1>3, <3>1, <3>3
      <4>2. f[i - 1] = a[m] /\ b[j - 1] = h
        BY <1>2, <1>5, <4>1
      <4> HIDE DEF j
      <4>3. Waits(f[i - 1], b[j - 1])
        BY <1>1, <4>2 DEF m
      <4> QED
        BY <3>2, <4>3, WaitStep
    <3>4. CASE j # 1
      <4>1. j - 1 \in 1 .. n /\ i - 1 = m + (j - 1)
        BY <1>3, <3>1, <3>4
      <4>2. f[i - 1] = b[j - 1]
        BY <1>5, <4>1
      <4> HIDE DEF j
      <4> QED
        BY <3>2, <4>2
    <3> QED
      BY <3>3, <3>4
  <2> QED
    BY <1>3, <2>1, <2>2
<1> QED
  BY <1>3, <1>4, <1>6, <1>7 DEF Leads

LEMMA LeadsSplit ==
  ASSUME NEW s, NEW t, IsSeq(s), IsSeq(t), NEW g, Clean(g), NEW k, Leads(s \o t, g, k)
  PROVE  \E h : Leads(s, g, h) /\ Leads(t, h, k)
<1> DEFINE m == Len(s)
           n == Len(t)
<1>1. /\ m \in Nat /\ n \in Nat /\ Len(s \o t) = m + n
      /\ \A i \in 1 .. m : (s \o t)[i] = s[i]
      /\ \A i \in 1 .. n : (s \o t)[m + i] = t[i]
  BY ConcatIs
<1>2. PICK f : /\ f[0] = g /\ Waits(f[m + n], k)
               /\ \A i \in 1 .. m + n : Step(f[i - 1], (s \o t)[i], f[i])
  BY <1>1 DEF Leads
<1> HIDE DEF m, n
<1>3. Clean(f[m])
  <2>1. CASE m = 0
    BY <1>2, <2>1
  <2>2. CASE m # 0
    <3>1. m \in 1 .. m + n
      BY <1>1, <2>2
    <3> QED
      BY <1>2, <3>1 DEF Step
  <2> QED
    BY <2>1, <2>2
<1>4. Leads(s, g, f[m])
  <2>1. Waits(f[m], f[m])
    BY <1>3, WaitsNot
  <2>2. ASSUME NEW i \in 1 .. m PROVE Step(f[i - 1], s[i], f[i])
    <3>1. i \in 1 .. m + n
      BY <1>1
    <3> QED
      BY <1>1, <1>2, <3>1
  <2> QED
    BY <1>2, <2>1, <2>2 DEF Leads, m
<1>5. Leads(t, f[m], k)
  <2> DEFINE e == [i \in 0 .. n |-> f[m + i]]
  <2>1. e[0] = f[m] /\ e[n] = f[m + n]
    BY <1>1
  <2>2. ASSUME NEW i \in 1 .. n PROVE Step(e[i - 1], t[i], e[i])
    <3>1. m + i \in 1 .. m + n /\ (m + i) - 1 = m + (i - 1) /\ i - 1 \in 0 .. n
      BY <1>1
    <3>2. e[i] = f[m + i] /\ e[i - 1] = f[(m + i) - 1]
      BY <1>1, <3>1
    <3> HIDE DEF e
    <3> QED
      BY <1>1, <1>2, <3>1, <3>2
  <2> HIDE DEF e
  <2> QED
    BY <1>2, <2>1, <2>2 DEF Leads, n
<1> QED
  BY <1>4, <1>5

\* A step first, or a wait.
LEMMA LeadsFrom ==
  ASSUME NEW s, IsSeq(s), s # <<>>, NEW g, NEW h, NEW k, Step(g, Head(s), h),
         Leads(Tail(s), h, k)
  PROVE  Leads(s, g, k)
<1>1. /\ IsSeq(<<Head(s)>>) /\ IsSeq(Tail(s))
      /\ s = <<Head(s)>> \o Tail(s)
  <2>1. PICK S : s \in Seq(S)
    BY DEF IsSeq
  <2>2. Head(s) \in S /\ Tail(s) \in Seq(S) /\ s = <<Head(s)>> \o Tail(s)
    BY <2>1
  <2> QED
    BY <2>2 DEF IsSeq
<1>2. Leads(<<Head(s)>>, g, h)
  BY LeadsOne
<1>3. Leads(<<Head(s)>> \o Tail(s), g, k)
  BY <1>1, <1>2, LeadsConcat
<1> QED
  BY <1>1, <1>3

LEMMA LeadsWaited ==
  ASSUME NEW s, IsSeq(s), NEW g, NEW h, NEW k, Waits(g, h), Leads(s, h, k)
  PROVE  Leads(s, g, k)
<1>1. PICK f : /\ f[0] = h /\ Waits(f[Len(s)], k)
               /\ \A i \in 1 .. Len(s) : Step(f[i - 1], s[i], f[i])
  BY DEF Leads
<1> DEFINE n == Len(s)
           e == [i \in 0 .. n |-> IF i = 0 THEN g ELSE f[i]]
<1>2. n \in Nat
  BY DEF IsSeq
<1> HIDE DEF n
<1>3. e[0] = g /\ \A i \in 1 .. n : e[i] = f[i]
  BY <1>2
<1> HIDE DEF e
<1>4. Waits(e[n], k)
  <2>1. CASE n = 0
    BY <1>1, <1>3, <2>1, WaitsTwice DEF n
  <2>2. CASE n # 0
    <3>1. n \in 1 .. n
      BY <1>2, <2>2
    <3> QED
      BY <1>1, <1>3, <3>1 DEF n
  <2> QED
    BY <2>1, <2>2
<1>5. ASSUME NEW i \in 1 .. n PROVE Step(e[i - 1], s[i], e[i])
  <2>1. CASE i = 1
    <3>1. Step(f[0], s[1], f[1]) /\ i - 1 = 0
      <4>1. 1 - 1 = 0 /\ 1 \in 1 .. n
        BY <1>2, <2>1
      <4> QED
        BY <1>1, <2>1, <4>1 DEF n
    <3> QED
      BY <1>1, <1>3, <2>1, <3>1, WaitStep
  <2>2. CASE i # 1
    <3>1. i - 1 \in 1 .. n
      BY <1>2, <2>2
    <3> QED
      BY <1>1, <1>3, <3>1 DEF n
  <2> QED
    BY <2>1, <2>2
<1> QED
  BY <1>3, <1>4, <1>5 DEF Leads, n

LEMMA MoveTap ==
  ASSUME NEW path \in Seq(BOOLEAN)
  PROVE  /\ IsSeq(move_tap(path))
         /\ Len(move_tap(path)) = Len(path)
         /\ \A i \in 1 .. Len(path) : move_tap(path)[i] = P(path[i], 0, FALSE)
<1> DEFINE S == {P(b, 0, FALSE) : b \in BOOLEAN}
           n == Len(path)
<1>1. n \in Nat /\ DOMAIN path = 1 .. n /\ \A i \in 1 .. n : path[i] \in BOOLEAN
  OBVIOUS
<1> HIDE DEF n
<1>2. move_tap(path) = [i \in 1 .. n |-> P(path[i], 0, FALSE)]
  BY <1>1 DEF move_tap
<1>3. \A i \in 1 .. n : P(path[i], 0, FALSE) \in S
  BY <1>1
<1> HIDE DEF S
<1>4. move_tap(path) \in [1 .. n -> S]
  BY <1>2, <1>3
<1>5. move_tap(path) \in Seq(S) /\ Len(move_tap(path)) = n
  BY <1>1, <1>4
<1> QED
  BY <1>2, <1>5 DEF n, IsSeq

LEMMA ShiftBits ==
  ASSUME NEW F, NEW fields \in Seq(F), NEW keep
  PROVE  /\ IsSeq(shift_bits(fields, keep))
         /\ Len(shift_bits(fields, keep)) = Len(fields)
         /\ \A i \in 1 .. Len(fields) :
              shift_bits(fields, keep)[i] = P(i = Len(fields), fields[i], keep)
<1> DEFINE n == Len(fields)
           E(i) == P(i = n, fields[i], keep)
           S == {E(i) : i \in 1 .. n}
<1>1. n \in Nat /\ DOMAIN fields = 1 .. n
  OBVIOUS
<1> HIDE DEF n
<1>2. shift_bits(fields, keep) = [i \in 1 .. n |-> E(i)]
  BY <1>1 DEF shift_bits, n
<1>3. \A i \in 1 .. n : E(i) \in S
  OBVIOUS
<1> HIDE DEF S, E
<1>4. shift_bits(fields, keep) \in [1 .. n -> S]
  BY <1>2, <1>3
<1>5. shift_bits(fields, keep) \in Seq(S) /\ Len(shift_bits(fields, keep)) = n
  BY <1>1, <1>4
<1>6. \A i \in 1 .. n : shift_bits(fields, keep)[i] = E(i)
  BY <1>2
<1> QED
  BY <1>5, <1>6 DEF n, E, IsSeq

-----------------------------------------------------------------------------
(* What the two edges of the clock do to the TAP.                          *)

LEMMA NextIsState ==
  ASSUME NEW s \in TapStates, NEW tms
  PROVE  /\ TapNext(s, tms) \in TapStates
         /\ TapNext(s, tms) \in InDr => s \in InDr \cup {"captureDR"}
         /\ TapNext(s, tms) = "updateDR" => s \in {"exit1DR", "exit2DR"}
         /\ TapNext(s, tms) = "updateIR" => s \in {"exit1IR", "exit2IR"}
<1>1. CASE tms
  <2>1. TapNext(s, tms) \in TapStates
    BY <1>1 DEF TapNext, TapStates
  <2>2. TapNext(s, tms) \in InDr => s \in InDr \cup {"captureDR"}
    BY <1>1 DEF TapNext, TapStates, InDr
  <2>3. /\ TapNext(s, tms) = "updateDR" => s \in {"exit1DR", "exit2DR"}
        /\ TapNext(s, tms) = "updateIR" => s \in {"exit1IR", "exit2IR"}
    BY <1>1 DEF TapNext, TapStates
  <2> QED
    BY <2>1, <2>2, <2>3
<1>2. CASE ~tms
  <2>1. TapNext(s, tms) \in TapStates
    BY <1>2 DEF TapNext, TapStates
  <2>2. TapNext(s, tms) \in InDr => s \in InDr \cup {"captureDR"}
    BY <1>2 DEF TapNext, TapStates, InDr
  <2>3. TapNext(s, tms) \notin {"updateDR", "updateIR"}
    BY <1>2 DEF TapNext, TapStates
  <2> QED
    BY <2>1, <2>2, <2>3
<1> QED
  BY <1>1, <1>2

Whole(u) == u = [state |-> u.state, ir |-> u.ir, shift |-> u.shift, sticky |-> u.sticky,
                 op |-> u.op, data |-> u.data]
LEMMA CaptureIs ==
  ASSUME NEW t, Whole(t)
  PROVE  LET u == CaptureDR(t)
         IN /\ Whole(u)
            /\ u.state = t.state /\ u.ir = t.ir /\ u.op = t.op /\ u.data = t.data
            /\ t.ir = IR_IDCODE => u.shift = <<IDCODE, 0>>
            /\ t.ir = IR_DTMCS => u.shift = <<DTMCS, 0>>
            /\ t.ir = IR_DMI =>
                 u.shift = <<IF Busy(t) THEN DMI_BUSY ELSE DMI_SUCCESS, t.data, 0>>
            /\ u.sticky = IF t.ir = IR_DMI THEN Busy(t) ELSE t.sticky
<1> USE DEF Whole
<1> DEFINE i == <<IDCODE, 0>>
           d == <<DTMCS, 0>>
           m == <<IF Busy(t) THEN DMI_BUSY ELSE DMI_SUCCESS, t.data, 0>>
           z == <<0>>
<1>1. /\ t.ir = IR_IDCODE => CaptureDR(t) = [t EXCEPT !.shift = i]
      /\ t.ir = IR_DTMCS => CaptureDR(t) = [t EXCEPT !.shift = d]
      /\ t.ir = IR_DMI => CaptureDR(t) = [t EXCEPT !.shift = m, !.sticky = Busy(t)]
      /\ t.ir \notin {IR_IDCODE, IR_DTMCS, IR_DMI} => CaptureDR(t) = [t EXCEPT !.shift = z]
  BY DEF CaptureDR, IR_IDCODE, IR_DTMCS, IR_DMI
<1>2. IR_IDCODE # IR_DMI /\ IR_DTMCS # IR_DMI /\ IR_IDCODE # IR_DTMCS
  BY DEF IR_IDCODE, IR_DTMCS, IR_DMI
<1> DEFINE u == CaptureDR(t)
<1> HIDE DEF i, d, m, z, u
<1>3. CASE t.ir = IR_IDCODE
  <2>1. u = [t EXCEPT !.shift = i]
    BY <1>1, <1>3 DEF u
  <2> QED
    BY <1>2, <1>3, <2>1 DEF i, u
<1>4. CASE t.ir = IR_DTMCS
  <2>1. u = [t EXCEPT !.shift = d]
    BY <1>1, <1>4 DEF u
  <2> QED
    BY <1>2, <1>4, <2>1 DEF d, u
<1>5. CASE t.ir = IR_DMI
  <2>1. u = [t EXCEPT !.shift = m, !.sticky = Busy(t)]
    BY <1>1, <1>5 DEF u
  <2> QED
    BY <1>2, <1>5, <2>1 DEF m, u
<1>6. CASE t.ir \notin {IR_IDCODE, IR_DTMCS, IR_DMI}
  <2>1. u = [t EXCEPT !.shift = z]
    BY <1>1, <1>6 DEF u
  <2> QED
    BY <1>6, <2>1 DEF u
<1> QED
  BY <1>3, <1>4, <1>5, <1>6

LEMMA RiseIs ==
  ASSUME NEW t, IsTap(t), NEW tms, NEW tdi
  PROVE  LET u == Rise(t, tms, tdi)
             next == TapNext(t.state, tms)
         IN /\ IsTap(u) /\ u.state = next
            /\ u.ir = IF next = "reset" THEN IR_IDCODE ELSE t.ir
            /\ u.op = t.op /\ u.data = t.data
            /\ t.state = "captureDR" =>
                 u.shift = CaptureDR(t).shift /\ u.sticky = CaptureDR(t).sticky
            /\ t.state # "captureDR" => u.sticky = t.sticky
            /\ t.state = "captureIR" => u.shift = <<1, 0>>
            /\ t.state \in {"shiftDR", "shiftIR"} => u.shift = Append(Tail(t.shift), tdi)
            /\ t.state \notin {"captureDR", "captureIR", "shiftDR", "shiftIR"} =>
                 u.shift = t.shift
<1> DEFINE next == TapNext(t.state, tms)
           v == CASE t.state = "captureDR" -> CaptureDR(t)
                  [] t.state = "captureIR" -> [t EXCEPT !.shift = <<1, 0>>]
                  [] t.state \in {"shiftDR", "shiftIR"} -> ShiftIn(t, tdi)
                  [] OTHER -> t
<1>1. Whole(t) /\ t.state \in TapStates /\ next \in TapStates
  BY NextIsState DEF IsTap, Whole
<1>2. /\ Whole(v) /\ v.ir = t.ir /\ v.op = t.op /\ v.data = t.data
      /\ t.state = "captureDR" => v = CaptureDR(t)
      /\ t.state # "captureDR" => v.sticky = t.sticky
      /\ t.state = "captureIR" => v.shift = <<1, 0>>
      /\ t.state \in {"shiftDR", "shiftIR"} => v.shift = Append(Tail(t.shift), tdi)
      /\ t.state \notin {"captureDR", "captureIR", "shiftDR", "shiftIR"} => v.shift = t.shift
  <2> HIDE DEF next
  <2>1. CASE t.state = "captureDR"
    <3>1. v = CaptureDR(t)
      BY <2>1
    <3> HIDE DEF v
    <3> QED
      BY <1>1, <2>1, <3>1, CaptureIs
  <2>2. CASE t.state = "captureIR"
    <3> DEFINE z == <<1, 0>>
    <3> HIDE DEF z
    <3>1. v = [t EXCEPT !.shift = z]
      BY <2>2 DEF z
    <3> HIDE DEF v
    <3> QED
      BY <1>1, <2>2, <3>1 DEF Whole, z
  <2>3. CASE t.state \in {"shiftDR", "shiftIR"}
    <3> DEFINE z == Append(Tail(t.shift), tdi)
    <3>1. v = [t EXCEPT !.shift = z]
      BY <2>3 DEF ShiftIn
    <3> HIDE DEF v, z
    <3>2. Whole(v) /\ v.ir = t.ir /\ v.op = t.op /\ v.data = t.data /\ v.sticky = t.sticky
          /\ v.shift = z
      BY <1>1, <3>1 DEF Whole
    <3> QED
      BY <2>3, <3>2 DEF z
  <2>4. CASE t.state \notin {"captureDR", "captureIR", "shiftDR", "shiftIR"}
    <3>1. v = t
      BY <2>4
    <3> HIDE DEF v
    <3> QED
      BY <1>1, <2>4, <3>1
  <2> QED
    BY <2>1, <2>2, <2>3, <2>4
<1>3. Rise(t, tms, tdi) = [v EXCEPT !.state = next,
                                    !.ir = IF next = "reset" THEN IR_IDCODE ELSE v.ir]
  BY DEF Rise
<1> DEFINE u == Rise(t, tms, tdi)
           i == IF next = "reset" THEN IR_IDCODE ELSE v.ir
<1> HIDE DEF v, u, i
<1>4. /\ Whole(u) /\ u.state = next /\ u.ir = i /\ u.shift = v.shift /\ u.sticky = v.sticky
      /\ u.op = v.op /\ u.data = v.data
  <2>1. u = [v EXCEPT !.state = next, !.ir = i]
    BY <1>3 DEF u, i
  <2> HIDE DEF next
  <2> QED
    BY <1>2, <2>1 DEF Whole
<1>5. IsTap(u)
  BY <1>1, <1>4 DEF IsTap, Whole
<1> HIDE DEF next
<1> QED
  BY <1>2, <1>4, <1>5 DEF i, u, next

Issued(t) == [operation |-> t.shift[1], data |-> t.shift[2], address |-> t.shift[3]]
Issues(t) == t.state = "updateDR" /\ t.ir = IR_DMI /\ t.shift[1] # DMI_NOP /\ ~Busy(t)
Resets(t) == t.state = "updateDR" /\ t.ir = IR_DTMCS /\ t.shift[2] = 1
LEMMA FallIs ==
  ASSUME NEW t, IsTap(t)
  PROVE  LET u == Fall(t)
         IN /\ IsTap(u) /\ u.state = t.state /\ u.shift = t.shift /\ u.data = t.data
            /\ u.ir = IF t.state = "updateIR" THEN t.shift[1] ELSE t.ir
            /\ u.op = IF Issues(t) THEN Issued(t) ELSE t.op
            /\ u.sticky = IF Resets(t) THEN FALSE ELSE t.sticky
            /\ t.state \notin {"updateIR", "updateDR"} => u = t
<1> DEFINE u == Fall(t)
           x == t.shift[1]
           o == Issued(t)
<1>1. Whole(t) /\ t.state \in TapStates
  BY DEF IsTap, Whole
<1>0. IR_DTMCS # IR_DMI
  BY DEF IR_DTMCS, IR_DMI
<1>2. CASE t.state = "updateIR"
  <2>1. u = [t EXCEPT !.ir = x] /\ ~Issues(t) /\ ~Resets(t)
    BY <1>2 DEF Fall, Issues, Resets
  <2> HIDE DEF u, x, o
  <2>2. IsTap(u) /\ u.state = t.state /\ u.shift = t.shift /\ u.data = t.data /\ u.ir = x
        /\ u.op = t.op /\ u.sticky = t.sticky
    BY <1>1, <2>1 DEF Whole, IsTap
  <2> QED
    BY <1>2, <2>1, <2>2 DEF x, u
<1>3. CASE Resets(t)
  <2>1. u = [t EXCEPT !.sticky = FALSE] /\ ~Issues(t) /\ t.state = "updateDR"
    BY <1>0, <1>3 DEF Fall, Issues, Resets
  <2> HIDE DEF u, x, o
  <2>2. IsTap(u) /\ u.state = t.state /\ u.shift = t.shift /\ u.data = t.data /\ u.ir = t.ir
        /\ u.op = t.op /\ u.sticky = FALSE
    BY <1>1, <2>1 DEF Whole, IsTap
  <2> QED
    BY <1>3, <2>1, <2>2 DEF u
<1>4. CASE Issues(t)
  <2>1. u = [t EXCEPT !.op = o] /\ ~Resets(t) /\ t.state = "updateDR"
    BY <1>0, <1>4 DEF Fall, Issues, Resets, Issued
  <2> HIDE DEF u, x, o
  <2>2. IsTap(u) /\ u.state = t.state /\ u.shift = t.shift /\ u.data = t.data /\ u.ir = t.ir
        /\ u.op = o /\ u.sticky = t.sticky
    BY <1>1, <2>1 DEF Whole, IsTap
  <2> QED
    BY <1>4, <2>1, <2>2 DEF o, u
<1>5. CASE t.state # "updateIR" /\ ~Resets(t) /\ ~Issues(t)
  <2>1. u = t
    BY <1>5 DEF Fall, Issues, Resets
  <2> HIDE DEF u
  <2> QED
    BY <1>1, <1>5, <2>1 DEF IsTap, Whole, u
<1> QED
  BY <1>2, <1>3, <1>4, <1>5

-----------------------------------------------------------------------------
(* A pulse from a point out of reset with a clear clock.                   *)

Ready(g) == Clean(g) /\ g.tck = 0 /\ g.trst = FALSE

LEMMA WaitsReady ==
  ASSUME NEW g, Ready(g), NEW h, Waits(g, h)
  PROVE  Ready(h)
BY DEF Ready, Waits

LEMMA Click ==
  ASSUME NEW g, Ready(g), NEW p, IsPulse(p), NEW h, Step(g, p, h)
  PROVE  \E k : /\ Waits(g, k) /\ IsTap(k.tap) /\ Ready(h)
                /\ h.tap = Fall(Rise(k.tap, p.tms, p.tdi)) /\ h.facts = k.facts
                /\ h.out = IF p.keep THEN Append(g.out, jtag_tdo(g.tap)) ELSE g.out
<1>2. PICK k : Waits(g, k) /\ h = Move(k, p)
  BY DEF Step
<1>3. Clean(h) /\ Clean(k) /\ IsTap(k.tap)
  BY <1>2 DEF Step, Waits, Clean
<1>4. h = Point(Fall(Rise(k.tap, p.tms, p.tdi)), k.tck, k.trst, k.facts,
                IF p.keep THEN Append(k.out, jtag_tdo(k.tap)) ELSE k.out)
  BY <1>2 DEF Move, Clicked
<1> DEFINE t == Fall(Rise(k.tap, p.tms, p.tdi))
           o == IF p.keep THEN Append(k.out, jtag_tdo(k.tap)) ELSE k.out
<1> HIDE DEF t, o
<1>5. h.tap = t /\ h.tck = k.tck /\ h.trst = k.trst /\ h.facts = k.facts /\ h.out = o
  BY <1>4 DEF Point, t, o
<1>6. k.tck = 0 /\ k.trst = FALSE /\ k.out = g.out
  BY <1>2 DEF Waits, Ready
<1>7. jtag_tdo(k.tap) = jtag_tdo(g.tap)
  BY <1>2 DEF Waits, jtag_tdo
<1>8. o = IF p.keep THEN Append(g.out, jtag_tdo(g.tap)) ELSE g.out
  BY <1>6, <1>7 DEF o
<1>9. Ready(h)
  BY <1>3, <1>5, <1>6 DEF Ready
<1> QED
  BY <1>2, <1>3, <1>5, <1>8, <1>9 DEF t

\* Where no register is updated.
LEMMA StepIs ==
  ASSUME NEW g, Ready(g), NEW p, IsPulse(p), NEW h, Step(g, p, h),
         TapNext(g.tap.state, p.tms) \notin {"updateIR", "updateDR"}
  PROVE  /\ Ready(h) /\ h.tap.state = TapNext(g.tap.state, p.tms)
         /\ h.tap.ir = IF h.tap.state = "reset" THEN IR_IDCODE ELSE g.tap.ir
         /\ h.out = IF p.keep THEN Append(g.out, jtag_tdo(g.tap)) ELSE g.out
         /\ Goes(g, h)
         /\ g.tap.state # "captureDR" => Keeps(g, h)
         /\ g.tap.state = "captureIR" => h.tap.shift = <<1, 0>>
         /\ g.tap.state \in {"shiftDR", "shiftIR"} =>
              h.tap.shift = Append(Tail(g.tap.shift), p.tdi)
         /\ g.tap.state \notin {"captureDR", "captureIR", "shiftDR", "shiftIR"} =>
              h.tap.shift = g.tap.shift
         /\ g.tap.state = "captureDR" =>
              \E k : /\ Waits(g, k) /\ IsTap(k.tap)
                     /\ h.tap.shift = CaptureDR(k.tap).shift
                     /\ h.tap.sticky = CaptureDR(k.tap).sticky
                     /\ h.tap.op = k.tap.op /\ h.tap.data = k.tap.data /\ h.facts = k.facts
<1>1. PICK k : /\ Waits(g, k) /\ IsTap(k.tap) /\ Ready(h)
               /\ h.tap = Fall(Rise(k.tap, p.tms, p.tdi)) /\ h.facts = k.facts
               /\ h.out = IF p.keep THEN Append(g.out, jtag_tdo(g.tap)) ELSE g.out
  BY Click
<1> DEFINE r == Rise(k.tap, p.tms, p.tdi)
           next == TapNext(k.tap.state, p.tms)
<1>2. /\ k.tap.state = g.tap.state /\ k.tap.ir = g.tap.ir /\ k.tap.shift = g.tap.shift
      /\ Keeps(g, k) /\ next = TapNext(g.tap.state, p.tms)
  BY <1>1 DEF Waits
<1>3. /\ IsTap(r) /\ r.state = next
      /\ r.ir = IF next = "reset" THEN IR_IDCODE ELSE k.tap.ir
      /\ r.op = k.tap.op /\ r.data = k.tap.data
      /\ k.tap.state = "captureDR" =>
           r.shift = CaptureDR(k.tap).shift /\ r.sticky = CaptureDR(k.tap).sticky
      /\ k.tap.state # "captureDR" => r.sticky = k.tap.sticky
      /\ k.tap.state = "captureIR" => r.shift = <<1, 0>>
      /\ k.tap.state \in {"shiftDR", "shiftIR"} => r.shift = Append(Tail(k.tap.shift), p.tdi)
      /\ k.tap.state \notin {"captureDR", "captureIR", "shiftDR", "shiftIR"} =>
           r.shift = k.tap.shift
  BY <1>1, RiseIs
<1> HIDE DEF r, next
<1>4. h.tap = r
  <2>1. r.state \notin {"updateIR", "updateDR"}
    BY <1>2, <1>3
  <2>2. Fall(r) = r
    BY <1>3, <2>1, FallIs
  <2> QED
    BY <1>1, <2>2 DEF r
<1>5. Goes(g, h) /\ (g.tap.state # "captureDR" => Keeps(g, h))
  BY <1>1, <1>2, <1>3, <1>4 DEF Keeps, Goes
<1>6. /\ h.tap.state = TapNext(g.tap.state, p.tms)
      /\ h.tap.ir = IF h.tap.state = "reset" THEN IR_IDCODE ELSE g.tap.ir
  BY <1>2, <1>3, <1>4
<1>7. /\ g.tap.state = "captureIR" => h.tap.shift = <<1, 0>>
      /\ g.tap.state \in {"shiftDR", "shiftIR"} =>
           h.tap.shift = Append(Tail(g.tap.shift), p.tdi)
      /\ g.tap.state \notin {"captureDR", "captureIR", "shiftDR", "shiftIR"} =>
           h.tap.shift = g.tap.shift
  BY <1>2, <1>3, <1>4
<1>8. g.tap.state = "captureDR" =>
        /\ h.tap.shift = CaptureDR(k.tap).shift /\ h.tap.sticky = CaptureDR(k.tap).sticky
        /\ h.tap.op = k.tap.op /\ h.tap.data = k.tap.data
  BY <1>2, <1>3, <1>4
<1> QED
  BY <1>1, <1>5, <1>6, <1>7, <1>8

LEMMA StepUpdatesIr ==
  ASSUME NEW g, Ready(g), NEW p, IsPulse(p), ~p.keep, NEW h, Step(g, p, h),
         TapNext(g.tap.state, p.tms) = "updateIR"
  PROVE  /\ Ready(h) /\ h.tap.state = "updateIR" /\ h.tap.ir = g.tap.shift[1]
         /\ h.out = g.out /\ Keeps(g, h)
<1>1. PICK k : /\ Waits(g, k) /\ IsTap(k.tap) /\ Ready(h)
               /\ h.tap = Fall(Rise(k.tap, p.tms, p.tdi)) /\ h.facts = k.facts
               /\ h.out = g.out
  BY Click
<1> DEFINE r == Rise(k.tap, p.tms, p.tdi)
<1>2. /\ k.tap.state = g.tap.state /\ k.tap.shift = g.tap.shift /\ Keeps(g, k)
      /\ g.tap.state \in {"exit1IR", "exit2IR"}
  <2>1. g.tap.state \in TapStates
    BY DEF Ready, Clean, IsTap
  <2> QED
    BY <1>1, <2>1, NextIsState DEF Waits
<1>3. /\ IsTap(r) /\ r.state = "updateIR" /\ r.op = k.tap.op /\ r.data = k.tap.data
      /\ r.sticky = k.tap.sticky /\ r.shift = g.tap.shift
  BY <1>1, <1>2, RiseIs
<1> HIDE DEF r
<1>4. /\ h.tap.state = "updateIR" /\ h.tap.ir = g.tap.shift[1] /\ h.tap.op = k.tap.op
      /\ h.tap.data = k.tap.data /\ h.tap.sticky = k.tap.sticky
  <2>1. ~Issues(r) /\ ~Resets(r)
    BY <1>3 DEF Issues, Resets
  <2>2. h.tap = Fall(r)
    BY <1>1 DEF r
  <2> QED
    BY <1>3, <2>1, <2>2, FallIs
<1>5. Keeps(g, h)
  BY <1>1, <1>2, <1>4 DEF Keeps, Goes
<1> QED
  BY <1>1, <1>4, <1>5

LEMMA StepUpdatesDr ==
  ASSUME NEW g, Ready(g), NEW p, IsPulse(p), ~p.keep, NEW h, Step(g, p, h),
         TapNext(g.tap.state, p.tms) = "updateDR"
  PROVE  /\ Ready(h) /\ h.tap.state = "updateDR" /\ h.tap.ir = g.tap.ir /\ h.out = g.out
         /\ g.tap.ir # IR_DTMCS => h.tap.sticky = g.tap.sticky
         /\ g.tap.ir # IR_DMI \/ g.tap.shift[1] = DMI_NOP => Goes(g, h)
         /\ \E k : /\ Waits(g, k) /\ h.tap.data = k.tap.data /\ h.facts = k.facts
                   /\ h.tap.op = IF g.tap.ir = IR_DMI /\ g.tap.shift[1] # DMI_NOP
                                    /\ ~Busy(k.tap)
                                 THEN Issued(g.tap) ELSE k.tap.op
<1>1. PICK k : /\ Waits(g, k) /\ IsTap(k.tap) /\ Ready(h)
               /\ h.tap = Fall(Rise(k.tap, p.tms, p.tdi)) /\ h.facts = k.facts
               /\ h.out = g.out
  BY Click
<1> DEFINE r == Rise(k.tap, p.tms, p.tdi)
<1>2. /\ k.tap.state = g.tap.state /\ k.tap.shift = g.tap.shift /\ k.tap.ir = g.tap.ir
      /\ Keeps(g, k) /\ g.tap.state \in {"exit1DR", "exit2DR"}
  <2>1. g.tap.state \in TapStates
    BY DEF Ready, Clean, IsTap
  <2> QED
    BY <1>1, <2>1, NextIsState DEF Waits
<1>3. /\ IsTap(r) /\ r.state = "updateDR" /\ r.op = k.tap.op /\ r.data = k.tap.data
      /\ r.sticky = k.tap.sticky /\ r.shift = g.tap.shift /\ r.ir = g.tap.ir
  BY <1>1, <1>2, RiseIs
<1>4. h.tap = Fall(r)
  BY <1>1
<1> HIDE DEF r
<1>5. /\ Issued(r) = Issued(g.tap) /\ (Busy(r) <=> Busy(k.tap))
      /\ (Issues(r) <=> g.tap.ir = IR_DMI /\ g.tap.shift[1] # DMI_NOP /\ ~Busy(k.tap))
      /\ Resets(r) => g.tap.ir = IR_DTMCS
  BY <1>3 DEF Issued, Busy, Issues, Resets
<1>6. /\ h.tap.state = "updateDR" /\ h.tap.ir = g.tap.ir /\ h.tap.data = k.tap.data
      /\ h.tap.op = IF Issues(r) THEN Issued(r) ELSE k.tap.op
      /\ g.tap.ir # IR_DTMCS => h.tap.sticky = k.tap.sticky
  <2>1. /\ Fall(r).state = r.state /\ Fall(r).data = r.data
        /\ Fall(r).ir = IF r.state = "updateIR" THEN r.shift[1] ELSE r.ir
        /\ Fall(r).op = IF Issues(r) THEN Issued(r) ELSE r.op
        /\ Fall(r).sticky = IF Resets(r) THEN FALSE ELSE r.sticky
    BY <1>3, FallIs
  <2>2. Fall(r).ir = r.ir
    BY <1>3, <2>1
  <2>3. g.tap.ir # IR_DTMCS => Fall(r).sticky = r.sticky
    BY <1>5, <2>1
  <2> QED
    BY <1>3, <1>4, <2>1, <2>2, <2>3
<1>7. g.tap.ir # IR_DMI \/ g.tap.shift[1] = DMI_NOP => Goes(g, h)
  BY <1>1, <1>2, <1>5, <1>6 DEF Keeps, Goes
<1>8. h.tap.op = IF g.tap.ir = IR_DMI /\ g.tap.shift[1] # DMI_NOP /\ ~Busy(k.tap)
                 THEN Issued(g.tap) ELSE k.tap.op
  BY <1>5, <1>6
<1>9. g.tap.ir # IR_DTMCS => h.tap.sticky = g.tap.sticky
  BY <1>2, <1>6 DEF Keeps
<1> QED
  BY <1>1, <1>6, <1>7, <1>8, <1>9

-----------------------------------------------------------------------------
(* Paths that move the TAP and keep what it holds.                         *)

Plain(p) == IsPulse(p) /\ ~p.keep
LEMMA MoveIs ==
  ASSUME NEW path \in Seq(BOOLEAN)
  PROVE  LET s == move_tap(path)
         IN /\ IsSeq(s) /\ Len(s) = Len(path)
            /\ \A i \in 1 .. Len(path) : Plain(s[i]) /\ s[i].tms = path[i]
<1> SUFFICES ASSUME NEW i \in 1 .. Len(path)
             PROVE  Plain(move_tap(path)[i]) /\ move_tap(path)[i].tms = path[i]
  BY MoveTap
<1>1. move_tap(path)[i] = P(path[i], 0, FALSE)
  BY MoveTap
<1>2. LET p == P(path[i], 0, FALSE) IN IsPulse(p) /\ ~p.keep /\ p.tms = path[i]
  BY DEF P, IsPulse
<1> QED
  BY <1>1, <1>2 DEF Plain

\* The points a short sequence leads by.
LEMMA TakeOne ==
  ASSUME NEW s, Len(s) = 1, NEW g, NEW h, Leads(s, g, h)
  PROVE  \E a : Step(g, s[1], a) /\ Waits(a, h)
<1>1. PICK f : /\ f[0] = g /\ Waits(f[1], h)
               /\ \A i \in 1 .. 1 : Step(f[i - 1], s[i], f[i])
  BY DEF Leads
<1>2. 1 - 1 = 0 /\ 1 \in 1 .. 1
  OBVIOUS
<1>3. Step(f[1 - 1], s[1], f[1])
  BY <1>1, <1>2
<1> QED
  BY <1>1, <1>2, <1>3

LEMMA TakeTwo ==
  ASSUME NEW s, Len(s) = 2, NEW g, NEW h, Leads(s, g, h)
  PROVE  \E a, b : Step(g, s[1], a) /\ Step(a, s[2], b) /\ Waits(b, h)
<1>1. PICK f : /\ f[0] = g /\ Waits(f[2], h)
               /\ \A i \in 1 .. 2 : Step(f[i - 1], s[i], f[i])
  BY DEF Leads
<1>2. 1 - 1 = 0 /\ 2 - 1 = 1 /\ 1 \in 1 .. 2 /\ 2 \in 1 .. 2
  OBVIOUS
<1>3. Step(f[1 - 1], s[1], f[1]) /\ Step(f[2 - 1], s[2], f[2])
  BY <1>1, <1>2
<1> QED
  BY <1>1, <1>2, <1>3

LEMMA TakeThree ==
  ASSUME NEW s, Len(s) = 3, NEW g, NEW h, Leads(s, g, h)
  PROVE  \E a, b, c : /\ Step(g, s[1], a) /\ Step(a, s[2], b) /\ Step(b, s[3], c)
                      /\ Waits(c, h)
<1>1. PICK f : /\ f[0] = g /\ Waits(f[3], h)
               /\ \A i \in 1 .. 3 : Step(f[i - 1], s[i], f[i])
  BY DEF Leads
<1>2. 1 - 1 = 0 /\ 2 - 1 = 1 /\ 3 - 1 = 2 /\ 1 \in 1 .. 3 /\ 2 \in 1 .. 3 /\ 3 \in 1 .. 3
  OBVIOUS
<1>3. Step(f[1 - 1], s[1], f[1]) /\ Step(f[2 - 1], s[2], f[2]) /\ Step(f[3 - 1], s[3], f[3])
  BY <1>1, <1>2
<1> QED
  BY <1>1, <1>2, <1>3

LEMMA TakeFour ==
  ASSUME NEW s, Len(s) = 4, NEW g, NEW h, Leads(s, g, h)
  PROVE  \E a, b, c, d : /\ Step(g, s[1], a) /\ Step(a, s[2], b) /\ Step(b, s[3], c)
                         /\ Step(c, s[4], d) /\ Waits(d, h)
<1>1. PICK f : /\ f[0] = g /\ Waits(f[4], h)
               /\ \A i \in 1 .. 4 : Step(f[i - 1], s[i], f[i])
  BY DEF Leads
<1>2. /\ 1 - 1 = 0 /\ 2 - 1 = 1 /\ 3 - 1 = 2 /\ 4 - 1 = 3
      /\ 1 \in 1 .. 4 /\ 2 \in 1 .. 4 /\ 3 \in 1 .. 4 /\ 4 \in 1 .. 4
  OBVIOUS
<1>3. /\ Step(f[1 - 1], s[1], f[1]) /\ Step(f[2 - 1], s[2], f[2])
      /\ Step(f[3 - 1], s[3], f[3]) /\ Step(f[4 - 1], s[4], f[4])
  BY <1>1, <1>2
<1> QED
  BY <1>1, <1>2, <1>3

LEMMA MovesTwo ==
  LET s == move_tap(<<TRUE, FALSE>>)
  IN IsSeq(s) /\ Len(s) = 2 /\ Plain(s[1]) /\ Plain(s[2]) /\ s[1].tms /\ ~s[2].tms
<1> DEFINE t == <<TRUE, FALSE>>
           s == move_tap(t)
<1>1. t \in Seq(BOOLEAN) /\ Len(t) = 2 /\ t[1] /\ ~t[2]
  OBVIOUS
<1> HIDE DEF t
<1>2. IsSeq(s) /\ Len(s) = 2 /\ \A i \in 1 .. 2 : Plain(s[i]) /\ s[i].tms = t[i]
  BY <1>1, MoveIs
<1> HIDE DEF s
<1>3. 1 \in 1 .. 2 /\ 2 \in 1 .. 2
  OBVIOUS
<1>4. Plain(s[1]) /\ Plain(s[2]) /\ s[1].tms = t[1] /\ s[2].tms = t[2]
  BY <1>2, <1>3
<1> QED
  BY <1>1, <1>2, <1>4 DEF s, t

LEMMA MovesThree ==
  LET s == move_tap(<<TRUE, FALSE, FALSE>>)
  IN /\ IsSeq(s) /\ Len(s) = 3 /\ Plain(s[1]) /\ Plain(s[2]) /\ Plain(s[3])
     /\ s[1].tms /\ ~s[2].tms /\ ~s[3].tms
<1> DEFINE t == <<TRUE, FALSE, FALSE>>
           s == move_tap(t)
<1>1. t \in Seq(BOOLEAN) /\ Len(t) = 3 /\ t[1] /\ ~t[2] /\ ~t[3]
  OBVIOUS
<1> HIDE DEF t
<1>2. IsSeq(s) /\ Len(s) = 3 /\ \A i \in 1 .. 3 : Plain(s[i]) /\ s[i].tms = t[i]
  BY <1>1, MoveIs
<1> HIDE DEF s
<1>3. 1 \in 1 .. 3 /\ 2 \in 1 .. 3 /\ 3 \in 1 .. 3
  OBVIOUS
<1>4. /\ Plain(s[1]) /\ Plain(s[2]) /\ Plain(s[3])
      /\ s[1].tms = t[1] /\ s[2].tms = t[2] /\ s[3].tms = t[3]
  BY <1>2, <1>3
<1> QED
  BY <1>1, <1>2, <1>4 DEF s, t

LEMMA MovesFour ==
  LET s == move_tap(<<TRUE, TRUE, FALSE, FALSE>>)
  IN /\ IsSeq(s) /\ Len(s) = 4 /\ Plain(s[1]) /\ Plain(s[2]) /\ Plain(s[3]) /\ Plain(s[4])
     /\ s[1].tms /\ s[2].tms /\ ~s[3].tms /\ ~s[4].tms
<1> DEFINE t == <<TRUE, TRUE, FALSE, FALSE>>
           s == move_tap(t)
<1>1. t \in Seq(BOOLEAN) /\ Len(t) = 4 /\ t[1] /\ t[2] /\ ~t[3] /\ ~t[4]
  OBVIOUS
<1> HIDE DEF t
<1>2. IsSeq(s) /\ Len(s) = 4 /\ \A i \in 1 .. 4 : Plain(s[i]) /\ s[i].tms = t[i]
  BY <1>1, MoveIs
<1> HIDE DEF s
<1>3. 1 \in 1 .. 4 /\ 2 \in 1 .. 4 /\ 3 \in 1 .. 4 /\ 4 \in 1 .. 4
  OBVIOUS
<1>4. /\ Plain(s[1]) /\ Plain(s[2]) /\ Plain(s[3]) /\ Plain(s[4])
      /\ s[1].tms = t[1] /\ s[2].tms = t[2] /\ s[3].tms = t[3] /\ s[4].tms = t[4]
  BY <1>2, <1>3
<1> QED
  BY <1>1, <1>2, <1>4 DEF s, t

\* What a plain pulse keeps, and what the debug module keeps between pulses.
Kept(g, h) == Ready(h) /\ Keeps(g, h) /\ h.out = g.out

LEMMA KeptTwice ==
  ASSUME NEW g, NEW h, NEW k, Kept(g, h), Kept(h, k)
  PROVE  Kept(g, k)
BY KeepsTwice DEF Kept

LEMMA KeptWaits ==
  ASSUME NEW g, Ready(g), NEW h, Waits(g, h)
  PROVE  /\ Kept(g, h) /\ h.tap.state = g.tap.state /\ h.tap.ir = g.tap.ir
         /\ h.tap.shift = g.tap.shift
BY WaitsReady DEF Kept, Waits

LEMMA Moved ==
  ASSUME NEW g, Ready(g), NEW p, Plain(p), NEW h, Step(g, p, h), NEW next,
         TapNext(g.tap.state, p.tms) = next,
         next \notin {"updateIR", "updateDR", "reset"},
         g.tap.state \notin {"captureDR", "shiftDR", "shiftIR"}
  PROVE  /\ Kept(g, h) /\ h.tap.state = next /\ h.tap.ir = g.tap.ir
         /\ g.tap.state = "captureIR" => h.tap.shift = <<1, 0>>
         /\ g.tap.state # "captureIR" => h.tap.shift = g.tap.shift
<1>1. IsPulse(p) /\ ~p.keep
  BY DEF Plain
<1>2. /\ Ready(h) /\ h.tap.state = next
      /\ h.tap.ir = IF h.tap.state = "reset" THEN IR_IDCODE ELSE g.tap.ir
      /\ h.out = IF p.keep THEN Append(g.out, jtag_tdo(g.tap)) ELSE g.out
      /\ g.tap.state # "captureDR" => Keeps(g, h)
      /\ g.tap.state = "captureIR" => h.tap.shift = <<1, 0>>
      /\ g.tap.state \notin {"captureDR", "captureIR", "shiftDR", "shiftIR"} =>
           h.tap.shift = g.tap.shift
  BY <1>1, StepIs
<1> QED
  BY <1>1, <1>2 DEF Kept

\* To the instruction register.
LEMMA SelectIr ==
  ASSUME NEW g, Ready(g), g.tap.state = "idle", NEW h,
         Leads(move_tap(<<TRUE, TRUE, FALSE, FALSE>>), g, h)
  PROVE  Kept(g, h) /\ h.tap.state = "shiftIR" /\ h.tap.shift = <<1, 0>>
<1> DEFINE s == move_tap(<<TRUE, TRUE, FALSE, FALSE>>)
<1>0. Len(s) = 4 /\ Plain(s[1]) /\ Plain(s[2]) /\ Plain(s[3]) /\ Plain(s[4])
  BY MovesFour
<1>1. /\ s[1].tms /\ s[2].tms /\ ~s[3].tms /\ ~s[4].tms
  BY MovesFour
<1> HIDE DEF s
<1>2. PICK a, b, c, d : /\ Step(g, s[1], a) /\ Step(a, s[2], b) /\ Step(b, s[3], c)
                        /\ Step(c, s[4], d) /\ Waits(d, h)
  BY <1>0, TakeFour DEF s
<1>3. TapNext(g.tap.state, s[1].tms) = "selectDR"
  BY <1>1 DEF TapNext
<1>4. Kept(g, a) /\ a.tap.state = "selectDR"
  BY <1>0, <1>2, <1>3, Moved
<1>5. TapNext(a.tap.state, s[2].tms) = "selectIR"
  BY <1>1, <1>4 DEF TapNext
<1>6. Kept(a, b) /\ b.tap.state = "selectIR"
  BY <1>0, <1>2, <1>4, <1>5, Moved DEF Kept
<1>7. TapNext(b.tap.state, s[3].tms) = "captureIR"
  BY <1>1, <1>6 DEF TapNext
<1>8. Kept(b, c) /\ c.tap.state = "captureIR"
  BY <1>0, <1>2, <1>6, <1>7, Moved DEF Kept
<1>9. TapNext(c.tap.state, s[4].tms) = "shiftIR"
  BY <1>1, <1>8 DEF TapNext
<1>10. Kept(c, d) /\ d.tap.state = "shiftIR" /\ d.tap.shift = <<1, 0>>
  BY <1>0, <1>2, <1>8, <1>9, Moved DEF Kept
<1>11. Kept(d, h) /\ h.tap.state = "shiftIR" /\ h.tap.shift = <<1, 0>>
  BY <1>2, <1>10, KeptWaits DEF Kept
<1> QED
  BY <1>4, <1>6, <1>8, <1>10, <1>11, KeptTwice

\* To the data register: at k it was captured.
Captures(g, k, h) ==
  /\ Ready(h) /\ h.out = g.out /\ Keeps(g, k) /\ Goes(k, h) /\ IsTap(k.tap)
  /\ k.tap.ir = g.tap.ir /\ h.tap.ir = g.tap.ir
  /\ h.tap.shift = CaptureDR(k.tap).shift /\ h.tap.sticky = CaptureDR(k.tap).sticky

LEMMA SelectDr ==
  ASSUME NEW g, Ready(g), g.tap.state = "idle", NEW h,
         Leads(move_tap(<<TRUE, FALSE, FALSE>>), g, h)
  PROVE  h.tap.state = "shiftDR" /\ \E k : Captures(g, k, h)
<1> DEFINE s == move_tap(<<TRUE, FALSE, FALSE>>)
<1>0. Len(s) = 3 /\ Plain(s[1]) /\ Plain(s[2]) /\ Plain(s[3])
  BY MovesThree
<1>1. /\ s[1].tms /\ ~s[2].tms /\ ~s[3].tms
  BY MovesThree
<1> HIDE DEF s
<1>2. PICK a, b, c : /\ Step(g, s[1], a) /\ Step(a, s[2], b) /\ Step(b, s[3], c)
                     /\ Waits(c, h)
  BY <1>0, TakeThree DEF s
<1>3. TapNext(g.tap.state, s[1].tms) = "selectDR"
  BY <1>1 DEF TapNext
<1>4. Kept(g, a) /\ a.tap.state = "selectDR" /\ a.tap.ir = g.tap.ir
  BY <1>0, <1>2, <1>3, Moved
<1>5. TapNext(a.tap.state, s[2].tms) = "captureDR"
  BY <1>1, <1>4 DEF TapNext
<1>6. Kept(a, b) /\ b.tap.state = "captureDR" /\ b.tap.ir = a.tap.ir
  BY <1>0, <1>2, <1>4, <1>5, Moved DEF Kept
<1>7. TapNext(b.tap.state, s[3].tms) = "shiftDR"
  BY <1>1, <1>6 DEF TapNext
<1>8. /\ Ready(c) /\ c.tap.state = "shiftDR" /\ c.tap.ir = b.tap.ir /\ c.out = b.out
      /\ \E k : /\ Waits(b, k) /\ IsTap(k.tap)
                /\ c.tap.shift = CaptureDR(k.tap).shift
                /\ c.tap.sticky = CaptureDR(k.tap).sticky
                /\ c.tap.op = k.tap.op /\ c.tap.data = k.tap.data /\ c.facts = k.facts
  <2>1. Ready(b) /\ IsPulse(s[3]) /\ ~s[3].keep
    BY <1>0, <1>6 DEF Kept, Plain
  <2>2. TapNext(b.tap.state, s[3].tms) \notin {"updateIR", "updateDR"}
    BY <1>7
  <2>3. /\ Ready(c) /\ c.tap.state = TapNext(b.tap.state, s[3].tms)
        /\ c.tap.ir = IF c.tap.state = "reset" THEN IR_IDCODE ELSE b.tap.ir
        /\ c.out = IF s[3].keep THEN Append(b.out, jtag_tdo(b.tap)) ELSE b.out
    BY <1>2, <2>1, <2>2, StepIs
  <2>4. \E k : /\ Waits(b, k) /\ IsTap(k.tap)
               /\ c.tap.shift = CaptureDR(k.tap).shift
               /\ c.tap.sticky = CaptureDR(k.tap).sticky
               /\ c.tap.op = k.tap.op /\ c.tap.data = k.tap.data /\ c.facts = k.facts
    BY <1>2, <1>6, <2>1, <2>2, StepIs
  <2> QED
    BY <1>7, <2>1, <2>3, <2>4
<1>9. PICK k : /\ Waits(b, k) /\ IsTap(k.tap)
               /\ c.tap.shift = CaptureDR(k.tap).shift
               /\ c.tap.sticky = CaptureDR(k.tap).sticky
               /\ c.tap.op = k.tap.op /\ c.tap.data = k.tap.data /\ c.facts = k.facts
  BY <1>8
<1>10. Goes(k, c) /\ Kept(b, k) /\ k.tap.ir = b.tap.ir
  BY <1>6, <1>9, KeptWaits DEF Kept, Goes
<1>11. /\ Kept(c, h) /\ h.tap.state = "shiftDR" /\ h.tap.ir = c.tap.ir
       /\ h.tap.shift = c.tap.shift
  BY <1>2, <1>8, KeptWaits
<1>12. Kept(g, k)
  BY <1>4, <1>6, <1>10, KeptTwice
<1>13. Goes(k, h) /\ h.tap.sticky = c.tap.sticky
  BY <1>10, <1>11, GoesTwice DEF Kept, Keeps
<1>14. Ready(h) /\ h.out = g.out /\ Keeps(g, k)
  BY <1>4, <1>6, <1>8, <1>11, <1>12 DEF Kept
<1>15. Captures(g, k, h)
  BY <1>4, <1>6, <1>8, <1>9, <1>10, <1>11, <1>13, <1>14 DEF Captures
<1> QED
  BY <1>11, <1>15

-----------------------------------------------------------------------------
(* Registers of two and of three fields shifted through.                   *)

LEMMA PutTwo ==
  ASSUME NEW b, NEW x
  PROVE  Append(<<b>>, x) = <<b, x>>
<1> DEFINE S == {b, x}
           t == <<b>>
           u == <<b>> \o <<x>>
           v == <<b, x>>
<1>1. /\ t \in Seq(S) /\ x \in S /\ u \in Seq(S) /\ v \in Seq(S)
      /\ Len(u) = 2 /\ Len(v) = 2
  OBVIOUS
<1>2. u[1] = b /\ u[2] = x /\ v[1] = b /\ v[2] = x
  OBVIOUS
<1>3. \A i \in 1 .. 2 : i = 1 \/ i = 2
  OBVIOUS
<1> HIDE DEF S, t, u, v
<1>4. u = v
  <2>1. \A i \in 1 .. Len(u) : u[i] = v[i]
    BY <1>1, <1>2, <1>3
  <2> QED
    BY <1>1, <2>1, SeqEqual
<1>5. Append(t, x) = t \o <<x>>
  BY <1>1, AppendIsConcat
<1> QED
  BY <1>4, <1>5 DEF t, u, v

LEMMA PutThree ==
  ASSUME NEW b, NEW c, NEW x
  PROVE  Append(<<b, c>>, x) = <<b, c, x>>
<1> DEFINE S == {b, c, x}
           t == <<b, c>>
           u == <<b, c>> \o <<x>>
           v == <<b, c, x>>
<1>1. /\ t \in Seq(S) /\ x \in S /\ u \in Seq(S) /\ v \in Seq(S)
      /\ Len(u) = 3 /\ Len(v) = 3
  OBVIOUS
<1>2. u[1] = b /\ u[2] = c /\ u[3] = x /\ v[1] = b /\ v[2] = c /\ v[3] = x
  OBVIOUS
<1>3. \A i \in 1 .. 3 : i = 1 \/ i = 2 \/ i = 3
  OBVIOUS
<1> HIDE DEF S, t, u, v
<1>4. u = v
  <2>1. \A i \in 1 .. Len(u) : u[i] = v[i]
    BY <1>1, <1>2, <1>3
  <2> QED
    BY <1>1, <2>1, SeqEqual
<1>5. Append(t, x) = t \o <<x>>
  BY <1>1, AppendIsConcat
<1> QED
  BY <1>4, <1>5 DEF t, u, v

LEMMA ShiftedTwo ==
  ASSUME NEW a, NEW b, NEW x
  PROVE  Append(Tail(<<a, b>>), x) = <<b, x>>
<1>1. Tail(<<a, b>>) = <<b>>
  OBVIOUS
<1> QED
  BY <1>1, PutTwo

LEMMA ShiftedThree ==
  ASSUME NEW a, NEW b, NEW c, NEW x
  PROVE  Append(Tail(<<a, b, c>>), x) = <<b, c, x>>
<1>1. Tail(<<a, b, c>>) = <<b, c>>
  OBVIOUS
<1> QED
  BY <1>1, PutThree

LEMMA PulseIs ==
  ASSUME NEW p, NEW tms, NEW tdi, NEW keep, p = P(tms, tdi, keep)
  PROVE  IsPulse(p) /\ p.tms = tms /\ p.tdi = tdi /\ p.keep = keep
BY DEF P, IsPulse

LEMMA BitsAre ==
  ASSUME NEW F, NEW fields \in Seq(F), NEW keep
  PROVE  LET s == shift_bits(fields, keep)
         IN /\ IsSeq(s) /\ Len(s) = Len(fields)
            /\ \A i \in 1 .. Len(fields) :
                 /\ IsPulse(s[i]) /\ s[i].keep = keep /\ s[i].tdi = fields[i]
                 /\ s[i].tms <=> i = Len(fields)
<1> DEFINE n == Len(fields)
<1> SUFFICES ASSUME NEW i \in 1 .. n
             PROVE  LET s == shift_bits(fields, keep)
                    IN /\ IsPulse(s[i]) /\ s[i].keep = keep /\ s[i].tdi = fields[i]
                       /\ s[i].tms <=> i = n
  BY ShiftBits
<1> DEFINE p == shift_bits(fields, keep)[i]
           last == [b \in {0} |-> i = n]
           f == fields[i]
<1>1. p = P(i = n, f, keep)
  BY ShiftBits
<1>2. p = P(last[0], f, keep) /\ (last[0] <=> i = n)
  BY <1>1
<1> HIDE DEF p, last, f
<1>3. IsPulse(p) /\ p.tms = last[0] /\ p.tdi = f /\ p.keep = keep
  BY <1>2, PulseIs
<1> QED
  BY <1>2, <1>3 DEF p, f

LEMMA BitsTwo ==
  ASSUME NEW x, NEW y, NEW keep
  PROVE  LET s == shift_bits(<<x, y>>, keep)
         IN /\ IsSeq(s) /\ Len(s) = 2
            /\ IsPulse(s[1]) /\ s[1].keep = keep /\ s[1].tdi = x /\ ~s[1].tms
            /\ IsPulse(s[2]) /\ s[2].keep = keep /\ s[2].tdi = y /\ s[2].tms
<1> DEFINE t == <<x, y>>
           s == shift_bits(t, keep)
<1>1. t \in Seq({x, y}) /\ Len(t) = 2 /\ t[1] = x /\ t[2] = y
  OBVIOUS
<1> HIDE DEF t
<1>2. /\ IsSeq(s) /\ Len(s) = 2
      /\ \A i \in 1 .. 2 : /\ IsPulse(s[i]) /\ s[i].keep = keep /\ s[i].tdi = t[i]
                           /\ s[i].tms <=> i = 2
  BY <1>1, BitsAre
<1> HIDE DEF s
<1>3. 1 \in 1 .. 2 /\ 2 \in 1 .. 2 /\ 1 # 2
  OBVIOUS
<1>4. /\ IsPulse(s[1]) /\ s[1].keep = keep /\ s[1].tdi = t[1] /\ ~s[1].tms
      /\ IsPulse(s[2]) /\ s[2].keep = keep /\ s[2].tdi = t[2] /\ s[2].tms
  BY <1>2, <1>3
<1> QED
  BY <1>1, <1>2, <1>4 DEF s, t

LEMMA BitsThree ==
  ASSUME NEW x, NEW y, NEW z, NEW keep
  PROVE  LET s == shift_bits(<<x, y, z>>, keep)
         IN /\ IsSeq(s) /\ Len(s) = 3
            /\ IsPulse(s[1]) /\ s[1].keep = keep /\ s[1].tdi = x /\ ~s[1].tms
            /\ IsPulse(s[2]) /\ s[2].keep = keep /\ s[2].tdi = y /\ ~s[2].tms
            /\ IsPulse(s[3]) /\ s[3].keep = keep /\ s[3].tdi = z /\ s[3].tms
<1> DEFINE t == <<x, y, z>>
           s == shift_bits(t, keep)
<1>1. t \in Seq({x, y, z}) /\ Len(t) = 3 /\ t[1] = x /\ t[2] = y /\ t[3] = z
  OBVIOUS
<1> HIDE DEF t
<1>2. /\ IsSeq(s) /\ Len(s) = 3
      /\ \A i \in 1 .. 3 : /\ IsPulse(s[i]) /\ s[i].keep = keep /\ s[i].tdi = t[i]
                           /\ s[i].tms <=> i = 3
  BY <1>1, BitsAre
<1> HIDE DEF s
<1>3. 1 \in 1 .. 3 /\ 2 \in 1 .. 3 /\ 3 \in 1 .. 3 /\ 1 # 3 /\ 2 # 3
  OBVIOUS
<1>4. /\ IsPulse(s[1]) /\ s[1].keep = keep /\ s[1].tdi = t[1] /\ ~s[1].tms
      /\ IsPulse(s[2]) /\ s[2].keep = keep /\ s[2].tdi = t[2] /\ ~s[2].tms
      /\ IsPulse(s[3]) /\ s[3].keep = keep /\ s[3].tdi = t[3] /\ s[3].tms
  BY <1>2, <1>3
<1> QED
  BY <1>1, <1>2, <1>4 DEF s, t

\* A pulse that shifts: what leaves the register is kept when it is asked for.
Shifting(g) == Ready(g) /\ g.tap.state \in {"shiftDR", "shiftIR"}
Exit(state) == IF state = "shiftDR" THEN "exit1DR" ELSE "exit1IR"
Taken(out, keep, fields) == IF keep THEN out \o fields ELSE out

LEMMA StepShifts ==
  ASSUME NEW g, Shifting(g), NEW p, IsPulse(p), NEW h, Step(g, p, h)
  PROVE  /\ Ready(h) /\ Keeps(g, h) /\ h.tap.ir = g.tap.ir
         /\ h.tap.state = IF p.tms THEN Exit(g.tap.state) ELSE g.tap.state
         /\ h.tap.shift = Append(Tail(g.tap.shift), p.tdi)
         /\ h.out = IF p.keep THEN Append(g.out, g.tap.shift[1]) ELSE g.out
<1>0. Ready(g) /\ g.tap.state \in {"shiftDR", "shiftIR"}
  BY DEF Shifting
<1>1. TapNext(g.tap.state, p.tms) = IF p.tms THEN Exit(g.tap.state) ELSE g.tap.state
  BY <1>0 DEF TapNext, Exit
<1>2. TapNext(g.tap.state, p.tms) \notin {"updateIR", "updateDR", "reset"}
  BY <1>0, <1>1 DEF Exit
<1>3. jtag_tdo(g.tap) = g.tap.shift[1]
  BY <1>0 DEF jtag_tdo
<1>4. /\ Ready(h) /\ h.tap.state = TapNext(g.tap.state, p.tms)
      /\ h.tap.ir = IF h.tap.state = "reset" THEN IR_IDCODE ELSE g.tap.ir
      /\ h.out = IF p.keep THEN Append(g.out, jtag_tdo(g.tap)) ELSE g.out
      /\ g.tap.state # "captureDR" => Keeps(g, h)
      /\ g.tap.state \in {"shiftDR", "shiftIR"} =>
           h.tap.shift = Append(Tail(g.tap.shift), p.tdi)
  BY <1>0, <1>2, StepIs
<1> QED
  BY <1>0, <1>1, <1>2, <1>3, <1>4

\* What is kept goes to the end of the answers.
LEMMA Puts ==
  ASSUME NEW S, NEW o \in Seq(S), NEW a, NEW b, NEW c
  PROVE  /\ Append(Append(o, a), b) = o \o <<a, b>>
         /\ Append(Append(Append(o, a), b), c) = o \o <<a, b, c>>
<1> DEFINE U == S \cup {a, b, c}
           i == <<a>>
           j == <<b>>
           k == <<c>>
           ij == <<a, b>>
           ijk == <<a, b, c>>
<1>1. /\ o \in Seq(U) /\ a \in U /\ b \in U /\ c \in U
      /\ i \in Seq(U) /\ j \in Seq(U) /\ k \in Seq(U) /\ ij \in Seq(U) /\ ijk \in Seq(U)
  OBVIOUS
<1>2. Append(i, b) = ij /\ Append(ij, c) = ijk
  BY PutTwo, PutThree
<1> HIDE DEF U, i, j, k, ij, ijk
<1>3. i \o j = ij /\ ij \o k = ijk
  <2>1. Append(i, b) = i \o j /\ Append(ij, c) = ij \o k
    BY <1>1, AppendIsConcat DEF j, k
  <2> QED
    BY <1>2, <2>1
<1>4. Append(o, a) = o \o i
  BY <1>1, AppendIsConcat DEF i
<1>5. Append(o \o i, b) = (o \o i) \o j
  <2> DEFINE q == o \o i
  <2>1. q \in Seq(U)
    BY <1>1
  <2> HIDE DEF q
  <2>2. Append(q, b) = q \o j
    BY <1>1, <2>1, AppendIsConcat DEF j
  <2> QED
    BY <2>2 DEF q
<1>6. (o \o i) \o j = o \o ij
  <2>0. o \in Seq(U) /\ i \in Seq(U) /\ j \in Seq(U)
    BY <1>1
  <2>1. (o \o i) \o j = o \o (i \o j)
    BY <2>0
  <2> QED
    BY <1>3, <2>1
<1>7. Append(o \o ij, c) = (o \o ij) \o k
  <2> DEFINE q == o \o ij
  <2>1. q \in Seq(U)
    BY <1>1
  <2> HIDE DEF q
  <2>2. Append(q, c) = q \o k
    BY <1>1, <2>1, AppendIsConcat DEF k
  <2> QED
    BY <2>2 DEF q
<1>8. (o \o ij) \o k = o \o ijk
  <2>0. o \in Seq(U) /\ ij \in Seq(U) /\ k \in Seq(U)
    BY <1>1
  <2>1. (o \o ij) \o k = o \o (ij \o k)
    BY <2>0
  <2> QED
    BY <1>3, <2>1
<1> QED
  BY <1>4, <1>5, <1>6, <1>7, <1>8 DEF ij, ijk

LEMMA ShiftsTwo ==
  ASSUME NEW g, Shifting(g), IsSeq(g.out),
         NEW a, NEW b, g.tap.shift = <<a, b>>, NEW x, NEW y, NEW keep, NEW h,
         Leads(shift_bits(<<x, y>>, keep), g, h)
  PROVE  /\ Ready(h) /\ Keeps(g, h) /\ h.tap.ir = g.tap.ir
         /\ h.tap.state = Exit(g.tap.state) /\ h.tap.shift = <<x, y>>
         /\ h.out = Taken(g.out, keep, <<a, b>>)
<1> DEFINE s == shift_bits(<<x, y>>, keep)
<1>0. ~s[1].tms /\ s[2].tms
  BY BitsTwo
<1>1. /\ IsSeq(s) /\ Len(s) = 2
      /\ IsPulse(s[1]) /\ s[1].keep = keep /\ s[1].tdi = x
      /\ IsPulse(s[2]) /\ s[2].keep = keep /\ s[2].tdi = y
  BY BitsTwo
<1> HIDE DEF s
<1>2. PICK c, d : Step(g, s[1], c) /\ Step(c, s[2], d) /\ Waits(d, h)
  BY <1>1, TakeTwo DEF s
<1>3. /\ Ready(c) /\ Keeps(g, c) /\ c.tap.ir = g.tap.ir /\ c.tap.state = g.tap.state
      /\ c.tap.shift = <<b, x>> /\ c.out = IF keep THEN Append(g.out, a) ELSE g.out
  <2>1. /\ Ready(c) /\ Keeps(g, c) /\ c.tap.ir = g.tap.ir
        /\ c.tap.state = IF s[1].tms THEN Exit(g.tap.state) ELSE g.tap.state
        /\ c.tap.shift = Append(Tail(g.tap.shift), s[1].tdi)
        /\ c.out = IF s[1].keep THEN Append(g.out, g.tap.shift[1]) ELSE g.out
    <3>1. Shifting(g) /\ IsPulse(s[1]) /\ Step(g, s[1], c)
      BY <1>1, <1>2
    <3> QED
      BY <3>1, StepShifts
  <2>2. g.tap.shift[1] = a /\ Append(Tail(<<a, b>>), x) = <<b, x>>
    BY ShiftedTwo
  <2> QED
    BY <1>0, <1>1, <2>1, <2>2
<1>4. /\ Ready(d) /\ Keeps(c, d) /\ d.tap.ir = c.tap.ir /\ d.tap.state = Exit(g.tap.state)
      /\ d.tap.shift = <<x, y>> /\ d.out = IF keep THEN Append(c.out, b) ELSE c.out
  <2>1. /\ Ready(d) /\ Keeps(c, d) /\ d.tap.ir = c.tap.ir
        /\ d.tap.state = IF s[2].tms THEN Exit(c.tap.state) ELSE c.tap.state
        /\ d.tap.shift = Append(Tail(c.tap.shift), s[2].tdi)
        /\ d.out = IF s[2].keep THEN Append(c.out, c.tap.shift[1]) ELSE c.out
    <3>1. Shifting(c) /\ IsPulse(s[2]) /\ Step(c, s[2], d)
      BY <1>1, <1>2, <1>3 DEF Shifting
    <3> QED
      BY <3>1, StepShifts
  <2>2. c.tap.shift[1] = b /\ Append(Tail(<<b, x>>), y) = <<x, y>>
    BY <1>3, ShiftedTwo
  <2> QED
    BY <1>0, <1>1, <1>3, <2>1, <2>2
<1>5. Kept(d, h) /\ h.tap.state = d.tap.state /\ h.tap.ir = d.tap.ir /\ h.tap.shift = d.tap.shift
  BY <1>2, <1>4, KeptWaits
<1>6. d.out = Taken(g.out, keep, <<a, b>>)
  <2>1. Append(Append(g.out, a), b) = g.out \o <<a, b>>
    BY Puts DEF IsSeq
  <2> QED
    BY <1>3, <1>4, <2>1 DEF Taken
<1>7. Keeps(g, h)
  BY <1>3, <1>4, <1>5, KeepsTwice DEF Kept
<1> QED
  BY <1>3, <1>4, <1>5, <1>6, <1>7 DEF Kept

LEMMA ShiftsThree ==
  ASSUME NEW g, Shifting(g), IsSeq(g.out),
         NEW a, NEW b, NEW c, g.tap.shift = <<a, b, c>>,
         NEW x, NEW y, NEW z, NEW keep, NEW h,
         Leads(shift_bits(<<x, y, z>>, keep), g, h)
  PROVE  /\ Ready(h) /\ Keeps(g, h) /\ h.tap.ir = g.tap.ir
         /\ h.tap.state = Exit(g.tap.state) /\ h.tap.shift = <<x, y, z>>
         /\ h.out = Taken(g.out, keep, <<a, b, c>>)
<1> DEFINE s == shift_bits(<<x, y, z>>, keep)
<1>0. ~s[1].tms /\ ~s[2].tms /\ s[3].tms
  BY BitsThree
<1>1. /\ IsSeq(s) /\ Len(s) = 3
      /\ IsPulse(s[1]) /\ s[1].keep = keep /\ s[1].tdi = x
      /\ IsPulse(s[2]) /\ s[2].keep = keep /\ s[2].tdi = y
      /\ IsPulse(s[3]) /\ s[3].keep = keep /\ s[3].tdi = z
  BY BitsThree
<1> HIDE DEF s
<1>2. PICK d, e, f : Step(g, s[1], d) /\ Step(d, s[2], e) /\ Step(e, s[3], f) /\ Waits(f, h)
  BY <1>1, TakeThree DEF s
<1>3. /\ Ready(d) /\ Keeps(g, d) /\ d.tap.ir = g.tap.ir /\ d.tap.state = g.tap.state
      /\ d.tap.shift = <<b, c, x>> /\ d.out = IF keep THEN Append(g.out, a) ELSE g.out
  <2>1. /\ Ready(d) /\ Keeps(g, d) /\ d.tap.ir = g.tap.ir
        /\ d.tap.state = IF s[1].tms THEN Exit(g.tap.state) ELSE g.tap.state
        /\ d.tap.shift = Append(Tail(g.tap.shift), s[1].tdi)
        /\ d.out = IF s[1].keep THEN Append(g.out, g.tap.shift[1]) ELSE g.out
    <3>1. Shifting(g) /\ IsPulse(s[1]) /\ Step(g, s[1], d)
      BY <1>1, <1>2
    <3> QED
      BY <3>1, StepShifts
  <2>2. g.tap.shift[1] = a /\ Append(Tail(<<a, b, c>>), x) = <<b, c, x>>
    BY ShiftedThree
  <2> QED
    BY <1>0, <1>1, <2>1, <2>2
<1>4. /\ Ready(e) /\ Keeps(d, e) /\ e.tap.ir = d.tap.ir /\ e.tap.state = g.tap.state
      /\ e.tap.shift = <<c, x, y>> /\ e.out = IF keep THEN Append(d.out, b) ELSE d.out
  <2>1. /\ Ready(e) /\ Keeps(d, e) /\ e.tap.ir = d.tap.ir
        /\ e.tap.state = IF s[2].tms THEN Exit(d.tap.state) ELSE d.tap.state
        /\ e.tap.shift = Append(Tail(d.tap.shift), s[2].tdi)
        /\ e.out = IF s[2].keep THEN Append(d.out, d.tap.shift[1]) ELSE d.out
    <3>1. Shifting(d) /\ IsPulse(s[2]) /\ Step(d, s[2], e)
      BY <1>1, <1>2, <1>3 DEF Shifting
    <3> QED
      BY <3>1, StepShifts
  <2>2. d.tap.shift[1] = b /\ Append(Tail(<<b, c, x>>), y) = <<c, x, y>>
    BY <1>3, ShiftedThree
  <2> QED
    BY <1>0, <1>1, <1>3, <2>1, <2>2
<1>5. /\ Ready(f) /\ Keeps(e, f) /\ f.tap.ir = e.tap.ir /\ f.tap.state = Exit(g.tap.state)
      /\ f.tap.shift = <<x, y, z>> /\ f.out = IF keep THEN Append(e.out, c) ELSE e.out
  <2>1. /\ Ready(f) /\ Keeps(e, f) /\ f.tap.ir = e.tap.ir
        /\ f.tap.state = IF s[3].tms THEN Exit(e.tap.state) ELSE e.tap.state
        /\ f.tap.shift = Append(Tail(e.tap.shift), s[3].tdi)
        /\ f.out = IF s[3].keep THEN Append(e.out, e.tap.shift[1]) ELSE e.out
    <3>1. Shifting(e) /\ IsPulse(s[3]) /\ Step(e, s[3], f)
      BY <1>1, <1>2, <1>4 DEF Shifting
    <3> QED
      BY <3>1, StepShifts
  <2>2. e.tap.shift[1] = c /\ Append(Tail(<<c, x, y>>), z) = <<x, y, z>>
    BY <1>4, ShiftedThree
  <2> QED
    BY <1>0, <1>1, <1>4, <2>1, <2>2
<1>6. Kept(f, h) /\ h.tap.state = f.tap.state /\ h.tap.ir = f.tap.ir /\ h.tap.shift = f.tap.shift
  BY <1>2, <1>5, KeptWaits
<1>7. f.out = Taken(g.out, keep, <<a, b, c>>)
  <2>1. Append(Append(Append(g.out, a), b), c) = g.out \o <<a, b, c>>
    BY Puts DEF IsSeq
  <2> QED
    BY <1>3, <1>4, <1>5, <2>1 DEF Taken
<1>8. Keeps(g, h)
  BY <1>3, <1>4, <1>5, <1>6, KeepsTwice DEF Kept
<1> QED
  BY <1>3, <1>4, <1>5, <1>6, <1>7, <1>8 DEF Kept

-----------------------------------------------------------------------------
(* A scan of a register, from idle to idle.                                *)

LEMMA SplitThree ==
  ASSUME NEW s, NEW t, NEW u, IsSeq(s), IsSeq(t), IsSeq(u), NEW g, Clean(g), NEW k,
         Leads(s \o t \o u, g, k)
  PROVE  \E h, i : Leads(s, g, h) /\ Leads(t, h, i) /\ Leads(u, i, k)
<1>1. IsSeq(s \o t)
  BY ConcatIs
<1>2. PICK i : Leads(s \o t, g, i) /\ Leads(u, i, k)
  BY <1>1, LeadsSplit
<1> QED
  BY <1>2, LeadsSplit

LEMMA UpdatesIr ==
  ASSUME NEW g, Ready(g), g.tap.state = "exit1IR", NEW h,
         Leads(move_tap(<<TRUE, FALSE>>), g, h)
  PROVE  Kept(g, h) /\ h.tap.state = "idle" /\ h.tap.ir = g.tap.shift[1]
<1> DEFINE s == move_tap(<<TRUE, FALSE>>)
<1>0. Len(s) = 2 /\ Plain(s[1]) /\ Plain(s[2])
  BY MovesTwo
<1>1. s[1].tms /\ ~s[2].tms
  BY MovesTwo
<1> HIDE DEF s
<1>2. PICK a, b : Step(g, s[1], a) /\ Step(a, s[2], b) /\ Waits(b, h)
  BY <1>0, TakeTwo DEF s
<1>3. TapNext(g.tap.state, s[1].tms) = "updateIR"
  BY <1>1 DEF TapNext
<1>4. Kept(g, a) /\ a.tap.state = "updateIR" /\ a.tap.ir = g.tap.shift[1]
  BY <1>0, <1>2, <1>3, StepUpdatesIr DEF Kept, Plain
<1>5. TapNext(a.tap.state, s[2].tms) = "idle"
  BY <1>1, <1>4 DEF TapNext
<1>6. Kept(a, b) /\ b.tap.state = "idle" /\ b.tap.ir = a.tap.ir
  BY <1>0, <1>2, <1>4, <1>5, Moved DEF Kept
<1>7. Kept(b, h) /\ h.tap.state = "idle" /\ h.tap.ir = b.tap.ir
  BY <1>2, <1>6, KeptWaits DEF Kept
<1> QED
  BY <1>4, <1>6, <1>7, KeptTwice

\* The update of a data register at u, which the debug module was at as m.
Updates(g, m, u, h) ==
  /\ Keeps(g, m) /\ Kept(u, h) /\ u.out = g.out
  /\ u.tap.data = m.tap.data /\ u.facts = m.facts
  /\ u.tap.op = IF g.tap.ir = IR_DMI /\ g.tap.shift[1] # DMI_NOP /\ ~Busy(m.tap)
                THEN Issued(g.tap) ELSE m.tap.op
  /\ g.tap.ir # IR_DTMCS => u.tap.sticky = g.tap.sticky
  /\ g.tap.ir # IR_DMI \/ g.tap.shift[1] = DMI_NOP => Goes(g, u)
LEMMA UpdatesDr ==
  ASSUME NEW g, Ready(g), g.tap.state = "exit1DR", NEW h,
         Leads(move_tap(<<TRUE, FALSE>>), g, h)
  PROVE  /\ Ready(h) /\ h.tap.state = "idle" /\ h.tap.ir = g.tap.ir /\ h.out = g.out
         /\ \E m, u : Updates(g, m, u, h)
<1> DEFINE s == move_tap(<<TRUE, FALSE>>)
<1>0. Len(s) = 2 /\ Plain(s[1]) /\ Plain(s[2])
  BY MovesTwo
<1>1. s[1].tms /\ ~s[2].tms
  BY MovesTwo
<1> HIDE DEF s
<1>2. PICK a, b : Step(g, s[1], a) /\ Step(a, s[2], b) /\ Waits(b, h)
  BY <1>0, TakeTwo DEF s
<1>3. TapNext(g.tap.state, s[1].tms) = "updateDR" /\ IsPulse(s[1]) /\ ~s[1].keep
  BY <1>0, <1>1 DEF TapNext, Plain
<1>4. /\ Ready(a) /\ a.tap.state = "updateDR" /\ a.tap.ir = g.tap.ir /\ a.out = g.out
      /\ g.tap.ir # IR_DTMCS => a.tap.sticky = g.tap.sticky
      /\ g.tap.ir # IR_DMI \/ g.tap.shift[1] = DMI_NOP => Goes(g, a)
      /\ \E k : /\ Waits(g, k) /\ a.tap.data = k.tap.data /\ a.facts = k.facts
                /\ a.tap.op = IF g.tap.ir = IR_DMI /\ g.tap.shift[1] # DMI_NOP
                                 /\ ~Busy(k.tap)
                              THEN Issued(g.tap) ELSE k.tap.op
  BY <1>2, <1>3, StepUpdatesDr
<1>5. TapNext(a.tap.state, s[2].tms) = "idle"
  BY <1>1, <1>4 DEF TapNext
<1>6. Kept(a, b) /\ b.tap.state = "idle" /\ b.tap.ir = a.tap.ir
  BY <1>0, <1>2, <1>4, <1>5, Moved
<1>7. Kept(b, h) /\ h.tap.state = "idle" /\ h.tap.ir = b.tap.ir
  BY <1>2, <1>6, KeptWaits DEF Kept
<1>8. Kept(a, h)
  BY <1>6, <1>7, KeptTwice
<1>9. PICK k : /\ Waits(g, k) /\ a.tap.data = k.tap.data /\ a.facts = k.facts
               /\ a.tap.op = IF g.tap.ir = IR_DMI /\ g.tap.shift[1] # DMI_NOP
                                /\ ~Busy(k.tap)
                             THEN Issued(g.tap) ELSE k.tap.op
  BY <1>4
<1>10. Updates(g, k, a, h)
  BY <1>4, <1>8, <1>9 DEF Updates, Waits
<1> QED
  BY <1>4, <1>6, <1>7, <1>8, <1>10 DEF Kept

LEMMA WalkIr ==
  ASSUME NEW g, Ready(g), g.tap.state = "idle", IsSeq(g.out), NEW x, NEW h,
         Leads(shift_ir(x), g, h)
  PROVE  Kept(g, h) /\ h.tap.state = "idle" /\ h.tap.ir = x
<1> DEFINE no == FALSE
           s == move_tap(<<TRUE, TRUE, FALSE, FALSE>>)
           t == shift_bits(<<x, 0>>, no)
           u == move_tap(<<TRUE, FALSE>>)
<1>1. shift_ir(x) = s \o t \o u /\ ~no
  BY DEF shift_ir
<1> HIDE DEF no
<1>2. IsSeq(s) /\ IsSeq(t) /\ IsSeq(u) /\ Clean(g)
  BY MovesFour, MovesTwo, BitsTwo DEF Ready
<1> HIDE DEF s, t, u
<1>3. PICK a, b : Leads(s, g, a) /\ Leads(t, a, b) /\ Leads(u, b, h)
  BY <1>1, <1>2, SplitThree
<1>4. Kept(g, a) /\ a.tap.state = "shiftIR" /\ a.tap.shift = <<1, 0>>
  BY <1>3, SelectIr DEF s
<1>5. Kept(a, b) /\ b.tap.state = "exit1IR" /\ b.tap.shift = <<x, 0>>
  <2>1. Shifting(a) /\ IsSeq(a.out)
    BY <1>4 DEF Shifting, Kept
  <2>2. /\ Ready(b) /\ Keeps(a, b) /\ b.tap.ir = a.tap.ir
        /\ b.tap.state = Exit(a.tap.state) /\ b.tap.shift = <<x, 0>>
        /\ b.out = Taken(a.out, no, <<1, 0>>)
    BY <1>3, <1>4, <2>1, ShiftsTwo DEF t
  <2> QED
    BY <1>1, <1>4, <2>2 DEF Exit, Taken, Kept
<1>6. Kept(b, h) /\ h.tap.state = "idle" /\ h.tap.ir = b.tap.shift[1]
  BY <1>3, <1>5, UpdatesIr DEF Kept, u
<1>7. Kept(g, h)
  BY <1>4, <1>5, <1>6, KeptTwice
<1> QED
  BY <1>5, <1>6, <1>7

\* The identity of the device and of its transport.
Code(ir) == IF ir = IR_IDCODE THEN IDCODE ELSE DTMCS
LEMMA WalkCode ==
  ASSUME NEW g, Ready(g), g.tap.state = "idle", IsSeq(g.out),
         g.tap.ir \in {IR_IDCODE, IR_DTMCS}, NEW x, NEW y, NEW keep, NEW h,
         Leads(shift_dr(<<x, y>>, keep), g, h)
  PROVE  /\ Ready(h) /\ Goes(g, h) /\ h.tap.state = "idle" /\ h.tap.ir = g.tap.ir
         /\ h.out = Taken(g.out, keep, <<Code(g.tap.ir), 0>>)
<1> DEFINE s == move_tap(<<TRUE, FALSE, FALSE>>)
           t == shift_bits(<<x, y>>, keep)
           u == move_tap(<<TRUE, FALSE>>)
<1>1. shift_dr(<<x, y>>, keep) = s \o t \o u
  BY DEF shift_dr
<1>2. IsSeq(s) /\ IsSeq(t) /\ IsSeq(u) /\ Clean(g)
  BY MovesThree, MovesTwo, BitsTwo DEF Ready
<1> HIDE DEF s, t, u
<1>3. PICK a, b : Leads(s, g, a) /\ Leads(t, a, b) /\ Leads(u, b, h)
  BY <1>1, <1>2, SplitThree
<1>4. PICK k : a.tap.state = "shiftDR" /\ Captures(g, k, a)
  BY <1>3, SelectDr DEF s
<1>5. Goes(g, a) /\ Shifting(a) /\ a.tap.ir = g.tap.ir /\ a.out = g.out
  BY <1>4, GoesTwice DEF Captures, Keeps, Shifting
<1>6. a.tap.shift = <<Code(g.tap.ir), 0>>
  <2>1. Whole(k.tap) /\ k.tap.ir = g.tap.ir /\ a.tap.shift = CaptureDR(k.tap).shift
    BY <1>4 DEF Captures, IsTap, Whole
  <2>2. IR_IDCODE # IR_DTMCS
    BY DEF IR_IDCODE, IR_DTMCS
  <2> QED
    BY <2>1, <2>2, CaptureIs DEF Code
<1>7. /\ Ready(b) /\ Keeps(a, b) /\ b.tap.ir = a.tap.ir /\ b.tap.state = Exit(a.tap.state)
      /\ b.out = Taken(a.out, keep, <<Code(g.tap.ir), 0>>)
  BY <1>3, <1>5, <1>6, ShiftsTwo DEF t
<1>8. b.tap.state = "exit1DR" /\ Goes(g, b)
  BY <1>4, <1>5, <1>7, GoesTwice DEF Exit, Keeps
<1>9. /\ Ready(h) /\ h.tap.state = "idle" /\ h.tap.ir = b.tap.ir /\ h.out = b.out
      /\ \E m, v : Updates(b, m, v, h)
  BY <1>3, <1>7, <1>8, UpdatesDr DEF u
<1>10. PICK m, v : Updates(b, m, v, h)
  BY <1>9
<1>11. Goes(b, h)
  <2>1. b.tap.ir # IR_DMI
    BY <1>5, <1>7 DEF IR_IDCODE, IR_DTMCS, IR_DMI
  <2>2. Goes(b, v) /\ Goes(v, h)
    BY <1>10, <2>1 DEF Updates, Kept, Keeps
  <2> QED
    BY <2>2, GoesTwice
<1>12. Goes(g, h)
  BY <1>8, <1>11, GoesTwice
<1> QED
  BY <1>5, <1>7, <1>9, <1>12

-----------------------------------------------------------------------------
(* A request to the debug module and its answer. What has to be known of   *)
(* the hart stays known while the request is served.                       *)

Steady(a, known) == \A x, y, v : known \subseteq x /\ Served(a, x, y, v) => known \subseteq y
Holds(g, a, known) == g.tap.op \in {None, a} /\ known \subseteq g.facts
Answered(a, known, facts, data) == \E x : known \subseteq x /\ Served(a, x, facts, data)
Asked(g, a, known) ==
  Holds(g, a, known) /\ (Busy(g.tap) \/ Answered(a, known, g.facts, g.tap.data))

LEMMA AnsweredWider ==
  ASSUME NEW a, NEW known, NEW y, NEW z, NEW v, Answered(a, known, y, v), y \subseteq z
  PROVE  Answered(a, known, z, v)
<1>1. PICK x : known \subseteq x /\ Served(a, x, y, v)
  BY DEF Answered
<1>2. Served(a, x, z, v)
  BY <1>1, ServedWider
<1> QED
  BY <1>1, <1>2 DEF Answered

LEMMA HoldsGoes ==
  ASSUME NEW a, NEW known, Steady(a, known), NEW g, NEW h, Holds(g, a, known), Goes(g, h)
  PROVE  Holds(h, a, known)
<1>1. CASE h.tap.op = g.tap.op /\ h.tap.data = g.tap.data /\ g.facts \subseteq h.facts
  BY <1>1 DEF Holds
<1>2. CASE /\ g.tap.op # None /\ h.tap.op = None
           /\ Served(g.tap.op, g.facts, h.facts, h.tap.data)
  <2>1. Served(a, g.facts, h.facts, h.tap.data) /\ known \subseteq g.facts
    BY <1>2 DEF Holds
  <2>2. known \subseteq h.facts
    BY <2>1 DEF Steady
  <2> QED
    BY <1>2, <2>2 DEF Holds
<1> QED
  BY <1>1, <1>2 DEF Goes

LEMMA AskedKeeps ==
  ASSUME NEW a, NEW known, Steady(a, known), NEW g, NEW h, Asked(g, a, known), Keeps(g, h)
  PROVE  Asked(h, a, known)
<1>1. Holds(h, a, known)
  BY HoldsGoes DEF Asked, Keeps
<1>2. CASE h.tap.op = g.tap.op /\ h.tap.data = g.tap.data /\ g.facts \subseteq h.facts
  <2>1. Busy(g.tap) => Busy(h.tap)
    BY <1>2 DEF Busy, Keeps
  <2>2. Answered(a, known, g.facts, g.tap.data) => Answered(a, known, h.facts, h.tap.data)
    BY <1>2, AnsweredWider
  <2> QED
    BY <1>1, <2>1, <2>2 DEF Asked
<1>3. CASE /\ g.tap.op # None /\ h.tap.op = None
           /\ Served(g.tap.op, g.facts, h.facts, h.tap.data)
  <2>1. Served(a, g.facts, h.facts, h.tap.data) /\ known \subseteq g.facts
    BY <1>3 DEF Asked, Holds
  <2>2. Answered(a, known, h.facts, h.tap.data)
    BY <2>1 DEF Answered
  <2> QED
    BY <1>1, <2>2 DEF Asked
<1> QED
  BY <1>2, <1>3 DEF Keeps, Goes

\* To the end of the shift: at k the transport was captured.
Shifts(g, k, e, keep) ==
  /\ Keeps(g, k) /\ Goes(k, e) /\ Ready(e) /\ e.tap.state = "exit1DR" /\ e.tap.ir = IR_DMI
  /\ (e.tap.sticky <=> Busy(k.tap))
  /\ e.out = Taken(g.out, keep, <<IF Busy(k.tap) THEN DMI_BUSY ELSE DMI_SUCCESS,
                                  k.tap.data, 0>>)
Scans(g, x, y, z, keep, h) ==
  \E k, e : /\ Shifts(g, k, e, keep) /\ e.tap.shift = <<x, y, z>>
            /\ Leads(move_tap(<<TRUE, FALSE>>), e, h)
LEMMA WalkDmi ==
  ASSUME NEW g, Ready(g), g.tap.state = "idle", IsSeq(g.out), g.tap.ir = IR_DMI,
         NEW x, NEW y, NEW z, NEW keep, NEW h, Leads(shift_dr(<<x, y, z>>, keep), g, h)
  PROVE  Scans(g, x, y, z, keep, h)
<1> DEFINE s == move_tap(<<TRUE, FALSE, FALSE>>)
           t == shift_bits(<<x, y, z>>, keep)
           u == move_tap(<<TRUE, FALSE>>)
<1>1. shift_dr(<<x, y, z>>, keep) = s \o t \o u
  BY DEF shift_dr
<1>2. IsSeq(s) /\ IsSeq(t) /\ IsSeq(u) /\ Clean(g)
  BY MovesThree, MovesTwo, BitsThree DEF Ready
<1> HIDE DEF s, t, u
<1>3. PICK a, b : Leads(s, g, a) /\ Leads(t, a, b) /\ Leads(u, b, h)
  BY <1>1, <1>2, SplitThree
<1>4. PICK k : a.tap.state = "shiftDR" /\ Captures(g, k, a)
  BY <1>3, SelectDr DEF s
<1>5. /\ Keeps(g, k) /\ Goes(k, a) /\ Shifting(a) /\ a.tap.ir = IR_DMI /\ a.out = g.out
      /\ IsSeq(a.out)
  BY <1>4 DEF Captures, Shifting
<1> DEFINE status == IF Busy(k.tap) THEN DMI_BUSY ELSE DMI_SUCCESS
           data == k.tap.data
<1>6. a.tap.shift = <<status, data, 0>> /\ (a.tap.sticky <=> Busy(k.tap))
  <2>1. /\ Whole(k.tap) /\ k.tap.ir = IR_DMI /\ a.tap.shift = CaptureDR(k.tap).shift
        /\ a.tap.sticky = CaptureDR(k.tap).sticky
    BY <1>4 DEF Captures, IsTap, Whole
  <2> QED
    BY <2>1, CaptureIs
<1> HIDE DEF status, data
<1>7. /\ Ready(b) /\ Keeps(a, b) /\ b.tap.ir = a.tap.ir /\ b.tap.state = Exit(a.tap.state)
      /\ b.tap.shift = <<x, y, z>> /\ b.out = Taken(a.out, keep, <<status, data, 0>>)
  BY <1>3, <1>5, <1>6, ShiftsThree DEF t
<1>8. b.tap.state = "exit1DR" /\ Goes(k, b) /\ (b.tap.sticky <=> Busy(k.tap))
  BY <1>4, <1>5, <1>6, <1>7, GoesTwice DEF Exit, Keeps
<1>9. Shifts(g, k, b, keep)
  BY <1>5, <1>7, <1>8 DEF Shifts, status, data
<1> QED
  BY <1>3, <1>7, <1>9 DEF u, Scans

IsRequest(a, x, y, z) == a = [operation |-> x, data |-> y, address |-> z]
AsksBy(path, a) ==
  \E x, y, z : /\ x # DMI_NOP /\ IsRequest(a, x, y, z)
               /\ path = shift_dr(<<x, y, z>>, FALSE)
LEMMA AsksDmi ==
  ASSUME NEW path, NEW a, AsksBy(path, a), a # None,
         NEW known, Steady(a, known),
         NEW g, Ready(g), g.tap.state = "idle", IsSeq(g.out), g.tap.ir = IR_DMI,
         Holds(g, a, known), NEW h, Leads(path, g, h)
  PROVE  /\ Ready(h) /\ h.tap.state = "idle" /\ h.tap.ir = IR_DMI /\ h.out = g.out
         /\ Asked(h, a, known)
<1> DEFINE no == FALSE
<1>12. PICK x, y, z : /\ x # DMI_NOP /\ IsRequest(a, x, y, z)
                      /\ path = shift_dr(<<x, y, z>>, no)
  BY DEF AsksBy
<1>0. Leads(shift_dr(<<x, y, z>>, no), g, h)
  BY <1>12
<1>10. \A f : Taken(g.out, no, f) = g.out
  BY DEF Taken
<1> HIDE DEF no
<1>11. Scans(g, x, y, z, no, h)
  BY <1>0, WalkDmi
<1>1. PICK k, e : /\ Shifts(g, k, e, no) /\ e.tap.shift = <<x, y, z>>
                  /\ Leads(move_tap(<<TRUE, FALSE>>), e, h)
  BY <1>11 DEF Scans
<1>2. Ready(e) /\ e.tap.state = "exit1DR" /\ e.tap.ir = IR_DMI /\ e.out = g.out
  BY <1>1, <1>10 DEF Shifts
<1>3. /\ Ready(h) /\ h.tap.state = "idle" /\ h.tap.ir = IR_DMI /\ h.out = g.out
      /\ \E m, u : Updates(e, m, u, h)
  BY <1>1, <1>2, UpdatesDr
<1>4. PICK m, u : Updates(e, m, u, h)
  BY <1>3
<1>5. Holds(k, a, known) /\ Holds(e, a, known) /\ Holds(m, a, known)
  BY <1>1, <1>4, HoldsGoes DEF Shifts, Updates, Keeps
<1>6. IR_DMI # IR_DTMCS
  BY DEF IR_DMI, IR_DTMCS
<1>7. /\ u.tap.op = IF ~Busy(m.tap) THEN a ELSE m.tap.op
      /\ u.facts = m.facts /\ u.tap.sticky = m.tap.sticky /\ m.tap.sticky = e.tap.sticky
      /\ Keeps(u, h)
  <2>1. e.tap.shift[1] = x /\ x # DMI_NOP /\ Issued(e.tap) = a
    BY <1>1, <1>12 DEF Issued, IsRequest
  <2> QED
    BY <1>2, <1>4, <1>6, <2>1 DEF Updates, Keeps, Kept
\* A request on its way at the update was on its way when the register was captured.
<1>8. Busy(m.tap) => m.tap.sticky
  <2>1. m.tap.op # None => k.tap.op # None
    BY <1>1, <1>4 DEF Shifts, Updates, Keeps, Goes
  <2> QED
    BY <1>1, <1>7, <2>1 DEF Shifts, Busy
<1>9. Asked(u, a, known)
  <2>1. Holds(u, a, known)
    BY <1>5, <1>7 DEF Holds
  <2>2. Busy(u.tap)
    BY <1>7, <1>8 DEF Busy
  <2> QED
    BY <2>1, <2>2 DEF Asked
<1> QED
  BY <1>3, <1>7, <1>9, AskedKeeps

LEMMA ReadsDmi ==
  ASSUME NEW a, NEW known, Steady(a, known),
         NEW g, Ready(g), g.tap.state = "idle", IsSeq(g.out), g.tap.ir = IR_DMI,
         Asked(g, a, known), NEW h, Leads(shift_dr(<<DMI_NOP, 0, 0>>, TRUE), g, h)
  PROVE  /\ Ready(h) /\ h.tap.state = "idle" /\ h.tap.ir = IR_DMI /\ Holds(h, a, known)
         /\ \E status, data :
              /\ h.out = g.out \o <<status, data, 0>>
              /\ \/ status = DMI_BUSY
                 \/ /\ status = DMI_SUCCESS /\ h.tap.op = None
                    /\ Answered(a, known, h.facts, data)
<1> DEFINE yes == TRUE
<1>0. Leads(shift_dr(<<DMI_NOP, 0, 0>>, yes), g, h)
  OBVIOUS
<1>10. \A f : Taken(g.out, yes, f) = g.out \o f
  BY DEF Taken
<1> HIDE DEF yes
<1>11. Scans(g, DMI_NOP, 0, 0, yes, h)
  BY <1>0, WalkDmi
<1>1. PICK k, e : /\ Shifts(g, k, e, yes) /\ e.tap.shift = <<DMI_NOP, 0, 0>>
                  /\ Leads(move_tap(<<TRUE, FALSE>>), e, h)
  BY <1>11 DEF Scans
<1> DEFINE status == IF Busy(k.tap) THEN DMI_BUSY ELSE DMI_SUCCESS
           data == k.tap.data
<1>2. /\ Ready(e) /\ e.tap.state = "exit1DR" /\ e.tap.ir = IR_DMI
      /\ e.out = g.out \o <<status, data, 0>>
  BY <1>1, <1>10 DEF Shifts
<1>3. /\ Ready(h) /\ h.tap.state = "idle" /\ h.tap.ir = IR_DMI /\ h.out = e.out
      /\ \E m, u : Updates(e, m, u, h)
  BY <1>1, <1>2, UpdatesDr
<1>4. Goes(k, h)
  <2>1. PICK m, u : Updates(e, m, u, h)
    BY <1>3
  <2>2. e.tap.shift[1] = DMI_NOP
    BY <1>1
  <2>3. Goes(k, e) /\ Goes(e, u) /\ Goes(u, h)
    BY <1>1, <2>1, <2>2 DEF Shifts, Updates, Kept, Keeps
  <2> QED
    BY <2>3, GoesTwice
<1>5. Asked(k, a, known)
  BY <1>1, AskedKeeps DEF Shifts
<1>6. Holds(h, a, known)
  BY <1>4, <1>5, HoldsGoes DEF Asked
<1>7. CASE ~Busy(k.tap)
  <2>1. k.tap.op = None /\ Answered(a, known, k.facts, data)
    BY <1>5, <1>7 DEF Busy, Asked
  <2>2. h.tap.op = None /\ k.facts \subseteq h.facts
    BY <1>4, <2>1 DEF Goes
  <2> HIDE DEF data
  <2>3. Answered(a, known, h.facts, data)
    BY <2>1, <2>2, AnsweredWider
  <2>4. status = DMI_SUCCESS
    BY <1>7
  <2> QED
    BY <1>2, <1>3, <1>6, <2>2, <2>3, <2>4
<1>8. CASE Busy(k.tap)
  <2>1. status = DMI_BUSY
    BY <1>8
  <2> QED
    BY <1>2, <1>3, <1>6, <2>1
<1> QED
  BY <1>7, <1>8

-----------------------------------------------------------------------------
(* The paths of the driver.                                                *)

LEMMA LeastNat ==
  ASSUME NEW T \in SUBSET Nat, T # {}
  PROVE  \E x \in T : \A y \in T : x <= y
<1>1. PICK x \in T : \A y \in T : ~(<<y, x>> \in OpToRel(<, Nat))
  BY WFMin, NatLessThanWellFounded, Zenon
<1>2. ASSUME NEW y \in T PROVE x <= y
  <2>1. ~(<<y, x>> \in OpToRel(<, Nat))
    BY <1>1, Zenon
  <2>2. ~(y < x)
    BY <2>1, Zenon DEF OpToRel
  <2> QED
    BY <2>2
<1> QED
  BY <1>2

LEMMA IdleIs ==
  ASSUME NEW n \in Nat
  PROVE  LET s == idle(n)
         IN /\ IsSeq(s) /\ Len(s) = n
            /\ \A i \in 1 .. n : Plain(s[i]) /\ ~s[i].tms
<1> DEFINE p == P(FALSE, 0, FALSE)
           s == idle(n)
<1>1. Plain(p) /\ ~p.tms
  BY DEF P, Plain, IsPulse
<1>2. s \in [1 .. n -> {p}] /\ \A i \in 1 .. n : s[i] = p
  BY DEF idle
<1> HIDE DEF s, p
<1>3. s \in Seq({p}) /\ Len(s) = n
  BY <1>2
<1> QED
  BY <1>1, <1>2, <1>3 DEF s, IsSeq

LEMMA WalkIdle ==
  ASSUME NEW n \in Nat, NEW g, Ready(g), g.tap.state = "idle", NEW h, Leads(idle(n), g, h)
  PROVE  Kept(g, h) /\ h.tap.state = "idle" /\ h.tap.ir = g.tap.ir
<1> DEFINE s == idle(n)
           Rests(k) == Kept(g, k) /\ k.tap.state = "idle" /\ k.tap.ir = g.tap.ir
<1>0. Len(s) = n /\ \A i \in 1 .. n : Plain(s[i])
  BY IdleIs
<1>1. \A i \in 1 .. n : ~s[i].tms
  BY IdleIs
<1> HIDE DEF s
<1>2. PICK f : /\ f[0] = g /\ Waits(f[n], h)
               /\ \A i \in 1 .. n : Step(f[i - 1], s[i], f[i])
  BY <1>0 DEF Leads, s
<1>3. Rests(g)
  BY DEF Kept, Keeps, Goes
<1>4. ASSUME NEW a, NEW b, NEW p, Rests(a), Plain(p), ~p.tms, Step(a, p, b)
      PROVE  Rests(b)
  <2>1. TapNext(a.tap.state, p.tms) = "idle"
    BY <1>4 DEF TapNext
  <2>2. Ready(a) /\ Plain(p) /\ Step(a, p, b) /\ a.tap.state = "idle"
    BY <1>4 DEF Kept
  <2>3. Kept(a, b) /\ b.tap.state = "idle" /\ b.tap.ir = a.tap.ir
    BY <2>1, <2>2, Moved
  <2> QED
    BY <1>4, <2>3, KeptTwice
<1> HIDE DEF Rests
<1>5. \A i \in 0 .. n : Rests(f[i])
  <2> DEFINE T == {i \in 0 .. n : ~Rests(f[i])}
  <2> SUFFICES ASSUME T # {} PROVE FALSE
    OBVIOUS
  <2>1. T \in SUBSET Nat
    OBVIOUS
  <2>2. PICK i \in T : \A j \in T : i <= j
    BY <2>1, LeastNat
  <2>3. i # 0
    BY <1>2, <1>3, <2>2
  <2>4. i \in 1 .. n /\ i - 1 \in 0 .. n /\ ~(i <= i - 1)
    BY <2>2, <2>3
  <2>5. Rests(f[i - 1])
    BY <2>2, <2>4
  <2>6. Rests(f[i])
    BY <1>0, <1>1, <1>2, <1>4, <2>4, <2>5
  <2> QED
    BY <2>2, <2>6
<1>6. Rests(f[n])
  BY <1>5
<1> QED
  BY <1>2, <1>6, KeptTwice, KeptWaits DEF Rests, Kept

LEMMA PathsAre ==
  ASSUME NEW x, NEW y, NEW z, NEW keep
  PROVE  /\ IsSeq(shift_ir(x))
         /\ IsSeq(shift_dr(<<x, y>>, keep))
         /\ IsSeq(shift_dr(<<x, y, z>>, keep))
<1> DEFINE s == move_tap(<<TRUE, TRUE, FALSE, FALSE>>)
           no == FALSE
           t == shift_bits(<<x, 0>>, no)
           u == move_tap(<<TRUE, FALSE>>)
           v == move_tap(<<TRUE, FALSE, FALSE>>)
           p == shift_bits(<<x, y>>, keep)
           q == shift_bits(<<x, y, z>>, keep)
<1>1. /\ shift_ir(x) = s \o t \o u /\ shift_dr(<<x, y>>, keep) = v \o p \o u
      /\ shift_dr(<<x, y, z>>, keep) = v \o q \o u
  BY DEF shift_ir, shift_dr
<1> HIDE DEF no
<1>2. IsSeq(s) /\ IsSeq(t) /\ IsSeq(u) /\ IsSeq(v) /\ IsSeq(p) /\ IsSeq(q)
  BY MovesFour, MovesTwo, MovesThree, BitsTwo, BitsThree
<1> HIDE DEF s, t, u, v, p, q
<1>3. IsSeq(s \o t) /\ IsSeq(v \o p) /\ IsSeq(v \o q)
  BY <1>2, ConcatIs
<1>4. IsSeq(s \o t \o u) /\ IsSeq(v \o p \o u) /\ IsSeq(v \o q \o u)
  BY <1>2, <1>3, ConcatIs
<1> QED
  BY <1>1, <1>4

LEMMA SplitFour ==
  ASSUME NEW s, NEW t, NEW u, NEW v, IsSeq(s), IsSeq(t), IsSeq(u), IsSeq(v),
         NEW g, Clean(g), NEW k, Leads(s \o t \o u \o v, g, k)
  PROVE  \E h, i, j : Leads(s, g, h) /\ Leads(t, h, i) /\ Leads(u, i, j) /\ Leads(v, j, k)
<1>1. IsSeq(s \o t \o u)
  <2>1. IsSeq(s \o t)
    BY ConcatIs
  <2> QED
    BY <2>1, ConcatIs
<1>2. PICK j : Leads(s \o t \o u, g, j) /\ Leads(v, j, k)
  BY <1>1, LeadsSplit
<1> QED
  BY <1>2, SplitThree

\* What an access brings back: busy, or the answer to its request.
Told(a, known, h, status, data) ==
  \/ status = DMI_BUSY
  \/ status = DMI_SUCCESS /\ h.tap.op = None /\ Answered(a, known, h.facts, data)
LEMMA WalkAccess ==
  ASSUME NEW step, step.operation # DMI_NOP, NEW a,
         IsRequest(a, step.operation, step.data, step.address), a # None,
         NEW known, Steady(a, known),
         NEW g, Ready(g), g.tap.state = "idle", g.out = <<>>, Holds(g, a, known),
         NEW h, Leads(dmi_path(step), g, h)
  PROVE  /\ Ready(h) /\ h.tap.state = "idle" /\ h.tap.ir = IR_DMI /\ Holds(h, a, known)
         /\ \E status, data :
              h.out = <<status, data, 0>> /\ Told(a, known, h, status, data)
<1> DEFINE p == shift_ir(IR_DMI)
           q == shift_dr(<<step.operation, step.data, step.address>>, FALSE)
           r == idle(DMI_IDLE_CYCLES)
           s == shift_dr(<<DMI_NOP, 0, 0>>, TRUE)
<1>1. dmi_path(step) = p \o q \o r \o s
  BY DEF dmi_path
<1>2. IsSeq(p) /\ IsSeq(q) /\ IsSeq(r) /\ IsSeq(s) /\ Clean(g)
  BY PathsAre, IdleIs, DebuggerAssumption DEF Ready
<1> HIDE DEF p, q, r, s
<1>3. PICK b, c, d : Leads(p, g, b) /\ Leads(q, b, c) /\ Leads(r, c, d) /\ Leads(s, d, h)
  BY <1>1, <1>2, SplitFour
<1>4. <<>> \in Seq({}) /\ IsSeq(<<>>)
  BY DEF IsSeq
<1>5. Kept(g, b) /\ b.tap.state = "idle" /\ b.tap.ir = IR_DMI
  BY <1>3, <1>4, WalkIr DEF p
<1>6. Ready(b) /\ b.out = <<>> /\ Holds(b, a, known)
  BY <1>5, HoldsGoes DEF Kept, Keeps
<1>7. /\ Ready(c) /\ c.tap.state = "idle" /\ c.tap.ir = IR_DMI /\ c.out = <<>>
      /\ Asked(c, a, known)
  <2>1. AsksBy(q, a) /\ IsSeq(b.out)
    BY <1>4, <1>6 DEF q, AsksBy
  <2> QED
    BY <1>3, <1>5, <1>6, <2>1, AsksDmi
<1>8. Kept(c, d) /\ d.tap.state = "idle" /\ d.tap.ir = IR_DMI
  BY <1>3, <1>7, WalkIdle, DebuggerAssumption DEF r
<1>9. Ready(d) /\ d.out = <<>> /\ Asked(d, a, known)
  BY <1>7, <1>8, AskedKeeps DEF Kept
<1>10. /\ Ready(h) /\ h.tap.state = "idle" /\ h.tap.ir = IR_DMI /\ Holds(h, a, known)
       /\ \E status, data :
            /\ h.out = d.out \o <<status, data, 0>>
            /\ \/ status = DMI_BUSY
               \/ /\ status = DMI_SUCCESS /\ h.tap.op = None
                  /\ Answered(a, known, h.facts, data)
  BY <1>3, <1>4, <1>8, <1>9, ReadsDmi DEF s
<1>11. \A u, v : <<>> \o <<u, v, 0>> = <<u, v, 0>>
  <2> SUFFICES ASSUME NEW u, NEW v PROVE <<>> \o <<u, v, 0>> = <<u, v, 0>>
    OBVIOUS
  <2>1. <<u, v, 0>> \in Seq({u, v, 0})
    OBVIOUS
  <2> QED
    BY <2>1, ConcatEmptySeq
<1> QED
  BY <1>9, <1>10, <1>11 DEF Told

LEMMA WalkReset ==
  ASSUME NEW g, Ready(g), g.tap.state = "idle", g.out = <<>>, NEW h, Leads(reset_path, g, h)
  PROVE  /\ Ready(h) /\ h.tap.state = "idle" /\ h.tap.ir = IR_DTMCS /\ h.out = <<>>
         /\ Goes(g, h)
<1> DEFINE no == FALSE
           p == shift_ir(IR_DTMCS)
           q == shift_dr(<<0, 1>>, no)
<1>1. reset_path = p \o q
  BY DEF reset_path
<1>2. \A o, f : Taken(o, no, f) = o
  BY DEF Taken
<1> HIDE DEF no
<1>3. IsSeq(p) /\ IsSeq(q) /\ Clean(g) /\ IsSeq(<<>>)
  <2>1. <<>> \in Seq({})
    OBVIOUS
  <2>2. IsSeq(p) /\ IsSeq(q)
    BY PathsAre
  <2> QED
    BY <2>1, <2>2 DEF Ready, IsSeq
<1> HIDE DEF p, q
<1>4. PICK b : Leads(p, g, b) /\ Leads(q, b, h)
  BY <1>1, <1>3, LeadsSplit
<1>5. Kept(g, b) /\ b.tap.state = "idle" /\ b.tap.ir = IR_DTMCS
  BY <1>3, <1>4, WalkIr DEF p
<1>6. Ready(b) /\ b.out = <<>> /\ Goes(g, b)
  BY <1>5 DEF Kept, Keeps
<1>7. /\ Ready(h) /\ Goes(b, h) /\ h.tap.state = "idle" /\ h.tap.ir = b.tap.ir
      /\ h.out = Taken(b.out, no, <<Code(b.tap.ir), 0>>)
  BY <1>3, <1>4, <1>5, <1>6, WalkCode DEF q
<1>8. Goes(g, h)
  BY <1>6, <1>7, GoesTwice
<1> QED
  BY <1>2, <1>5, <1>6, <1>7, <1>8

-----------------------------------------------------------------------------
(* Five set clocks reset the TAP, wherever it was; no request leaves on    *)
(* the way.                                                                *)

Within == [one |-> {"reset"}, two |-> {"reset", "selectIR"},
           three |-> {"reset", "selectIR", "selectDR"},
           four |-> {"reset", "selectIR", "selectDR", "idle", "updateDR", "updateIR"},
           five |-> {"reset", "selectIR", "selectDR", "idle", "updateDR", "updateIR",
                     "exit1DR", "exit2DR", "exit1IR", "exit2IR"}]
Up(state) == TapNext(state, TRUE)
LEMMA FiveUp ==
  /\ \A s \in TapStates : Up(s) \in Within.five
  /\ \A s \in Within.five : Up(s) \in Within.four
  /\ \A s \in Within.four : Up(s) \in Within.three
  /\ \A s \in Within.three : Up(s) \in Within.two
  /\ \A s \in Within.two : Up(s) \in Within.one
<1>1. \A s \in TapStates : Up(s) \in Within.five
  BY DEF Up, TapNext, TapStates, Within
<1>2. \A s \in Within.five : Up(s) \in Within.four
  BY DEF Up, TapNext, Within
<1>3. \A s \in Within.four : Up(s) \in Within.three
  BY DEF Up, TapNext, Within
<1>4. \A s \in Within.three : Up(s) \in Within.two
  BY DEF Up, TapNext, Within
<1>5. \A s \in Within.two : Up(s) \in Within.one
  BY DEF Up, TapNext, Within
<1> QED
  BY <1>1, <1>2, <1>3, <1>4, <1>5

\* On its way to reset with no request.
Climbing(g) ==
  /\ Ready(g) /\ g.tap.op = None
  /\ g.tap.ir = IR_IDCODE \/ g.tap.state \in Within.four

Raises(p) == Plain(p) /\ p.tms
LEMMA StepClimbs ==
  ASSUME NEW g, Climbing(g), NEW p, Raises(p), NEW h, Step(g, p, h)
  PROVE  /\ Climbing(h) /\ h.tap.state = Up(g.tap.state) /\ h.out = g.out
         /\ h.tap.state = "reset" => h.tap.ir = IR_IDCODE
<1> DEFINE next == Up(g.tap.state)
<1>1. TapNext(g.tap.state, p.tms) = next
  BY DEF TapNext, Up, Raises
<1>2. /\ Ready(g) /\ g.tap.op = None /\ IsPulse(p) /\ ~p.keep /\ Step(g, p, h)
      /\ g.tap.ir = IR_IDCODE \/ g.tap.state \in Within.four
  BY DEF Climbing, Plain, Raises
<1>3. next = "updateDR" => g.tap.state \notin Within.four
  BY DEF Up, TapNext, Within
<1>4. g.tap.state \in Within.four => next \in Within.four
  BY FiveUp DEF Within
<1> HIDE DEF next
<1>5. CASE next = "updateIR"
  <2>1. Ready(h) /\ h.tap.state = "updateIR" /\ h.out = g.out /\ Keeps(g, h)
    <3>1. TapNext(g.tap.state, p.tms) = "updateIR"
      BY <1>1, <1>5
    <3> QED
      BY <1>2, <3>1, StepUpdatesIr
  <2>2. h.tap.op = None
    BY <1>2, <2>1 DEF Keeps, Goes
  <2> QED
    BY <1>5, <2>1, <2>2 DEF Climbing, Within, next
<1>6. CASE next = "updateDR"
  <2>1. g.tap.ir = IR_IDCODE /\ g.tap.ir # IR_DMI
    BY <1>2, <1>3, <1>6 DEF IR_IDCODE, IR_DMI
  <2>2. Ready(h) /\ h.tap.state = "updateDR" /\ h.tap.ir = g.tap.ir /\ h.out = g.out
        /\ Goes(g, h)
    <3>1. TapNext(g.tap.state, p.tms) = "updateDR"
      BY <1>1, <1>6
    <3> QED
      BY <1>2, <2>1, <3>1, StepUpdatesDr
  <2>3. h.tap.op = None
    BY <1>2, <2>2 DEF Goes
  <2> QED
    BY <1>6, <2>1, <2>2, <2>3 DEF Climbing, next
<1>7. CASE next \notin {"updateIR", "updateDR"}
  <2>1. /\ Ready(h) /\ h.tap.state = next
        /\ h.tap.ir = IF h.tap.state = "reset" THEN IR_IDCODE ELSE g.tap.ir
        /\ h.out = IF p.keep THEN Append(g.out, jtag_tdo(g.tap)) ELSE g.out
        /\ Goes(g, h)
    <3>1. TapNext(g.tap.state, p.tms) = next /\ next \notin {"updateIR", "updateDR"}
      BY <1>1, <1>7
    <3> QED
      BY <1>2, <3>1, StepIs
  <2>2. h.tap.op = None
    BY <1>2, <2>1 DEF Goes
  <2>3. h.tap.ir = IR_IDCODE \/ h.tap.state \in Within.four
    BY <1>2, <1>4, <2>1
  <2> QED
    BY <1>2, <2>1, <2>2, <2>3 DEF Climbing, next
<1> QED
  BY <1>5, <1>6, <1>7

LEMMA TakeSeven ==
  ASSUME NEW s, Len(s) = 7, NEW g, NEW h, Leads(s, g, h)
  PROVE  \E a, b, c, d, e, i, j :
           /\ Step(g, s[1], a) /\ Step(a, s[2], b) /\ Step(b, s[3], c) /\ Step(c, s[4], d)
           /\ Step(d, s[5], e) /\ Step(e, s[6], i) /\ Step(i, s[7], j) /\ Waits(j, h)
<1>1. PICK f : /\ f[0] = g /\ Waits(f[7], h)
               /\ \A i \in 1 .. 7 : Step(f[i - 1], s[i], f[i])
  BY DEF Leads
<1>2. /\ 1 - 1 = 0 /\ 2 - 1 = 1 /\ 3 - 1 = 2 /\ 4 - 1 = 3 /\ 5 - 1 = 4 /\ 6 - 1 = 5
      /\ 7 - 1 = 6
      /\ 1 \in 1 .. 7 /\ 2 \in 1 .. 7 /\ 3 \in 1 .. 7 /\ 4 \in 1 .. 7 /\ 5 \in 1 .. 7
      /\ 6 \in 1 .. 7 /\ 7 \in 1 .. 7
  OBVIOUS
<1>3. /\ Step(f[1 - 1], s[1], f[1]) /\ Step(f[2 - 1], s[2], f[2])
      /\ Step(f[3 - 1], s[3], f[3]) /\ Step(f[4 - 1], s[4], f[4])
      /\ Step(f[5 - 1], s[5], f[5]) /\ Step(f[6 - 1], s[6], f[6])
      /\ Step(f[7 - 1], s[7], f[7])
  BY <1>1, <1>2
<1> QED
  BY <1>1, <1>2, <1>3

MovesUp == <<TRUE, TRUE, TRUE, TRUE, TRUE, TRUE, FALSE>>
LEMMA MovesSeven ==
  LET s == move_tap(MovesUp)
  IN /\ IsSeq(s) /\ Len(s) = 7
     /\ \A i \in 1 .. 7 : Plain(s[i])
     /\ \A i \in 1 .. 6 : s[i].tms
     /\ ~s[7].tms
<1> DEFINE t == MovesUp
           s == move_tap(t)
<1>1. t \in Seq(BOOLEAN) /\ Len(t) = 7 /\ (\A i \in 1 .. 6 : t[i]) /\ ~t[7]
  BY DEF MovesUp
<1> HIDE DEF t
<1>2. IsSeq(s) /\ Len(s) = 7 /\ \A i \in 1 .. 7 : Plain(s[i]) /\ s[i].tms = t[i]
  BY <1>1, MoveIs
<1> HIDE DEF s
<1>3. \A i \in 1 .. 6 : s[i].tms
  BY <1>1, <1>2
<1>4. ~s[7].tms
  BY <1>1, <1>2
<1> QED
  BY <1>2, <1>3, <1>4 DEF s, t

LEMMA WalkUp ==
  ASSUME NEW g, Climbing(g), NEW h, Leads(move_tap(MovesUp), g, h)
  PROVE  /\ Ready(h) /\ h.tap.state = "idle" /\ h.tap.op = None /\ h.out = g.out
<1> DEFINE s == move_tap(MovesUp)
<1>1. Len(s) = 7 /\ \A i \in 1 .. 7 : Plain(s[i])
  BY MovesSeven
<1>2. \A i \in 1 .. 6 : s[i].tms
  BY MovesSeven
<1>3. ~s[7].tms
  BY MovesSeven
<1> HIDE DEF s
<1>4. PICK a, b, c, d, e, i, j :
        /\ Step(g, s[1], a) /\ Step(a, s[2], b) /\ Step(b, s[3], c) /\ Step(c, s[4], d)
        /\ Step(d, s[5], e) /\ Step(e, s[6], i) /\ Step(i, s[7], j) /\ Waits(j, h)
  BY <1>1, TakeSeven DEF s
<1>5. /\ Plain(s[1]) /\ Plain(s[2]) /\ Plain(s[3]) /\ Plain(s[4]) /\ Plain(s[5])
      /\ Plain(s[6]) /\ Plain(s[7])
  BY <1>1
<1>6. Climbing(a) /\ a.tap.state \in Within.five /\ a.out = g.out
  <2>1. Raises(s[1])
    BY <1>2, <1>5 DEF Raises
  <2>2. Climbing(a) /\ a.tap.state = Up(g.tap.state) /\ a.out = g.out
    BY <1>4, <2>1, StepClimbs
  <2>3. g.tap.state \in TapStates
    BY DEF Climbing, Ready, Clean, IsTap
  <2> QED
    BY <2>2, <2>3, FiveUp
<1>7. Climbing(b) /\ b.tap.state \in Within.four /\ b.out = g.out
  <2>1. Raises(s[2])
    BY <1>2, <1>5 DEF Raises
  <2>2. Climbing(b) /\ b.tap.state = Up(a.tap.state) /\ b.out = a.out
    BY <1>4, <1>6, <2>1, StepClimbs
  <2> QED
    BY <1>6, <2>2, FiveUp
<1>8. Climbing(c) /\ c.tap.state \in Within.three /\ c.out = g.out
  <2>1. Raises(s[3])
    BY <1>2, <1>5 DEF Raises
  <2>2. Climbing(c) /\ c.tap.state = Up(b.tap.state) /\ c.out = b.out
    BY <1>4, <1>7, <2>1, StepClimbs
  <2> QED
    BY <1>7, <2>2, FiveUp
<1>9. Climbing(d) /\ d.tap.state \in Within.two /\ d.out = g.out
  <2>1. Raises(s[4])
    BY <1>2, <1>5 DEF Raises
  <2>2. Climbing(d) /\ d.tap.state = Up(c.tap.state) /\ d.out = c.out
    BY <1>4, <1>8, <2>1, StepClimbs
  <2> QED
    BY <1>8, <2>2, FiveUp
<1>10. Climbing(e) /\ e.tap.state \in Within.one /\ e.out = g.out
  <2>1. Raises(s[5])
    BY <1>2, <1>5 DEF Raises
  <2>2. Climbing(e) /\ e.tap.state = Up(d.tap.state) /\ e.out = d.out
    BY <1>4, <1>9, <2>1, StepClimbs
  <2> QED
    BY <1>9, <2>2, FiveUp
<1>11. Climbing(i) /\ i.tap.state = "reset" /\ i.out = g.out
  <2>1. Raises(s[6])
    BY <1>2, <1>5 DEF Raises
  <2>2. Climbing(i) /\ i.tap.state = Up(e.tap.state) /\ i.out = e.out
    BY <1>4, <1>10, <2>1, StepClimbs
  <2> QED
    BY <1>10, <2>2 DEF Within, Up, TapNext
<1>12. Kept(i, j) /\ j.tap.state = "idle"
  <2>1. TapNext(i.tap.state, s[7].tms) = "idle"
    BY <1>3, <1>11 DEF TapNext
  <2> QED
    BY <1>4, <1>5, <1>11, <2>1, Moved DEF Climbing
<1>13. Kept(j, h) /\ h.tap.state = "idle"
  BY <1>4, <1>12, KeptWaits DEF Kept
<1>14. h.tap.op = None
  BY <1>11, <1>12, <1>13 DEF Climbing, Kept, Keeps, Goes
<1> QED
  BY <1>11, <1>12, <1>13, <1>14 DEF Kept

LEMMA WalkIdentify ==
  ASSUME NEW g, Climbing(g), g.out = <<>>, NEW h, Leads(Identify, g, h)
  PROVE  /\ Ready(h) /\ h.tap.state = "idle" /\ h.tap.ir = IR_DTMCS /\ h.tap.op = None
         /\ Len(h.out) = 4 /\ h.out[1] = IDCODE /\ h.out[3] = DTMCS
<1> DEFINE yes == TRUE
           p == move_tap(MovesUp)
           q == shift_ir(IR_IDCODE)
           r == shift_dr(<<0, 0>>, yes)
           s == shift_ir(IR_DTMCS)
<1>1. Identify = p \o q \o r \o s \o r
  BY DEF Identify, MovesUp
<1>2. \A o, f : Taken(o, yes, f) = o \o f
  BY DEF Taken
<1> HIDE DEF yes
<1>3. IsSeq(p) /\ IsSeq(q) /\ IsSeq(r) /\ IsSeq(s) /\ Clean(g)
  BY PathsAre, MovesSeven DEF Climbing, Ready
<1> HIDE DEF p, q, r, s
<1>4. IsSeq(p \o q \o r \o s)
  <2>1. IsSeq(p \o q)
    BY <1>3, ConcatIs
  <2>2. IsSeq(p \o q \o r)
    BY <1>3, <2>1, ConcatIs
  <2> QED
    BY <1>3, <2>2, ConcatIs
<1>5. PICK d : Leads(p \o q \o r \o s, g, d) /\ Leads(r, d, h)
  BY <1>1, <1>3, <1>4, LeadsSplit
<1>6. PICK a, b, c : Leads(p, g, a) /\ Leads(q, a, b) /\ Leads(r, b, c) /\ Leads(s, c, d)
  BY <1>3, <1>5, SplitFour
<1>7. Ready(a) /\ a.tap.state = "idle" /\ a.tap.op = None /\ a.out = <<>>
  BY <1>6, WalkUp DEF p
<1>8. IsSeq(<<>>)
  <2>1. <<>> \in Seq({})
    OBVIOUS
  <2> QED
    BY <2>1 DEF IsSeq
<1>9. /\ Ready(b) /\ b.tap.state = "idle" /\ b.tap.ir = IR_IDCODE /\ b.tap.op = None
      /\ b.out = <<>>
  <2>1. Kept(a, b) /\ b.tap.state = "idle" /\ b.tap.ir = IR_IDCODE
    BY <1>6, <1>7, <1>8, WalkIr DEF q
  <2> QED
    BY <1>7, <2>1 DEF Kept, Keeps, Goes
<1>10. /\ Ready(c) /\ c.tap.state = "idle" /\ c.tap.op = None
       /\ c.out = <<IDCODE, 0>> /\ IsSeq(c.out)
  <2>1. /\ Ready(c) /\ Goes(b, c) /\ c.tap.state = "idle"
        /\ c.out = Taken(<<>>, yes, <<Code(IR_IDCODE), 0>>)
    BY <1>6, <1>8, <1>9, WalkCode DEF r
  <2>2. <<IDCODE, 0>> \in Seq({IDCODE, 0})
    OBVIOUS
  <2>3. <<>> \o <<IDCODE, 0>> = <<IDCODE, 0>>
    BY <2>2, ConcatEmptySeq
  <2>4. c.out = <<IDCODE, 0>>
    BY <1>2, <2>1, <2>3 DEF Code
  <2> QED
    BY <1>9, <2>1, <2>2, <2>4 DEF Goes, IsSeq
<1>11. /\ Ready(d) /\ d.tap.state = "idle" /\ d.tap.ir = IR_DTMCS /\ d.tap.op = None
       /\ d.out = <<IDCODE, 0>>
  <2>1. Kept(c, d) /\ d.tap.state = "idle" /\ d.tap.ir = IR_DTMCS
    BY <1>6, <1>10, WalkIr DEF s
  <2> QED
    BY <1>10, <2>1 DEF Kept, Keeps, Goes
<1>12. /\ Ready(h) /\ Goes(d, h) /\ h.tap.state = "idle" /\ h.tap.ir = IR_DTMCS
       /\ h.out = Taken(<<IDCODE, 0>>, yes, <<Code(IR_DTMCS), 0>>)
  <2>1. IsSeq(d.out)
    BY <1>10, <1>11
  <2> QED
    BY <1>5, <1>11, <2>1, WalkCode DEF r
<1>13. h.out = <<IDCODE, 0>> \o <<DTMCS, 0>>
  <2>1. Code(IR_DTMCS) = DTMCS
    BY DEF Code, IR_IDCODE, IR_DTMCS
  <2> QED
    BY <1>2, <1>12, <2>1
<1>14. Len(h.out) = 4 /\ h.out[1] = IDCODE /\ h.out[3] = DTMCS
  BY <1>13
<1>15. h.tap.op = None
  BY <1>11, <1>12 DEF Goes
<1> QED
  BY <1>12, <1>14, <1>15

-----------------------------------------------------------------------------
(* The socket: the TAP that its commands leave behind is seen as it will   *)
(* be once the clock is clear.                                             *)

View(b) == Point(IF b.tck = 1 THEN Fall(b.tap) ELSE b.tap, 0, FALSE, b.facts, b.out)

LEMMA PointIs ==
  ASSUME NEW t, NEW tck, NEW trst, NEW facts, NEW out
  PROVE  LET g == Point(t, tck, trst, facts, out)
         IN g.tap = t /\ g.tck = tck /\ g.trst = trst /\ g.facts = facts /\ g.out = out
BY DEF Point

\* The clock falls.
LEMMA FallenIs ==
  ASSUME NEW b, Clean(b), b.tck = 1
  PROVE  LET t == Fall(b.tap) IN IsTap(t) /\ t.state = b.tap.state /\ Calm(t, 0)
<1> DEFINE t == Fall(b.tap)
<1>1. IsTap(b.tap) /\ Calm(b.tap, 1)
  BY DEF Clean
<1>2. /\ IsTap(t) /\ t.state = b.tap.state
      /\ b.tap.state \notin {"updateIR", "updateDR"} => t = b.tap
  BY <1>1, FallIs
<1> HIDE DEF t
<1>3. Calm(t, 0)
  <2>1. ASSUME t.state \in InDr PROVE t = b.tap
    BY <1>2, <2>1 DEF InDr
  <2> QED
    BY <1>1, <1>2, <2>1 DEF Calm
<1> QED
  BY <1>2, <1>3 DEF t

LEMMA ViewReady ==
  ASSUME NEW b, Clean(b), b.trst = FALSE
  PROVE  Ready(View(b))
<1> DEFINE v == View(b)
           t == IF b.tck = 1 THEN Fall(b.tap) ELSE b.tap
<1>1. IsTap(t) /\ Calm(t, 0)
  <2>1. CASE b.tck = 1
    BY <2>1, FallenIs
  <2>2. CASE b.tck # 1
    BY <2>2 DEF Clean, Calm
  <2> QED
    BY <2>1, <2>2
<1>2. v.tap = t /\ v.tck = 0 /\ v.trst = FALSE /\ v = Point(v.tap, v.tck, v.trst, v.facts, v.out)
  BY DEF View, Point
<1> HIDE DEF t, v
<1>3. Ready(v)
  BY <1>1, <1>2 DEF Ready, Clean
<1> QED
  BY <1>3 DEF v

\* The falling edge does not race with the debug module.
LEMMA FallWaits ==
  ASSUME NEW g, NEW h, Clean(g), Waits(g, h), g.tck = 1
  PROVE  LET u == Fall(g.tap)
             v == Fall(h.tap)
         IN /\ v.state = u.state /\ v.ir = u.ir /\ v.shift = u.shift /\ v.sticky = u.sticky
            /\ \/ v.op = u.op /\ v.data = u.data /\ g.facts \subseteq h.facts
               \/ u.op # None /\ v.op = None /\ Served(u.op, g.facts, h.facts, v.data)
<1> DEFINE s == g.tap
           t == h.tap
           u == Fall(s)
           v == Fall(t)
<1>1. /\ IsTap(s) /\ IsTap(t) /\ t.state = s.state /\ t.ir = s.ir /\ t.shift = s.shift
      /\ t.sticky = s.sticky /\ Goes(g, h) /\ Calm(s, 1)
  BY DEF Waits, Keeps, Clean
<1>2. /\ u.state = s.state /\ u.shift = s.shift /\ u.data = s.data
      /\ u.ir = IF s.state = "updateIR" THEN s.shift[1] ELSE s.ir
      /\ u.op = IF Issues(s) THEN Issued(s) ELSE s.op
      /\ u.sticky = IF Resets(s) THEN FALSE ELSE s.sticky
  BY <1>1, FallIs
<1>3. /\ v.state = t.state /\ v.shift = t.shift /\ v.data = t.data
      /\ v.ir = IF t.state = "updateIR" THEN t.shift[1] ELSE t.ir
      /\ v.op = IF Issues(t) THEN Issued(t) ELSE t.op
      /\ v.sticky = IF Resets(t) THEN FALSE ELSE t.sticky
  BY <1>1, FallIs
<1> HIDE DEF u, v, s, t
<1>4. (Resets(t) <=> Resets(s)) /\ Issued(t) = Issued(s)
  BY <1>1 DEF Resets, Issued
<1>5. v.state = u.state /\ v.ir = u.ir /\ v.shift = u.shift /\ v.sticky = u.sticky
  BY <1>1, <1>2, <1>3, <1>4
<1>6. CASE t.op = s.op /\ t.data = s.data /\ g.facts \subseteq h.facts
  <2>1. Issues(t) <=> Issues(s)
    BY <1>1, <1>6 DEF Issues, Busy
  <2> QED
    BY <1>2, <1>3, <1>4, <1>5, <1>6, <2>1 DEF u, v, s, t
<1>7. CASE s.op # None /\ t.op = None /\ Served(s.op, g.facts, h.facts, t.data)
  <2>1. ~Issues(s)
    BY <1>7 DEF Issues, Busy
  <2>2. ~Issues(t)
    <3>1. s.state = "updateDR" /\ s.ir = IR_DMI => s.sticky = TRUE
      BY <1>1, <1>7 DEF Calm
    <3> QED
      BY <1>1, <3>1 DEF Issues, Busy
  <2> QED
    BY <1>2, <1>3, <1>5, <1>7, <2>1, <2>2 DEF u, v, s, t
<1> QED
  BY <1>1, <1>6, <1>7 DEF Goes, s, t

LEMMA ViewWaits ==
  ASSUME NEW g, NEW h, Clean(g), g.trst = FALSE, Waits(g, h)
  PROVE  Waits(View(g), View(h))
<1> DEFINE u == IF g.tck = 1 THEN Fall(g.tap) ELSE g.tap
           v == IF h.tck = 1 THEN Fall(h.tap) ELSE h.tap
           a == View(g)
           b == View(h)
<1>1. h.tck = g.tck /\ h.trst = FALSE /\ Clean(h) /\ h.out = g.out
  BY DEF Waits
<1>2. /\ v.state = u.state /\ v.ir = u.ir /\ v.shift = u.shift /\ v.sticky = u.sticky
      /\ \/ v.op = u.op /\ v.data = u.data /\ g.facts \subseteq h.facts
         \/ u.op # None /\ v.op = None /\ Served(u.op, g.facts, h.facts, v.data)
  <2>1. CASE g.tck = 1
    BY <1>1, <2>1, FallWaits
  <2>2. CASE g.tck # 1
    BY <1>1, <2>2 DEF Waits, Keeps, Goes
  <2> QED
    BY <2>1, <2>2
<1>3. /\ a.tap = u /\ a.tck = 0 /\ a.trst = FALSE /\ a.facts = g.facts /\ a.out = g.out
      /\ b.tap = v /\ b.tck = 0 /\ b.trst = FALSE /\ b.facts = h.facts /\ b.out = h.out
  <2> DEFINE no == FALSE
  <2>1. a = Point(u, 0, no, g.facts, g.out) /\ b = Point(v, 0, no, h.facts, h.out)
    BY DEF View
  <2>2. no = FALSE
    OBVIOUS
  <2> HIDE DEF u, v, a, b, no
  <2> QED
    BY <2>1, <2>2, PointIs
<1>4. Clean(b)
  BY <1>1, ViewReady DEF Ready
<1> HIDE DEF u, v, a, b
<1>5. Keeps(a, b)
  BY <1>2, <1>3 DEF Keeps, Goes
<1>6. Waits(a, b)
  BY <1>1, <1>2, <1>3, <1>4, <1>5 DEF Waits
<1> QED
  BY <1>6 DEF a, b

LEMMA LeadsThenWaits ==
  ASSUME NEW s, NEW g, NEW h, NEW k, Leads(s, g, h), Waits(h, k)
  PROVE  Leads(s, g, k)
BY WaitsTwice DEF Leads

\* The commands of a pulse, one by one.
LEMMA StepClears ==
  ASSUME NEW b, Clean(b), b.trst = FALSE, NEW x, NEW y, NEW h, Step(b, Pins(0, x, y), h)
  PROVE  Waits(View(b), h) /\ h.tck = 0 /\ h.trst = FALSE
<1> DEFINE c == Pins(0, x, y)
<1>1. ~IsPulse(c) /\ c.cmd = "pins" /\ c.tck = 0
  BY DEF Pins, IsPulse
<1> HIDE DEF c
<1>2. PICK k : Waits(b, k) /\ h = Done(k, c)
  BY <1>1 DEF Step, Move, c
<1>3. k.tck \in {0, 1} /\ k.trst = FALSE
  BY <1>2 DEF Waits, Clean
<1> DEFINE t == Pinned(k, c)
           no == k.trst
<1>4. h = Point(t, 0, no, k.facts, k.out)
  BY <1>1, <1>2 DEF Done
<1>5. t = IF k.tck = 1 THEN Fall(k.tap) ELSE k.tap
  BY <1>1, <1>3 DEF Pinned
<1> HIDE DEF t, no
<1>6. h = View(k)
  BY <1>3, <1>4, <1>5 DEF View, no
<1>7. Waits(View(b), View(k))
  BY <1>2, ViewWaits
<1>8. h.tck = 0 /\ h.trst = no
  BY <1>4, PointIs
<1> QED
  BY <1>3, <1>6, <1>7, <1>8 DEF no

LEMMA StepSamples ==
  ASSUME NEW b, NEW h, Step(b, Sample, h)
  PROVE  \E k : /\ Waits(b, k)
                /\ h = Point(k.tap, k.tck, k.trst, k.facts, Append(k.out, jtag_tdo(k.tap)))
<1>1. ~IsPulse(Sample) /\ Sample.cmd = "R"
  BY DEF Sample, IsPulse
<1> QED
  BY <1>1 DEF Step, Move, Done

SetBy(k, x, y, h) == h = Point(Rise(k.tap, x, y), 1, FALSE, k.facts, k.out)
LEMMA StepSets ==
  ASSUME NEW b, b.tck = 0, b.trst = FALSE, NEW x, NEW y, NEW h, Step(b, Pins(1, x, y), h)
  PROVE  \E k : SetBy(k, x, y, h) /\ Waits(b, k)
<1> DEFINE c == Pins(1, x, y)
<1>1. ~IsPulse(c) /\ c.cmd = "pins" /\ c.tck = 1 /\ c.tms = x /\ c.tdi = y
  BY DEF Pins, IsPulse
<1> HIDE DEF c
<1>2. PICK k : Waits(b, k) /\ h = Done(k, c)
  BY <1>1 DEF Step, Move, c
<1>3. k.tck = 0 /\ k.trst = FALSE
  BY <1>2 DEF Waits
<1>4. Pinned(k, c) = Rise(k.tap, x, y)
  BY <1>1, <1>3 DEF Pinned
<1> DEFINE no == k.trst
<1>5. h = Point(Rise(k.tap, x, y), 1, no, k.facts, k.out)
  BY <1>1, <1>2, <1>4 DEF Done
<1> HIDE DEF no
<1>6. no = FALSE
  BY <1>3 DEF no
<1> QED
  BY <1>2, <1>5, <1>6 DEF SetBy

\* The clock set at k, its answer what the TAP held before, is a pulse.
LEMMA SetIsClicked ==
  ASSUME NEW k, k.tck = 0, k.trst = FALSE, NEW p, NEW out,
         out = IF p.keep THEN Append(k.out, jtag_tdo(k.tap)) ELSE k.out
  PROVE  View(Point(Rise(k.tap, p.tms, p.tdi), 1, FALSE, k.facts, out)) = Clicked(k, p)
<1> DEFINE t == Rise(k.tap, p.tms, p.tdi)
           no == FALSE
           b == Point(t, 1, no, k.facts, out)
<1>1. k.trst = no
  OBVIOUS
<1> HIDE DEF t, no
<1>2. b.tap = t /\ b.tck = 1 /\ b.facts = k.facts /\ b.out = out
  BY PointIs
<1> HIDE DEF b
<1>3. View(b) = Point(Fall(t), 0, no, k.facts, out)
  BY <1>2 DEF View, no
<1>4. Clicked(k, p) = Point(Fall(t), 0, no, k.facts, out)
  BY <1>1 DEF Clicked, t
<1> QED
  BY <1>3, <1>4 DEF t, no, b

LEMMA ClickLeads ==
  ASSUME NEW b, Clean(b), b.trst = FALSE, NEW a, Waits(View(b), a), NEW k, Waits(a, k),
         NEW p, IsPulse(p), NEW c, Clean(c), c.trst = FALSE, View(c) = Clicked(k, p),
         NEW h, Waits(c, h)
  PROVE  h.trst = FALSE /\ Leads(<<p>>, View(b), View(h))
<1>1. Waits(View(b), k)
  BY WaitsTwice
<1>2. Clean(View(c)) /\ Waits(View(c), View(h))
  BY ViewReady, ViewWaits DEF Ready
<1>3. Step(View(b), p, View(c))
  BY <1>1, <1>2 DEF Step, Move
<1>4. Leads(<<p>>, View(b), View(h))
  BY <1>2, <1>3, LeadsOne, LeadsThenWaits
<1> QED
  BY <1>4 DEF Waits

LEMMA WaitsAre ==
  ASSUME NEW g, NEW h, Waits(g, h)
  PROVE  /\ h.tap.state = g.tap.state /\ h.tap.shift = g.tap.shift /\ h.tap.ir = g.tap.ir
         /\ h.out = g.out /\ h.tck = g.tck /\ h.trst = g.trst
BY DEF Waits

\* A sample between two waits brings what the TAP holds after them.
LEMMA SampledWaits ==
  ASSUME NEW a, NEW k, Waits(a, k), NEW m,
         m = Point(k.tap, k.tck, k.trst, k.facts, Append(k.out, jtag_tdo(k.tap))),
         NEW n, Waits(m, n)
  PROVE  /\ Waits(a, Point(n.tap, n.tck, n.trst, n.facts, a.out))
         /\ n.out = Append(a.out, jtag_tdo(n.tap))
<1> DEFINE e == Point(n.tap, n.tck, n.trst, n.facts, a.out)
           out == Append(k.out, jtag_tdo(k.tap))
<1> HIDE DEF out
<1>1. m.tap = k.tap /\ m.tck = k.tck /\ m.trst = k.trst /\ m.facts = k.facts /\ m.out = out
  <2> DEFINE z == k.trst
  <2>1. m = Point(k.tap, k.tck, z, k.facts, out)
    BY DEF out
  <2> HIDE DEF z
  <2>2. m.tap = k.tap /\ m.tck = k.tck /\ m.trst = z /\ m.facts = k.facts /\ m.out = out
    BY <2>1, PointIs
  <2> QED
    BY <2>2 DEF z
<1>2. /\ e.tap = n.tap /\ e.tck = n.tck /\ e.trst = n.trst /\ e.facts = n.facts
      /\ e.out = a.out /\ e = Point(e.tap, e.tck, e.trst, e.facts, e.out)
  <2> DEFINE z == n.trst
  <2>1. e = Point(n.tap, n.tck, z, n.facts, a.out)
    OBVIOUS
  <2> HIDE DEF z, e
  <2>2. e.tap = n.tap /\ e.tck = n.tck /\ e.trst = z /\ e.facts = n.facts /\ e.out = a.out
    BY <2>1, PointIs
  <2> QED
    BY <2>1, <2>2 DEF z
<1> HIDE DEF e
<1>3. Keeps(a, e)
  <2>1. Keeps(a, k) /\ Keeps(m, n)
    BY DEF Waits
  <2>2. Keeps(k, e)
    BY <1>1, <1>2, <2>1 DEF Keeps, Goes
  <2> QED
    BY <2>1, <2>2, KeepsTwice
<1>4. Clean(e)
  <2>1. Clean(n)
    BY DEF Waits
  <2> QED
    BY <1>2, <2>1 DEF Clean
<1>5. /\ n.tap.state = k.tap.state /\ n.tap.shift = k.tap.shift /\ n.tap.ir = k.tap.ir
      /\ n.out = out /\ k.out = a.out
  <2>1. /\ n.tap.state = m.tap.state /\ n.tap.shift = m.tap.shift
        /\ n.tap.ir = m.tap.ir /\ n.out = m.out /\ k.out = a.out
    BY WaitsAre
  <2>2. m.tap = k.tap /\ m.out = out
    BY <1>1
  <2> QED
    BY <2>1, <2>2
<1>6. Waits(a, e)
  BY <1>1, <1>2, <1>3, <1>4, <1>5 DEF Waits
<1>7. n.out = Append(a.out, jtag_tdo(n.tap))
  BY <1>5 DEF out, jtag_tdo
<1> QED
  BY <1>6, <1>7 DEF e

LEMMA PutEnds ==
  ASSUME NEW x, NEW y, NEW z
  PROVE  <<x>> \o <<>> \o <<z>> = <<x, z>> /\ <<x>> \o <<y>> \o <<z>> = <<x, y, z>>
<1> DEFINE S == {x, y, z}
           t == <<x>>
           u == <<x, y>>
<1>1. t \in Seq(S) /\ u \in Seq(S) /\ y \in S /\ z \in S
  OBVIOUS
<1>2. Append(t, y) = u /\ Append(t, z) = <<x, z>> /\ Append(u, z) = <<x, y, z>>
  BY PutTwo, PutThree
<1> HIDE DEF S, t, u
<1>3. t \o <<>> = t
  BY <1>1, ConcatEmptySeq
<1>4. t \o <<y>> = Append(t, y) /\ t \o <<z>> = Append(t, z)
  BY <1>1, AppendIsConcat
<1>5. u \o <<z>> = Append(u, z)
  BY <1>1, AppendIsConcat
<1> QED
  BY <1>2, <1>3, <1>4, <1>5 DEF t

LEMMA CommandsAre ==
  ASSUME NEW p
  PROVE  LET s == Commands(p)
         IN /\ IsSeq(s)
            /\ s[1] = Pins(0, p.tms, p.tdi)
            /\ p.keep => Len(s) = 3 /\ s[2] = Sample /\ s[3] = Pins(1, p.tms, p.tdi)
            /\ ~p.keep => Len(s) = 2 /\ s[2] = Pins(1, p.tms, p.tdi)
<1> DEFINE x == Pins(0, p.tms, p.tdi)
           y == Sample
           z == Pins(1, p.tms, p.tdi)
           S == {x, y, z}
           s == Commands(p)
<1>1. /\ p.keep => s = <<x>> \o <<y>> \o <<z>>
      /\ ~p.keep => s = <<x>> \o <<>> \o <<z>>
  BY DEF Commands
<1> HIDE DEF x, y, z, s
<1>2. /\ <<x>> \o <<y>> \o <<z>> = <<x, y, z>> /\ <<x, y, z>> \in Seq(S)
      /\ <<x>> \o <<>> \o <<z>> = <<x, z>> /\ <<x, z>> \in Seq(S)
  <2>1. <<x, y, z>> \in Seq(S) /\ <<x, z>> \in Seq(S)
    OBVIOUS
  <2> QED
    BY <2>1, PutEnds
<1>3. /\ <<x, y, z>>[1] = x /\ <<x, y, z>>[2] = y /\ <<x, y, z>>[3] = z
      /\ Len(<<x, y, z>>) = 3
      /\ <<x, z>>[1] = x /\ <<x, z>>[2] = z /\ Len(<<x, z>>) = 2
  OBVIOUS
<1> HIDE DEF S
<1>4. IsSeq(<<x, y, z>>) /\ IsSeq(<<x, z>>)
  BY <1>2 DEF IsSeq
<1>5. CASE p.keep
  <2>1. s = <<x, y, z>>
    BY <1>1, <1>2, <1>5
  <2> QED
    BY <1>3, <1>4, <1>5, <2>1 DEF x, y, z, s
<1>6. CASE ~p.keep
  <2>1. s = <<x, z>>
    BY <1>1, <1>2, <1>6
  <2> QED
    BY <1>3, <1>4, <1>6, <2>1 DEF x, y, z, s
<1> QED
  BY <1>5, <1>6

\* Done by the server, the commands of a pulse are the pulse.
LEMMA CommandsClick ==
  ASSUME NEW b, Clean(b), b.trst = FALSE, NEW p, IsPulse(p), NEW h, Leads(Commands(p), b, h)
  PROVE  h.trst = FALSE /\ Leads(<<p>>, View(b), View(h))
<1> DEFINE s == Commands(p)
           x == p.tms
           y == p.tdi
<1>1. s[1] = Pins(0, x, y)
  BY CommandsAre
<1>2. CASE ~p.keep
  <2>1. Len(s) = 2 /\ s[2] = Pins(1, x, y)
    BY <1>2, CommandsAre
  <2> HIDE DEF s
  <2>2. PICK a, c : Step(b, s[1], a) /\ Step(a, s[2], c) /\ Waits(c, h)
    BY <2>1, TakeTwo DEF s
  <2> HIDE DEF x, y
  <2>3. Waits(View(b), a) /\ a.tck = 0 /\ a.trst = FALSE
    BY <1>1, <2>2, StepClears
  <2>4. PICK k : Waits(a, k) /\ c = Point(Rise(k.tap, x, y), 1, FALSE, k.facts, k.out)
    <3>1. Step(a, Pins(1, x, y), c)
      BY <2>1, <2>2
    <3>2. \E k : SetBy(k, x, y, c) /\ Waits(a, k)
      BY <2>3, <3>1, StepSets
    <3> QED
      BY <3>2 DEF SetBy
  <2>5. k.tck = 0 /\ k.trst = FALSE
    BY <2>3, <2>4 DEF Waits
  <2>6. View(c) = Clicked(k, p)
    BY <1>2, <2>4, <2>5, SetIsClicked DEF x, y
  <2>7. Clean(c) /\ c.trst = FALSE
    BY <2>2, <2>4 DEF Step, Point
  <2> QED
    BY <2>2, <2>3, <2>4, <2>6, <2>7, ClickLeads
<1>3. CASE p.keep
  <2>1. Len(s) = 3 /\ s[2] = Sample /\ s[3] = Pins(1, x, y)
    BY <1>3, CommandsAre
  <2> HIDE DEF s
  <2>2. PICK a, m, c : /\ Step(b, s[1], a) /\ Step(a, s[2], m) /\ Step(m, s[3], c)
                       /\ Waits(c, h)
    BY <2>1, TakeThree DEF s
  <2> HIDE DEF x, y
  <2>3. Waits(View(b), a) /\ a.tck = 0 /\ a.trst = FALSE
    BY <1>1, <2>2, StepClears
  <2>4. PICK i : /\ Waits(a, i)
                 /\ m = Point(i.tap, i.tck, i.trst, i.facts, Append(i.out, jtag_tdo(i.tap)))
    BY <2>1, <2>2, StepSamples
  <2>5. m.tck = 0 /\ m.trst = FALSE
    <3>1. m.tck = i.tck /\ m.trst = i.trst
      BY <2>4 DEF Point
    <3> QED
      BY <2>3, <2>4, <3>1 DEF Waits
  <2>6. PICK n : Waits(m, n) /\ c = Point(Rise(n.tap, x, y), 1, FALSE, n.facts, n.out)
    <3>1. Step(m, Pins(1, x, y), c)
      BY <2>1, <2>2
    <3>2. \E n : SetBy(n, x, y, c) /\ Waits(m, n)
      BY <2>5, <3>1, StepSets
    <3> QED
      BY <3>2 DEF SetBy
  <2> DEFINE k == Point(n.tap, n.tck, n.trst, n.facts, a.out)
  <2>7. Waits(a, k) /\ n.out = Append(a.out, jtag_tdo(n.tap))
    BY <2>4, <2>6, SampledWaits
  <2>8. k.tap = n.tap /\ k.facts = n.facts /\ k.out = a.out
    BY DEF Point
  <2> HIDE DEF k
  <2>9. k.tck = 0 /\ k.trst = FALSE
    BY <2>3, <2>7 DEF Waits
  <2>10. View(c) = Clicked(k, p)
    <3>1. n.out = IF p.keep THEN Append(k.out, jtag_tdo(k.tap)) ELSE k.out
      BY <1>3, <2>7, <2>8
    <3>2. View(Point(Rise(k.tap, x, y), 1, FALSE, k.facts, n.out)) = Clicked(k, p)
      BY <2>9, <3>1, SetIsClicked DEF x, y
    <3> QED
      BY <2>6, <2>8, <3>2
  <2>11. Clean(c) /\ c.trst = FALSE
    BY <2>2, <2>6 DEF Step, Point
  <2> QED
    BY <2>2, <2>3, <2>7, <2>10, <2>11, ClickLeads
<1> QED
  BY <1>2, <1>3

-----------------------------------------------------------------------------
(* A stream of commands leads somewhere from wherever the server is, and   *)
(* what was answered before it began stays in front of what it answers.    *)

Word(c) ==
  /\ ~IsPulse(c) /\ c.cmd \in {"pins", "R", "reset", "B"}
  /\ c.cmd = "pins" => c.tck \in {0, 1}
  /\ c.cmd = "reset" => c.trst \in BOOLEAN
Words(s) == IsSeq(s) /\ \A i \in 1 .. Len(s) : Word(s[i])

LEMMA RiseCalm ==
  ASSUME NEW t, IsTap(t), Calm(t, 0), NEW tms, NEW tdi
  PROVE  IsTap(Rise(t, tms, tdi)) /\ Calm(Rise(t, tms, tdi), 1)
<1> DEFINE u == Rise(t, tms, tdi)
           next == TapNext(t.state, tms)
<1>1. /\ IsTap(u) /\ u.state = next /\ u.op = t.op
      /\ u.ir = IF next = "reset" THEN IR_IDCODE ELSE t.ir
      /\ t.state = "captureDR" => u.sticky = CaptureDR(t).sticky
      /\ t.state # "captureDR" => u.sticky = t.sticky
  BY RiseIs
<1>2. /\ next \in InDr => t.state \in InDr \cup {"captureDR"}
      /\ next = "updateDR" => t.state \in {"exit1DR", "exit2DR"}
  BY NextIsState DEF IsTap
<1>3. CaptureDR(t).sticky = IF t.ir = IR_DMI THEN Busy(t) ELSE t.sticky
  <2>1. Whole(t)
    BY DEF IsTap, Whole
  <2> QED
    BY <2>1, CaptureIs
<1> HIDE DEF u, next
<1>4. ASSUME next \in InDr \/ next = "updateDR", t.ir = IR_DMI, t.op # None
      PROVE  u.sticky = TRUE
  <2>1. CASE t.state = "captureDR"
    BY <1>1, <1>3, <1>4, <2>1 DEF Busy
  <2>2. CASE t.state # "captureDR"
    <3>1. t.state \in InDr
      BY <1>2, <1>4, <2>2 DEF InDr
    <3> QED
      BY <1>1, <1>4, <2>2, <3>1 DEF Calm
  <2> QED
    BY <2>1, <2>2
<1>5. next = "reset" => next \notin InDr /\ next # "updateDR"
  BY DEF InDr
<1>6. Calm(u, 1)
  BY <1>1, <1>4, <1>5 DEF Calm
<1> QED
  BY <1>1, <1>6 DEF u

LEMMA PointClean ==
  ASSUME NEW t, NEW tck \in {0, 1}, NEW trst \in BOOLEAN, NEW facts, NEW out,
         IsTap(t), Calm(t, tck), trst = TRUE => t.state = "reset"
  PROVE  Clean(Point(t, tck, trst, facts, out))
<1> DEFINE g == Point(t, tck, trst, facts, out)
<1>1. /\ g.tap = t /\ g.tck = tck /\ g.trst = trst
      /\ g = Point(g.tap, g.tck, g.trst, g.facts, g.out)
  BY DEF Point
<1> HIDE DEF g
<1>2. Clean(g)
  BY <1>1 DEF Clean
<1> QED
  BY <1>2 DEF g

Held(g, t) == g.trst = TRUE => t.state = "reset"
LEMMA PinnedClean ==
  ASSUME NEW g, Clean(g), NEW c, c.tck \in {0, 1}
  PROVE  /\ IsTap(Pinned(g, c)) /\ Calm(Pinned(g, c), c.tck)
         /\ Held(g, Pinned(g, c))
<1> DEFINE t == Pinned(g, c)
<1>1. IsTap(g.tap) /\ Calm(g.tap, g.tck) /\ g.tck \in {0, 1} /\ g.trst \in BOOLEAN
  BY DEF Clean
<1>2. CASE g.trst = TRUE
  <2>1. t = g.tap /\ g.tap.state = "reset"
    BY <1>2 DEF Pinned, Clean
  <2> HIDE DEF t
  <2>2. Calm(t, c.tck)
    BY <2>1 DEF Calm, InDr
  <2> QED
    BY <1>1, <2>1, <2>2 DEF t, Held
<1>3. CASE g.trst = FALSE
  <2>1. CASE g.tck = 0 /\ c.tck = 1
    <3>1. t = Rise(g.tap, c.tms, c.tdi)
      BY <1>3, <2>1 DEF Pinned
    <3>2. IsTap(t) /\ Calm(t, 1)
      BY <1>1, <2>1, <3>1, RiseCalm
    <3> QED
      BY <1>3, <2>1, <3>2 DEF Held
  <2>2. CASE g.tck = 1 /\ c.tck = 0
    <3>1. t = Fall(g.tap)
      BY <1>3, <2>2 DEF Pinned
    <3>2. IsTap(t) /\ Calm(t, 0)
      BY <2>2, <3>1, FallenIs
    <3> QED
      BY <1>3, <2>2, <3>2 DEF Held
  <2>3. CASE g.tck = c.tck
    <3>1. t = g.tap
      BY <1>1, <1>3, <2>3 DEF Pinned
    <3> HIDE DEF t
    <3> QED
      BY <1>1, <1>3, <2>3, <3>1 DEF t, Held
  <2> QED
    BY <1>1, <2>1, <2>2, <2>3
<1> QED
  BY <1>1, <1>2, <1>3

LEMMA ResetTapIs ==
  ASSUME NEW t, IsTap(t), NEW tck
  PROVE  /\ IsTap(InReset(t)) /\ InReset(t).state = "reset" /\ InReset(t).ir = IR_IDCODE
         /\ InReset(t).op = t.op /\ Calm(InReset(t), tck)
<1> DEFINE u == InReset(t)
<1>1. Whole(t) /\ u = [t EXCEPT !.state = "reset", !.ir = IR_IDCODE]
  BY DEF IsTap, InReset, Whole
<1> HIDE DEF u
<1>2. Whole(u) /\ u.state = "reset" /\ u.ir = IR_IDCODE /\ u.op = t.op
  BY <1>1 DEF Whole
<1>3. IsTap(u)
  BY <1>2 DEF IsTap, Whole, TapStates
<1>4. Calm(u, tck)
  BY <1>2 DEF Calm, InDr
<1> QED
  BY <1>2, <1>3, <1>4 DEF u

LEMMA AppendIs ==
  ASSUME NEW s, IsSeq(s), NEW x
  PROVE  IsSeq(Append(s, x)) /\ \A o : IsSeq(o) => o \o Append(s, x) = Append(o \o s, x)
<1>1. PICK S : s \in Seq(S)
  BY DEF IsSeq
<1>2. IsSeq(Append(s, x))
  <2> DEFINE T == S \cup {x}
  <2>1. s \in Seq(T) /\ x \in T
    BY <1>1
  <2> HIDE DEF T
  <2>2. Append(s, x) \in Seq(T)
    BY <2>1
  <2> QED
    BY <2>2 DEF IsSeq
<1>3. ASSUME NEW o, IsSeq(o) PROVE o \o Append(s, x) = Append(o \o s, x)
  <2>1. PICK O : o \in Seq(O)
    BY <1>3 DEF IsSeq
  <2> DEFINE T == S \cup O \cup {x}
             z == <<x>>
  <2>2. s \in Seq(T) /\ o \in Seq(T) /\ x \in T /\ z \in Seq(T)
    BY <1>1, <2>1
  <2>3. Append(s, x) = s \o z
    BY <2>2, AppendIsConcat
  <2> HIDE DEF T, z
  <2>4. o \o s \in Seq(T)
    BY <2>2
  <2>5. Append(o \o s, x) = (o \o s) \o z
    BY <2>2, <2>4, AppendIsConcat DEF z
  <2>6. o \o (s \o z) = (o \o s) \o z
    BY <2>2
  <2> QED
    BY <2>3, <2>5, <2>6
<1> QED
  BY <1>2, <1>3

\* g with o in front of its answers.
Pre(o, g) == Point(g.tap, g.tck, g.trst, g.facts, o \o g.out)

LEMMA PreIs ==
  ASSUME NEW o, NEW g
  PROVE  LET h == Pre(o, g)
         IN /\ h.tap = g.tap /\ h.tck = g.tck /\ h.trst = g.trst /\ h.facts = g.facts
            /\ h.out = o \o g.out /\ h = Point(h.tap, h.tck, h.trst, h.facts, h.out)
BY DEF Pre, Point

LEMMA PreClean ==
  ASSUME NEW o, NEW g, Clean(g)
  PROVE  Clean(Pre(o, g))
<1> DEFINE h == Pre(o, g)
<1>1. /\ h.tap = g.tap /\ h.tck = g.tck /\ h.trst = g.trst
      /\ h = Point(h.tap, h.tck, h.trst, h.facts, h.out)
  BY PreIs
<1> HIDE DEF h
<1> QED
  BY <1>1 DEF Clean, h

LEMMA PreWaits ==
  ASSUME NEW o, NEW g, NEW h, Waits(g, h)
  PROVE  Waits(Pre(o, g), Pre(o, h))
<1> DEFINE a == Pre(o, g)
           b == Pre(o, h)
<1>1. /\ a.tap = g.tap /\ a.tck = g.tck /\ a.trst = g.trst /\ a.facts = g.facts
      /\ a.out = o \o g.out
  BY PreIs
<1>2. /\ b.tap = h.tap /\ b.tck = h.tck /\ b.trst = h.trst /\ b.facts = h.facts
      /\ b.out = o \o h.out
  BY PreIs
<1>3. Clean(b)
  BY PreClean DEF Waits
<1> HIDE DEF a, b
<1>4. Keeps(a, b)
  <2>1. Keeps(g, h)
    BY DEF Waits
  <2> QED
    BY <1>1, <1>2, <2>1 DEF Keeps, Goes
<1>5. /\ h.tap.state = g.tap.state /\ h.tap.shift = g.tap.shift /\ h.tap.ir = g.tap.ir
      /\ h.out = g.out /\ h.tck = g.tck /\ h.trst = g.trst
  BY WaitsAre
<1>6. Waits(a, b)
  BY <1>1, <1>2, <1>3, <1>4, <1>5 DEF Waits
<1> QED
  BY <1>6 DEF a, b

\* What one command does, whatever was answered before.
LEMMA WordIs ==
  ASSUME NEW g, Clean(g), IsSeq(g.out), NEW c, Word(c)
  PROVE  /\ Clean(Done(g, c)) /\ IsSeq(Done(g, c).out) /\ Done(g, c).facts = g.facts
         /\ \A o : IsSeq(o) => Pre(o, Done(g, c)) = Done(Pre(o, g), c)
<1> DEFINE h == Done(g, c)
<1>1. /\ IsTap(g.tap) /\ g.tck \in {0, 1} /\ g.trst \in BOOLEAN /\ Calm(g.tap, g.tck)
      /\ g.trst = TRUE => g.tap.state = "reset"
      /\ g = Point(g.tap, g.tck, g.trst, g.facts, g.out)
  BY DEF Clean
<1>2. CASE c.cmd = "pins"
  <2> DEFINE t == Pinned(g, c)
             z == g.trst
  <2>1. h = Point(t, c.tck, z, g.facts, g.out)
    BY <1>2 DEF Done
  <2>2. c.tck \in {0, 1}
    BY <1>2 DEF Word
  <2>3. /\ IsTap(t) /\ Calm(t, c.tck) /\ (z = TRUE => t.state = "reset") /\ z \in BOOLEAN
    <3>1. IsTap(t) /\ Calm(t, c.tck) /\ Held(g, t)
      BY <2>2, PinnedClean
    <3>2. z \in BOOLEAN
      BY <1>1
    <3> HIDE DEF t
    <3> QED
      BY <3>1, <3>2 DEF Held
  <2>4. ASSUME NEW o PROVE Pre(o, h) = Done(Pre(o, g), c)
    <3> DEFINE e == Pre(o, g)
    <3>1. e.tap = g.tap /\ e.tck = g.tck /\ e.trst = z /\ e.facts = g.facts
          /\ e.out = o \o g.out
      BY PreIs
    <3>2. Pinned(e, c) = t
      BY <3>1 DEF Pinned
    <3> HIDE DEF e, t, z
    <3>3. Done(e, c) = Point(t, c.tck, z, g.facts, o \o g.out)
      BY <1>2, <3>1, <3>2 DEF Done
    <3>4. /\ h.tap = t /\ h.tck = c.tck /\ h.trst = z /\ h.facts = g.facts /\ h.out = g.out
      <4> HIDE DEF h
      <4> QED
        BY <2>1, PointIs
    <3> HIDE DEF h
    <3> QED
      BY <3>3, <3>4 DEF Pre, e
  <2> HIDE DEF t, z, h
  <2>5. Clean(h)
    BY <2>1, <2>2, <2>3, PointClean
  <2>6. h.facts = g.facts /\ h.out = g.out
    BY <2>1, PointIs
  <2> QED
    BY <2>4, <2>5, <2>6 DEF h
<1>3. CASE c.cmd = "R"
  <2> DEFINE x == jtag_tdo(g.tap)
             q == Append(g.out, x)
             z == g.trst
  <2>1. h = Point(g.tap, g.tck, z, g.facts, q)
    BY <1>3 DEF Done
  <2> HIDE DEF x, z, h
  <2>2. IsSeq(q) /\ \A o : IsSeq(o) => o \o q = Append(o \o g.out, x)
    BY AppendIs
  <2> HIDE DEF q
  <2>3. Clean(h)
    BY <1>1, <2>1, PointClean DEF z
  <2>4. /\ h.tap = g.tap /\ h.tck = g.tck /\ h.trst = z /\ h.facts = g.facts /\ h.out = q
    BY <2>1, PointIs
  <2>5. ASSUME NEW o, IsSeq(o) PROVE Pre(o, h) = Done(Pre(o, g), c)
    <3> DEFINE e == Pre(o, g)
    <3>1. e.tap = g.tap /\ e.tck = g.tck /\ e.trst = z /\ e.facts = g.facts
          /\ e.out = o \o g.out
      BY PreIs DEF z
    <3> HIDE DEF e
    <3>2. Done(e, c) = Point(g.tap, g.tck, z, g.facts, Append(o \o g.out, x))
      BY <1>3, <3>1 DEF Done, x
    <3>3. o \o q = Append(o \o g.out, x)
      BY <2>2, <2>5
    <3> QED
      BY <2>4, <3>2, <3>3 DEF Pre, e
  <2> QED
    BY <2>2, <2>3, <2>4, <2>5 DEF h
<1>4. CASE c.cmd = "reset"
  <2> DEFINE t == IF c.trst = TRUE THEN InReset(g.tap) ELSE g.tap
             z == c.trst
  <2>1. h = Point(t, g.tck, z, g.facts, g.out)
    BY <1>4 DEF Done
  <2>2. z \in BOOLEAN
    BY <1>4 DEF Word
  <2>3. IsTap(t) /\ Calm(t, g.tck) /\ (z = TRUE => t.state = "reset")
    BY <1>1, <2>2, ResetTapIs
  <2>4. ASSUME NEW o PROVE Pre(o, h) = Done(Pre(o, g), c)
    <3> DEFINE e == Pre(o, g)
    <3>1. e.tap = g.tap /\ e.tck = g.tck /\ e.facts = g.facts /\ e.out = o \o g.out
      BY PreIs
    <3> HIDE DEF e
    <3>2. Done(e, c) = Point(t, g.tck, z, g.facts, o \o g.out)
      BY <1>4, <3>1 DEF Done
    <3> HIDE DEF t, z
    <3>3. /\ h.tap = t /\ h.tck = g.tck /\ h.trst = z /\ h.facts = g.facts /\ h.out = g.out
      <4> HIDE DEF h
      <4> QED
        BY <2>1, PointIs
    <3> HIDE DEF h
    <3> QED
      BY <3>2, <3>3 DEF Pre, e
  <2> HIDE DEF t, z, h
  <2>5. Clean(h)
    BY <1>1, <2>1, <2>2, <2>3, PointClean
  <2>6. h.facts = g.facts /\ h.out = g.out
    BY <2>1, PointIs
  <2> QED
    BY <2>4, <2>5, <2>6 DEF h
<1>5. CASE c.cmd = "B"
  <2>1. \A e : Done(e, c) = e
    BY <1>5 DEF Done
  <2> QED
    BY <2>1
<1> QED
  BY <1>2, <1>3, <1>4, <1>5 DEF Word

LEMMA WordsTail ==
  ASSUME NEW s, Words(s), s # <<>>
  PROVE  Word(Head(s)) /\ Words(Tail(s)) /\ Len(s) \in Nat \ {0} /\ Len(Tail(s)) = Len(s) - 1
<1>1. PICK S : s \in Seq(S)
  BY DEF Words, IsSeq
<1> DEFINE t == Tail(s)
           n == Len(s)
<1>2. n \in Nat \ {0} /\ Head(s) = s[1]
  BY <1>1
<1>3. t \in Seq(S) /\ Len(t) = n - 1 /\ \A i \in 1 .. n - 1 : t[i] = s[i + 1]
  BY <1>1, <1>2
<1>4. \A i \in 1 .. n : Word(s[i])
  BY DEF Words
<1> HIDE DEF t, n
<1>5. Word(Head(s))
  <2>1. 1 \in 1 .. n
    BY <1>2
  <2> QED
    BY <1>2, <1>4, <2>1
<1>6. Words(t)
  <2>1. ASSUME NEW i \in 1 .. Len(t) PROVE Word(t[i])
    <3>1. i \in 1 .. n - 1 /\ i + 1 \in 1 .. n
      BY <1>2, <1>3
    <3> QED
      BY <1>3, <1>4, <3>1
  <2> QED
    BY <1>3, <2>1 DEF Words, IsSeq
<1> QED
  BY <1>2, <1>3, <1>5, <1>6 DEF t, n

LEMMA Runs ==
  ASSUME NEW s, Words(s), NEW g, Clean(g), IsSeq(g.out)
  PROVE  \E h : Leads(s, g, h) /\ h.facts = g.facts
<1> DEFINE Goals(t, a, h) == Leads(t, a, h) /\ h.facts = a.facts
           Stuck(t, a) == Words(t) /\ Clean(a) /\ IsSeq(a.out) /\ ~\E h : Goals(t, a, h)
           T == {n \in Nat : \E t, a : Len(t) = n /\ Stuck(t, a)}
<1>1. T = {}
  <2> SUFFICES ASSUME T # {} PROVE FALSE
    OBVIOUS
  <2>1. T \in SUBSET Nat
    OBVIOUS
  <2>2. PICK n \in T : \A m \in T : n <= m
    BY <2>1, LeastNat
  <2>3. PICK t, a : Len(t) = n /\ Stuck(t, a)
    BY <2>2
  <2>4. ~\E h : Goals(t, a, h)
    BY <2>3
  <2>5. CASE t = <<>>
    <3>1. Leads(t, a, a)
      BY <2>3, <2>5, LeadsNone, WaitsNot
    <3> QED
      BY <2>4, <3>1
  <2>6. CASE t # <<>>
    <3> DEFINE c == Head(t)
               u == Tail(t)
               b == Done(a, c)
    <3>1. Word(c) /\ Words(u) /\ n \in Nat \ {0} /\ Len(u) = n - 1 /\ IsSeq(t)
      BY <2>3, <2>6, WordsTail DEF Words
    <3>2. Clean(b) /\ IsSeq(b.out) /\ b.facts = a.facts
      BY <2>3, <3>1, WordIs
    <3>3. Step(a, c, b)
      <4>1. Move(a, c) = b /\ Waits(a, a)
        BY <2>3, <3>1, WaitsNot DEF Word, Move
      <4> QED
        BY <3>2, <4>1 DEF Step
    <3> HIDE DEF b, c, u, Goals
    <3>4. \E h : Goals(u, b, h)
      <4>1. n - 1 \in Nat /\ ~(n <= n - 1)
        BY <3>1
      <4>2. ~\E v, d : Len(v) = n - 1 /\ Stuck(v, d)
        BY <2>2, <4>1
      <4>3. ~Stuck(u, b)
        BY <3>1, <4>2
      <4> QED
        BY <3>1, <3>2, <4>3
    <3>5. PICK h : Leads(u, b, h) /\ h.facts = b.facts
      BY <3>4 DEF Goals
    <3>6. Leads(t, a, h)
      BY <2>6, <3>1, <3>3, <3>5, LeadsFrom DEF c, u
    <3> QED
      BY <2>4, <3>2, <3>5, <3>6 DEF Goals
  <2> QED
    BY <2>5, <2>6
<1>2. ~Stuck(s, g)
  <2>1. Len(s) \in Nat
    BY DEF Words, IsSeq
  <2> HIDE DEF Stuck
  <2> QED
    BY <1>1, <2>1
<1> QED
  BY <1>2

LEMMA StepPre ==
  ASSUME NEW o, IsSeq(o), NEW g, IsSeq(g.out), NEW c, Word(c), NEW h, Step(g, c, h)
  PROVE  IsSeq(h.out) /\ Step(Pre(o, g), c, Pre(o, h))
<1>1. PICK k : Waits(g, k) /\ h = Move(k, c)
  BY DEF Step
<1>2. h = Done(k, c)
  BY <1>1 DEF Word, Move
<1>3. Clean(k) /\ IsSeq(k.out)
  BY <1>1 DEF Waits
<1>4. Clean(h) /\ IsSeq(h.out) /\ Pre(o, h) = Done(Pre(o, k), c)
  BY <1>2, <1>3, WordIs
<1>5. Waits(Pre(o, g), Pre(o, k)) /\ Clean(Pre(o, h))
  BY <1>1, <1>4, PreWaits, PreClean
<1>6. Pre(o, h) = Move(Pre(o, k), c)
  BY <1>4 DEF Word, Move
<1> QED
  BY <1>4, <1>5, <1>6 DEF Step

LEMMA Prefixed ==
  ASSUME NEW o, IsSeq(o), NEW s, Words(s), NEW g, IsSeq(g.out), NEW h, Leads(s, g, h)
  PROVE  IsSeq(h.out) /\ Leads(s, Pre(o, g), Pre(o, h))
<1> DEFINE n == Len(s)
<1>1. PICK f : /\ f[0] = g /\ Waits(f[n], h)
               /\ \A i \in 1 .. n : Step(f[i - 1], s[i], f[i])
  BY DEF Leads
<1>2. n \in Nat /\ \A i \in 1 .. n : Word(s[i])
  BY DEF Words, IsSeq
<1> HIDE DEF n
<1>3. \A i \in 0 .. n : IsSeq(f[i].out)
  <2> DEFINE T == {i \in 0 .. n : ~IsSeq(f[i].out)}
  <2> SUFFICES ASSUME T # {} PROVE FALSE
    OBVIOUS
  <2>1. T \in SUBSET Nat
    OBVIOUS
  <2>2. PICK i \in T : \A j \in T : i <= j
    BY <2>1, LeastNat
  <2>3. i # 0
    BY <1>1, <2>2
  <2>4. i \in 1 .. n /\ i - 1 \in 0 .. n /\ ~(i <= i - 1)
    BY <1>2, <2>2, <2>3
  <2>5. IsSeq(f[i - 1].out)
    BY <2>2, <2>4
  <2>6. Word(s[i]) /\ Step(f[i - 1], s[i], f[i])
    BY <1>1, <1>2, <2>4
  <2>7. IsSeq(f[i].out)
    BY <2>5, <2>6, StepPre
  <2> QED
    BY <2>2, <2>7
<1> DEFINE e == [i \in 0 .. n |-> Pre(o, f[i])]
<1>4. e[0] = Pre(o, g) /\ e[n] = Pre(o, f[n])
  BY <1>1, <1>2
<1>5. ASSUME NEW i \in 1 .. n PROVE Step(e[i - 1], s[i], e[i])
  <2>1. i - 1 \in 0 .. n /\ i \in 0 .. n
    BY <1>2
  <2>2. e[i - 1] = Pre(o, f[i - 1]) /\ e[i] = Pre(o, f[i])
    BY <2>1
  <2> HIDE DEF e
  <2>3. IsSeq(f[i - 1].out) /\ Word(s[i]) /\ Step(f[i - 1], s[i], f[i])
    BY <1>1, <1>2, <1>3, <2>1
  <2>4. Step(Pre(o, f[i - 1]), s[i], Pre(o, f[i]))
    BY <2>3, StepPre
  <2> QED
    BY <2>2, <2>4
<1> HIDE DEF e
<1>6. Waits(e[n], Pre(o, h))
  BY <1>1, <1>4, PreWaits
<1>7. IsSeq(h.out)
  <2>1. IsSeq(f[n].out)
    BY <1>2, <1>3
  <2> QED
    BY <1>1, <2>1 DEF Waits
<1> QED
  BY <1>4, <1>5, <1>6, <1>7 DEF Leads, n

-----------------------------------------------------------------------------
(* The calls as sequences of accesses.                                     *)

LEMMA FlattenIs ==
  ASSUME NEW S, NEW q \in Seq(Seq(S)), q # <<>>, \A i \in 1 .. Len(q) : q[i] # <<>>
  PROVE  FlattenSeq(q) \in Seq(S) /\ FlattenSeq(q) # <<>>
<1> DEFINE n == Len(q)
           F(f) == [i \in 1 .. n |-> IF i = 1 THEN q[i] ELSE f[i - 1] \o q[i]]
           h == CHOOSE f : f = F(f)
           To(k, g) == \A i \in 1 .. k : g[i] = IF i = 1 THEN q[i] ELSE g[i - 1] \o q[i]
<1>1. n \in Nat \ {0} /\ \A i \in 1 .. n : q[i] \in Seq(S)
  OBVIOUS
<1>2. FlattenSeq(q) = h[n]
  BY <1>1 DEF FlattenSeq
<1> HIDE DEF n
<1>3. \A k \in 0 .. n : \E g : To(k, g)
  <2> DEFINE T == {k \in 0 .. n : ~\E g : To(k, g)}
  <2> SUFFICES ASSUME T # {} PROVE FALSE
    OBVIOUS
  <2>1. T \in SUBSET Nat
    OBVIOUS
  <2>2. PICK k \in T : \A j \in T : k <= j
    BY <2>1, LeastNat
  <2>3. k # 0
    BY <2>2
  <2>4. k \in 1 .. n /\ k - 1 \in 0 .. n /\ ~(k <= k - 1)
    BY <1>1, <2>2, <2>3
  <2>5. PICK g : To(k - 1, g)
    <3> HIDE DEF To
    <3> QED
      BY <2>2, <2>4
  <2> DEFINE x == IF k = 1 THEN q[k] ELSE g[k - 1] \o q[k]
             e == [i \in 1 .. k |-> IF i = k THEN x ELSE g[i]]
  <2>6. e[k] = x
    BY <2>4
  <2>7. \A i \in 1 .. k - 1 : e[i] = g[i]
    BY <2>4
  <2> HIDE DEF e
  <2>8. ASSUME NEW i \in 1 .. k PROVE e[i] = IF i = 1 THEN q[i] ELSE e[i - 1] \o q[i]
    <3>1. CASE i = k
      <4>1. k # 1 => k - 1 \in 1 .. k - 1
        BY <2>4
      <4> QED
        BY <2>6, <2>7, <3>1, <4>1
    <3>2. CASE i # k
      <4>1. i \in 1 .. k - 1 /\ (i # 1 => i - 1 \in 1 .. k - 1)
        BY <2>4, <3>2
      <4>2. g[i] = IF i = 1 THEN q[i] ELSE g[i - 1] \o q[i]
        BY <2>5, <4>1
      <4> QED
        BY <2>7, <4>1, <4>2
    <3> QED
      BY <3>1, <3>2
  <2>9. To(k, e)
    BY <2>8
  <2> QED
    BY <2>2, <2>9
<1>4. h = F(h)
  <2>1. PICK g : To(n, g)
    <3>1. n \in 0 .. n
      BY <1>1
    <3> HIDE DEF To
    <3> QED
      BY <1>3, <3>1
  <2> DEFINE f == [i \in 1 .. n |-> g[i]]
  <2>2. ASSUME NEW i \in 1 .. n PROVE f[i] = IF i = 1 THEN q[i] ELSE f[i - 1] \o q[i]
    <3>1. i # 1 => i - 1 \in 1 .. n
      BY <1>1
    <3> QED
      BY <2>1, <3>1
  <2>3. f = F(f)
    BY <2>2
  <2> HIDE DEF F, f
  <2> QED
    BY <2>3
<1> HIDE DEF h
<1>5. \A i \in 1 .. n : h[i] \in Seq(S) /\ h[i] # <<>>
  <2> DEFINE Good(i) == h[i] \in Seq(S) /\ h[i] # <<>>
             T == {i \in 1 .. n : ~Good(i)}
  <2> SUFFICES ASSUME T # {} PROVE FALSE
    OBVIOUS
  <2>1. T \in SUBSET Nat
    OBVIOUS
  <2>2. PICK i \in T : \A j \in T : i <= j
    BY <2>1, LeastNat
  <2>3. h[i] = IF i = 1 THEN q[i] ELSE h[i - 1] \o q[i]
    BY <1>4, <2>2
  <2>4. q[i] \in Seq(S) /\ q[i] # <<>>
    BY <1>1, <2>2 DEF n
  <2>5. CASE i = 1
    BY <2>2, <2>3, <2>4, <2>5
  <2>6. CASE i # 1
    <3>1. i - 1 \in 1 .. n /\ ~(i <= i - 1)
      BY <1>1, <2>2, <2>6
    <3>2. Good(i - 1)
      BY <2>2, <3>1
    <3> DEFINE a == h[i - 1]
               b == q[i]
    <3>3. a \in Seq(S) /\ b \in Seq(S) /\ b # <<>> /\ h[i] = a \o b
      BY <2>3, <2>4, <2>6, <3>2
    <3> HIDE DEF a, b
    <3>4. a \o b \in Seq(S) /\ a \o b # <<>>
      BY <3>3
    <3> QED
      BY <2>2, <3>3, <3>4
  <2> QED
    BY <2>5, <2>6
<1> QED
  BY <1>1, <1>2, <1>5

LEMMA StartsAre ==
  ASSUME NEW call, call.address \in Nat, call.size \in Nat \ {0}
  PROVE  /\ Starts(call) \in Seq(call.address .. call.address + call.size - 1)
         /\ Starts(call) # <<>>
<1> DEFINE G(f) == [a \in call.address .. call.address + call.size |->
                      IF a = call.address + call.size THEN <<>>
                      ELSE <<a>> \o f[a + (IF IsWord(a, call.address + call.size - a)
                                          THEN WordBytes ELSE 1)]]
           h == CHOOSE f : f = G(f)
           lo == call.address
           n == call.size
           hi == lo + n
           Next_(a) == a + (IF IsWord(a, hi - a) THEN WordBytes ELSE 1)
           F(f) == [a \in lo .. hi |-> IF a = hi THEN <<>> ELSE <<a>> \o f[Next_(a)]]
           To(k, g) == \A a \in hi - k .. hi : g[a] = IF a = hi THEN <<>> ELSE <<a>> \o g[Next_(a)]
<1>1. Starts(call) = h[lo]
  BY DEF Starts
<1> HIDE DEF G
<1>2. lo \in Nat /\ n \in Nat \ {0} /\ hi \in Nat /\ hi - n = lo /\ WordBytes \in Nat \ {0}
  <2>1. WordBytes \in Nat /\ WordBytes >= 2
    BY DebuggerAssumption
  <2> HIDE DEF h
  <2> QED
    BY <2>1
<1>3. ASSUME NEW a \in lo .. hi, a # hi PROVE Next_(a) \in a + 1 .. hi
  <2>1. IsWord(a, hi - a) => hi - a >= WordBytes
    BY DEF IsWord
  <2> QED
    BY <1>2, <1>3, <2>1
<1> HIDE DEF Next_, hi, lo, n, h
<1>4. \A k \in 0 .. n : \E g : To(k, g)
  <2> DEFINE T == {k \in 0 .. n : ~\E g : To(k, g)}
  <2> SUFFICES ASSUME T # {} PROVE FALSE
    OBVIOUS
  <2>1. T \in SUBSET Nat
    OBVIOUS
  <2>2. PICK k \in T : \A j \in T : k <= j
    BY <2>1, LeastNat
  <2>3. k # 0
    <3> DEFINE g == [a \in {hi} |-> <<>>]
    <3>1. \A a \in hi - 0 .. hi : a = hi
      BY <1>2
    <3>2. To(0, g)
      BY <3>1
    <3> HIDE DEF To
    <3> QED
      BY <2>2, <3>2
  <2>4. k \in 1 .. n /\ k - 1 \in 0 .. n /\ ~(k <= k - 1) /\ hi - k \in lo .. hi /\ hi - k # hi
    BY <1>2, <2>2, <2>3
  <2>5. PICK g : To(k - 1, g)
    <3> HIDE DEF To
    <3> QED
      BY <2>2, <2>4
  <2> DEFINE b == hi - k
             x == <<b>> \o g[Next_(b)]
             e == [a \in b .. hi |-> IF a = b THEN x ELSE g[a]]
  <2>6. b \in lo .. hi /\ b # hi /\ hi - (k - 1) = b + 1
    BY <1>2, <2>4
  <2> HIDE DEF b, x
  <2>7. e[b] = x
    BY <1>2, <2>6
  <2>8. \A a \in b + 1 .. hi : e[a] = g[a]
    BY <1>2, <2>6
  <2> HIDE DEF e
  <2>9. ASSUME NEW a \in b .. hi PROVE e[a] = IF a = hi THEN <<>> ELSE <<a>> \o e[Next_(a)]
    <3>1. CASE a = b
      <4>1. Next_(b) \in b + 1 .. hi
        BY <1>3, <2>6
      <4>2. e[Next_(b)] = g[Next_(b)]
        BY <2>8, <4>1
      <4> QED
        BY <2>6, <2>7, <3>1, <4>2 DEF x
    <3>2. CASE a # b
      <4>1. a \in b + 1 .. hi /\ a \in lo .. hi
        BY <1>2, <2>6, <3>2
      <4>2. g[a] = IF a = hi THEN <<>> ELSE <<a>> \o g[Next_(a)]
        BY <2>5, <2>6, <4>1
      <4>3. a # hi => Next_(a) \in b + 1 .. hi
        <5>1. a # hi => Next_(a) \in a + 1 .. hi
          BY <1>3, <4>1
        <5> QED
          BY <1>2, <2>6, <4>1, <5>1
      <4> QED
        BY <2>8, <4>1, <4>2, <4>3
    <3> QED
      BY <3>1, <3>2
  <2>10. To(k, e)
    BY <2>9 DEF b
  <2> HIDE DEF To
  <2> QED
    BY <2>2, <2>10
<1>5. h = F(h)
  <2>1. PICK g : To(n, g)
    <3>1. n \in 0 .. n
      BY <1>2
    <3> HIDE DEF To
    <3> QED
      BY <1>4, <3>1
  <2> DEFINE f == [a \in lo .. hi |-> g[a]]
  <2>2. ASSUME NEW a \in lo .. hi PROVE f[a] = IF a = hi THEN <<>> ELSE <<a>> \o f[Next_(a)]
    <3>1. a # hi => Next_(a) \in lo .. hi
      <4>1. a # hi => Next_(a) \in a + 1 .. hi
        BY <1>3
      <4> QED
        BY <1>2, <4>1
    <3>2. g[a] = IF a = hi THEN <<>> ELSE <<a>> \o g[Next_(a)]
      BY <1>2, <2>1
    <3> QED
      BY <3>1, <3>2
  <2>3. f = F(f)
    BY <2>2
  <2> HIDE DEF f
  <2> HIDE DEF F
  <2>4. \A e : F(e) = G(e)
    BY DEF F, G, Next_, hi, lo, n
  <2>5. f = G(f)
    BY <2>3, <2>4
  <2>6. h = G(h)
    BY <2>5 DEF h
  <2> QED
    BY <2>4, <2>6
<1> HIDE DEF h
<1> DEFINE S == lo .. hi - 1
           Good(a) == h[a] \in Seq(S) /\ (a # hi => h[a] # <<>>)
<1>6. \A k \in 0 .. n : Good(hi - k)
  <2> DEFINE T == {k \in 0 .. n : ~Good(hi - k)}
  <2> SUFFICES ASSUME T # {} PROVE FALSE
    OBVIOUS
  <2>1. T \in SUBSET Nat
    OBVIOUS
  <2>2. PICK k \in T : \A j \in T : k <= j
    BY <2>1, LeastNat
  <2> DEFINE a == hi - k
             c == Next_(a)
  <2>3. a \in lo .. hi /\ h[a] = IF a = hi THEN <<>> ELSE <<a>> \o h[c]
    <3>1. a \in lo .. hi
      BY <1>2, <2>2
    <3> HIDE DEF a
    <3> QED
      BY <1>5, <3>1
  <2> HIDE DEF c
  <2>4. CASE a = hi
    <3>1. h[a] = <<>>
      BY <2>3, <2>4
    <3>2. Good(a)
      BY <2>4, <3>1
    <3> HIDE DEF Good
    <3> QED
      BY <2>2, <3>2
  <2>5. CASE a # hi
    <3>1. c \in a + 1 .. hi
      BY <1>3, <2>3, <2>5 DEF c
    <3>2. hi - c \in 0 .. n /\ ~(k <= hi - c) /\ hi - (hi - c) = c /\ a \in S
      BY <1>2, <2>2, <2>3, <2>5, <3>1
    <3> HIDE DEF Good
    <3>3. Good(c)
      BY <2>2, <3>2
    <3> DEFINE t == h[c]
    <3>4. t \in Seq(S)
      BY <3>3 DEF Good
    <3> HIDE DEF t, S, a
    <3>5. <<a>> \o t \in Seq(S) /\ <<a>> \o t # <<>>
      BY <3>2, <3>4
    <3>6. Good(a)
      BY <2>3, <2>5, <3>5 DEF Good, t
    <3> QED
      BY <2>2, <3>6 DEF a
  <2> QED
    BY <2>4, <2>5
<1>7. Good(hi - n) /\ hi - n = lo /\ lo # hi
  <2>1. n \in 0 .. n /\ hi - n = lo /\ lo # hi
    BY <1>2
  <2> HIDE DEF Good
  <2> QED
    BY <1>6, <2>1
<1> QED
  <2>1. h[lo] \in Seq(S) /\ h[lo] # <<>>
    BY <1>7
  <2> QED
    BY <1>1, <2>1 DEF lo, hi, n

\* Accesses of a read or a write of memory.
AccessSet == [kind : {"write", "word", "byte", "sba"}, operation : {DMI_READ, DMI_WRITE},
              address : Nat, data : Nat, mask : {0}]

LEMMA SbaReads ==
  ASSUME NEW a \in Nat, NEW access \in {0, SBA_WORD}
  PROVE  sba_read(a, access) \in Seq(AccessSet) /\ sba_read(a, access) # <<>>
<1> DEFINE w == dmi_write(SBCS, access + SBA_READ_ON_ADDRESS)
           x == dmi_write(SBADDRESS0, a)
           y == wait_sba
           z == dmi_read(IF access = SBA_WORD THEN "word" ELSE "byte", SBDATA0)
<1>1. w \in AccessSet
  BY DEF dmi_write, Access_, AccessSet, DMI_WRITE, SBCS, SBA_WORD, SBA_READ_ON_ADDRESS
<1>2. x \in AccessSet
  BY DEF dmi_write, Access_, AccessSet, DMI_WRITE, SBADDRESS0
<1>3. y \in AccessSet
  BY DEF wait_sba, dmi_read, Access_, AccessSet, DMI_READ, SBCS
<1>4. z \in AccessSet
  BY DEF dmi_read, Access_, AccessSet, DMI_READ, SBDATA0
<1>5. sba_read(a, access) = <<w, x, y, z>>
  BY DEF sba_read
<1> HIDE DEF w, x, y, z, AccessSet
<1>6. <<w, x, y, z>> \in Seq(AccessSet) /\ <<w, x, y, z>> # <<>>
  BY <1>1, <1>2, <1>3, <1>4
<1> QED
  BY <1>5, <1>6

LEMMA SbaWrites ==
  ASSUME NEW a \in Nat, NEW data \in Nat, NEW access \in {0, SBA_WORD}
  PROVE  sba_write(a, data, access) \in Seq(AccessSet) /\ sba_write(a, data, access) # <<>>
<1> DEFINE w == dmi_write(SBCS, access)
           x == dmi_write(SBADDRESS0, a)
           y == dmi_write(SBDATA0, data)
           z == wait_sba
<1>1. w \in AccessSet
  BY DEF dmi_write, Access_, AccessSet, DMI_WRITE, SBCS, SBA_WORD
<1>2. x \in AccessSet
  BY DEF dmi_write, Access_, AccessSet, DMI_WRITE, SBADDRESS0
<1>3. y \in AccessSet
  BY DEF dmi_write, Access_, AccessSet, DMI_WRITE, SBDATA0
<1>4. z \in AccessSet
  BY DEF wait_sba, dmi_read, Access_, AccessSet, DMI_READ, SBCS
<1>5. sba_write(a, data, access) = <<w, x, y, z>>
  BY DEF sba_write
<1> HIDE DEF w, x, y, z, AccessSet
<1>6. <<w, x, y, z>> \in Seq(AccessSet) /\ <<w, x, y, z>> # <<>>
  BY <1>1, <1>2, <1>3, <1>4
<1> QED
  BY <1>5, <1>6

\* A part of the job for every start.
LEMMA PartsFlatten ==
  ASSUME NEW D, NEW s \in Seq(D), s # <<>>, NEW q \in [DOMAIN s -> Seq(AccessSet)],
         \A i \in DOMAIN s : q[i] # <<>>
  PROVE  FlattenSeq(q) \in Seq(AccessSet) /\ FlattenSeq(q) # <<>>
<1> DEFINE n == Len(s)
<1>1. DOMAIN s = 1 .. n /\ n \in Nat /\ n # 0
  OBVIOUS
<1> HIDE DEF n
<1>2. q \in [1 .. n -> Seq(AccessSet)]
  BY <1>1
<1>3. q \in Seq(Seq(AccessSet)) /\ Len(q) = n
  BY <1>1, <1>2
<1>4. q # <<>>
  BY <1>1, <1>3
<1>5. \A i \in 1 .. Len(q) : q[i] # <<>>
  BY <1>1, <1>3
<1> QED
  BY <1>3, <1>4, <1>5, FlattenIs

\* An empty range takes no access.
LEMMA NothingStarts ==
  ASSUME NEW call, call.address \in Nat, call.size = 0
  PROVE  Starts(call) = <<>>
<1> DEFINE G(f) == [a \in call.address .. call.address + call.size |->
                      IF a = call.address + call.size THEN <<>>
                      ELSE <<a>> \o f[a + (IF IsWord(a, call.address + call.size - a)
                                          THEN WordBytes ELSE 1)]]
           h == CHOOSE f : f = G(f)
           lo == call.address
           g == [a \in lo .. lo |-> <<>>]
<1>1. Starts(call) = h[lo]
  BY DEF Starts
<1> HIDE DEF h
<1>2. lo \in Nat /\ lo + call.size = lo
  OBVIOUS
<1>3. \A a \in lo .. lo : a = lo
  BY <1>2
<1>4. \A f : G(f) = g
  BY <1>2, <1>3
<1> HIDE DEF G
<1>5. h = g
  BY <1>4 DEF h
<1> QED
  BY <1>1, <1>2, <1>5

LEMMA NothingFlatten ==
  ASSUME NEW q, NEW s, s = <<>>, DOMAIN q = DOMAIN s, q = [i \in DOMAIN q |-> q[i]]
  PROVE  FlattenSeq(q) = <<>>
<1>1. q = <<>> /\ Len(q) = 0
  OBVIOUS
<1> QED
  BY <1>1 DEF FlattenSeq

LEMMA NothingRead ==
  ASSUME NEW call, call.address \in Nat, call.size = 0
  PROVE  read_memory(call) = <<>> /\ write_memory(call) = <<>>
<1> DEFINE s == Starts(call)
           E(a) == sba_read(a, IF IsWord(a, call.address + call.size - a) THEN SBA_WORD ELSE 0)
           at(a) == a - call.address + 1
           F(a) == IF IsWord(a, call.address + call.size - a)
                   THEN sba_write(a, Pack(SubSeq(call.data, at(a), at(a) + WordBytes - 1)),
                                  SBA_WORD)
                   ELSE sba_write(a, call.data[at(a)], 0)
<1>1. /\ read_memory(call) = FlattenSeq([i \in DOMAIN s |-> E(s[i])])
      /\ write_memory(call) = FlattenSeq([i \in DOMAIN s |-> F(s[i])])
  BY DEF read_memory, write_memory
<1>2. s = <<>>
  BY NothingStarts
<1> HIDE DEF s, E, F
<1>3. FlattenSeq([i \in DOMAIN s |-> E(s[i])]) = <<>>
  <2> DEFINE q == [i \in DOMAIN s |-> E(s[i])]
  <2>1. DOMAIN q = DOMAIN s /\ q = [i \in DOMAIN q |-> q[i]]
    OBVIOUS
  <2> HIDE DEF q
  <2>2. FlattenSeq(q) = <<>>
    BY <1>2, <2>1, NothingFlatten
  <2> QED
    BY <2>2 DEF q
<1>4. FlattenSeq([i \in DOMAIN s |-> F(s[i])]) = <<>>
  <2> DEFINE q == [i \in DOMAIN s |-> F(s[i])]
  <2>1. DOMAIN q = DOMAIN s /\ q = [i \in DOMAIN q |-> q[i]]
    OBVIOUS
  <2> HIDE DEF q
  <2>2. FlattenSeq(q) = <<>>
    BY <1>2, <2>1, NothingFlatten
  <2> QED
    BY <2>2 DEF q
<1> QED
  BY <1>1, <1>3, <1>4

LEMMA ReadsFlatten ==
  ASSUME NEW call, call.address \in Nat, call.size \in Nat \ {0}
  PROVE  read_memory(call) \in Seq(AccessSet) /\ read_memory(call) # <<>>
<1> DEFINE D == call.address .. call.address + call.size - 1
           s == Starts(call)
           E(a) == sba_read(a, IF IsWord(a, call.address + call.size - a) THEN SBA_WORD ELSE 0)
           q == [i \in DOMAIN s |-> E(s[i])]
<1>1. read_memory(call) = FlattenSeq(q)
  BY DEF read_memory
<1>2. s \in Seq(D) /\ s # <<>>
  BY StartsAre
<1>3. \A a \in D : a \in Nat
  OBVIOUS
<1> HIDE DEF s, D
<1>4. ASSUME NEW i \in DOMAIN s PROVE q[i] \in Seq(AccessSet) /\ q[i] # <<>>
  <2>1. s[i] \in Nat
    BY <1>2, <1>3
  <2>2. q[i] = E(s[i])
    OBVIOUS
  <2>3. E(s[i]) \in Seq(AccessSet) /\ E(s[i]) # <<>>
    BY <2>1, SbaReads
  <2> HIDE DEF q, E
  <2> QED
    BY <2>2, <2>3
<1> HIDE DEF E
<1>5. q \in [DOMAIN s -> Seq(AccessSet)]
  BY <1>4
<1> HIDE DEF q
<1> QED
  BY <1>1, <1>2, <1>4, <1>5, PartsFlatten

LEMMA PackTwo ==
  ASSUME NEW S, S = Nat, NEW t \in Seq(S), Len(t) >= 2
  PROVE  Pack(t) \in Nat
<1> DEFINE x == t[1]
           y == t[2]
<1>1. x \in S /\ y \in S
  <2>1. 1 \in 1 .. Len(t) /\ 2 \in 1 .. Len(t)
    OBVIOUS
  <2> QED
    BY <2>1
<1>2. Pack(t) = x + 16 * y
  BY DEF Pack
<1> HIDE DEF x, y
<1>3. x + 16 * y \in Nat
  BY <1>1
<1> QED
  BY <1>2, <1>3

LEMMA PackIs ==
  ASSUME NEW data \in Seq(Nat), NEW b \in 1 .. Len(data), NEW e \in 1 .. Len(data), e > b
  PROVE  Pack(SubSeq(data, b, e)) \in Nat
<1> DEFINE t == SubSeq(data, b, e)
           n == Len(data)
<1>1. n \in Nat /\ b \in 1 .. n /\ e \in 1 .. n /\ \A i \in 1 .. n : data[i] \in Nat
  OBVIOUS
<1> HIDE DEF n
<1>2. b \in Int /\ e \in Int /\ b <= e
  BY <1>1
<1>3. \A i \in b .. e : data[i] \in Nat
  <2> SUFFICES ASSUME NEW i \in b .. e PROVE data[i] \in Nat
    OBVIOUS
  <2>1. i \in 1 .. n
    BY <1>1
  <2> QED
    BY <1>1, <2>1
<1>4. t \in Seq(Nat) /\ Len(t) = (IF b <= e THEN e - b + 1 ELSE 0)
  BY <1>2, <1>3, SubSeqProperties
<1> HIDE DEF t
<1>5. Len(t) \in Nat /\ Len(t) >= 2
  BY <1>1, <1>2, <1>4
<1>6. Pack(t) \in Nat
  BY <1>4, <1>5, PackTwo
<1> QED
  BY <1>6 DEF t

LEMMA PartIs ==
  ASSUME NEW lo \in Nat, NEW n \in Nat, NEW a \in lo .. lo + n - 1, NEW at, at = a - lo + 1
  PROVE  /\ a \in Nat /\ at \in 1 .. n
         /\ \A w \in Nat : w >= 2 /\ lo + n - a >= w =>
              at + w - 1 \in 1 .. n /\ at + w - 1 > at
OBVIOUS

LEMMA WritesFlatten ==
  ASSUME NEW call, call.address \in Nat, call.size \in Nat \ {0}, call.data \in Seq(Nat),
         Len(call.data) = call.size
  PROVE  write_memory(call) \in Seq(AccessSet) /\ write_memory(call) # <<>>
<1> DEFINE lo == call.address
           n == call.size
           D == lo .. lo + n - 1
           s == Starts(call)
           at(a) == a - call.address + 1
           Long(a) == Pack(SubSeq(call.data, at(a), at(a) + WordBytes - 1))
           Fits(a) == IsWord(a, call.address + call.size - a)
           E(a) == IF Fits(a) THEN sba_write(a, Long(a), SBA_WORD)
                   ELSE sba_write(a, call.data[at(a)], 0)
           q == [i \in DOMAIN s |-> E(s[i])]
<1>1. write_memory(call) = FlattenSeq(q)
  BY DEF write_memory
<1>2. s \in Seq(D) /\ s # <<>>
  BY StartsAre
<1>3. WordBytes \in Nat /\ WordBytes >= 2
  BY DebuggerAssumption
<1>4. ASSUME NEW a \in D, Fits(a) PROVE lo + n - a >= WordBytes
  BY <1>4 DEF IsWord
<1>5. ASSUME NEW a \in D
      PROVE  /\ a \in Nat /\ at(a) \in 1 .. n
             /\ Fits(a) => at(a) + WordBytes - 1 \in 1 .. n /\ at(a) + WordBytes - 1 > at(a)
  BY <1>3, <1>4, <1>5, PartIs
<1> HIDE DEF s, D, n, at, Fits
<1>6. ASSUME NEW a \in D PROVE E(a) \in Seq(AccessSet) /\ E(a) # <<>>
  <2>1. CASE Fits(a)
    <3>1. Long(a) \in Nat
      <4>1. /\ at(a) \in 1 .. Len(call.data) /\ at(a) + WordBytes - 1 \in 1 .. Len(call.data)
            /\ at(a) + WordBytes - 1 > at(a)
        BY <1>5, <1>6, <2>1 DEF n
      <4> QED
        BY <4>1, PackIs
    <3> HIDE DEF Long
    <3>2. sba_write(a, Long(a), SBA_WORD) \in Seq(AccessSet)
          /\ sba_write(a, Long(a), SBA_WORD) # <<>>
      BY <1>5, <1>6, <3>1, SbaWrites
    <3> QED
      BY <2>1, <3>2
  <2>2. CASE ~Fits(a)
    <3> DEFINE x == call.data[at(a)]
    <3>1. x \in Nat
      <4>1. at(a) \in 1 .. Len(call.data)
        BY <1>5, <1>6 DEF n
      <4> QED
        BY <4>1
    <3> HIDE DEF x
    <3>2. sba_write(a, x, 0) \in Seq(AccessSet) /\ sba_write(a, x, 0) # <<>>
      BY <1>5, <1>6, <3>1, SbaWrites
    <3> QED
      BY <2>2, <3>2 DEF x
  <2> QED
    BY <2>1, <2>2
<1> HIDE DEF E
<1>7. ASSUME NEW i \in DOMAIN s PROVE q[i] \in Seq(AccessSet) /\ q[i] # <<>>
  <2>1. q[i] = E(s[i]) /\ s[i] \in D
    BY <1>2
  <2> HIDE DEF q
  <2> QED
    BY <1>6, <2>1
<1>8. q \in [DOMAIN s -> Seq(AccessSet)]
  BY <1>7
<1> HIDE DEF q
<1> QED
  BY <1>1, <1>2, <1>7, <1>8, PartsFlatten

\* What has to be known of the hart when n accesses of the call are left.
Needs(op, n) ==
  CASE op = "halt" /\ n = 2 -> {"halting"}
    [] op = "halt" /\ n < 2 -> {"halted"}
    [] op = "resume" /\ n = 1 -> {"released"}
    [] op = "resume" /\ n = 0 -> {"running"}
    [] op = "reset_soc" /\ n < 2 -> {"running"}
    [] OTHER -> {}

Request(step) ==
  [operation |-> step.operation, data |-> step.data, address |-> step.address]
IsAccess(step) ==
  /\ step.kind # "identify" /\ step.operation \in {DMI_READ, DMI_WRITE}
  /\ step.data \in Nat /\ step.address \in Nat
  /\ step.kind = "supported" => step.operation = DMI_READ /\ step.address = SBCS
\* Served, and the status waited for seen, a request gives what the next one needs.
Gives(op, step, n) ==
  \A x, y, v : /\ Needs(op, n) \subseteq x /\ Served(Request(step), x, y, v)
               /\ step.kind = "dmstatus" => Flag(v, step.mask)
               => Needs(op, n - 1) \subseteq y
Fit(op, step, n) ==
  \/ step.kind = "identify" /\ Needs(op, n - 1) = {}
  \/ IsAccess(step) /\ Steady(Request(step), Needs(op, n)) /\ Gives(op, step, n)
Job(op, steps) ==
  IsSeq(steps) /\ \A i \in 1 .. Len(steps) : Fit(op, steps[i], Len(steps) - i + 1)

LEMMA JobTail ==
  ASSUME NEW op, NEW s, Job(op, s), s # <<>>
  PROVE  /\ Fit(op, Head(s), Len(s)) /\ Job(op, Tail(s)) /\ Len(Tail(s)) = Len(s) - 1
         /\ Len(s) \in Nat \ {0}
<1>1. PICK S : s \in Seq(S)
  BY DEF Job, IsSeq
<1> DEFINE t == Tail(s)
           n == Len(s)
<1>2. n \in Nat \ {0} /\ Head(s) = s[1]
  BY <1>1
<1>3. t \in Seq(S) /\ Len(t) = n - 1 /\ \A i \in 1 .. n - 1 : t[i] = s[i + 1]
  BY <1>1, <1>2
<1>4. \A i \in 1 .. n : Fit(op, s[i], n - i + 1)
  BY DEF Job
<1> HIDE DEF t, n
<1>5. Fit(op, Head(s), n)
  <2>1. 1 \in 1 .. n /\ n - 1 + 1 = n
    BY <1>2
  <2>2. Fit(op, s[1], n - 1 + 1)
    BY <1>4, <2>1
  <2> QED
    BY <1>2, <2>1, <2>2
<1>6. ASSUME NEW i \in 1 .. Len(t) PROVE Fit(op, t[i], Len(t) - i + 1)
  <2>1. i \in 1 .. n - 1 /\ i + 1 \in 1 .. n /\ n - (i + 1) + 1 = Len(t) - i + 1
    BY <1>2, <1>3
  <2>2. Fit(op, s[i + 1], n - (i + 1) + 1)
    BY <1>4, <2>1
  <2> QED
    BY <1>3, <2>1, <2>2
<1>7. Job(op, t)
  BY <1>3, <1>6 DEF Job, IsSeq
<1> QED
  BY <1>2, <1>3, <1>5, <1>7 DEF t, n

\* Where nothing has to be known.
LEMMA EasyFits ==
  ASSUME NEW op, NEW n, Needs(op, n) = {}, Needs(op, n - 1) = {},
         NEW step, step.kind = "identify" \/ IsAccess(step)
  PROVE  Fit(op, step, n)
BY DEF Fit, Steady, Gives

LEMMA EasyJob ==
  ASSUME NEW op, op \notin {"halt", "resume", "reset_soc"}, NEW s, IsSeq(s),
         \A i \in 1 .. Len(s) : s[i].kind = "identify" \/ IsAccess(s[i])
  PROVE  Job(op, s)
<1>1. \A n : Needs(op, n) = {}
  BY DEF Needs
<1> QED
  BY <1>1, EasyFits DEF Job

\* A write of dmcontrol.
Controls(v, x, y) ==
  /\ v = DM_HALTREQ => "halting" \in y
  /\ v = DM_ACTIVE => "released" \in y /\ x \cap {"halted", "running"} \subseteq y
  /\ v = DM_RESET => {"running", "released"} \subseteq y
LEMMA ControlFits ==
  ASSUME NEW op, NEW n, NEW v \in Nat,
         \A x, y : Needs(op, n) \subseteq x /\ Controls(v, x, y) =>
                     Needs(op, n) \subseteq y /\ Needs(op, n - 1) \subseteq y
  PROVE  Fit(op, dmi_write(DMCONTROL, v), n)
<1> DEFINE step == dmi_write(DMCONTROL, v)
<1>1. /\ step.kind = "write" /\ step.operation = DMI_WRITE /\ step.data = v
      /\ step.address = DMCONTROL
  BY DEF dmi_write, Access_
<1> HIDE DEF step
<1>2. IsAccess(step)
  BY <1>1 DEF IsAccess, DMCONTROL
<1>3. /\ Request(step).operation = DMI_WRITE /\ Request(step).address = DMCONTROL
      /\ Request(step).data = v
  BY <1>1 DEF Request
<1>4. \A x, y, w : Served(Request(step), x, y, w) => Controls(v, x, y)
  BY <1>3 DEF Served, Controls
<1> QED
  BY <1>2, <1>4 DEF Fit, Steady, Gives, step

\* A wait for a status.
LEMMA StatusFits ==
  ASSUME NEW op, NEW n, NEW mask,
         \A x, y : /\ Needs(op, n) \subseteq x /\ x \subseteq y
                   /\ mask = DM_ANYHALTED /\ "halting" \in x => "halted" \in y
                   /\ mask = DM_ANYRUNNING /\ "released" \in x => "running" \in y
                   => Needs(op, n - 1) \subseteq y
  PROVE  Fit(op, wait_dmstatus(mask), n)
<1> DEFINE step == wait_dmstatus(mask)
<1>1. /\ step.kind = "dmstatus" /\ step.operation = DMI_READ /\ step.data = 0
      /\ step.address = DMSTATUS /\ step.mask = mask
  BY DEF wait_dmstatus, dmi_read, Access_
<1> HIDE DEF step
<1>2. IsAccess(step)
  BY <1>1 DEF IsAccess, DMSTATUS
<1>3. Request(step).operation = DMI_READ /\ Request(step).address = DMSTATUS
  BY <1>1 DEF Request
<1>4. \A x, y, w : Served(Request(step), x, y, w) =>
        /\ x \subseteq y
        /\ Flag(w, DM_ANYHALTED) /\ "halting" \in x => "halted" \in y
        /\ Flag(w, DM_ANYRUNNING) /\ "released" \in x => "running" \in y
  BY <1>3 DEF Served
<1>5. Steady(Request(step), Needs(op, n))
  BY <1>4 DEF Steady
<1>6. Gives(op, step, n)
  <2> SUFFICES ASSUME NEW x, NEW y, NEW v, Needs(op, n) \subseteq x,
                      Served(Request(step), x, y, v), Flag(v, mask)
               PROVE  Needs(op, n - 1) \subseteq y
    BY <1>1 DEF Gives
  <2>1. /\ x \subseteq y
        /\ mask = DM_ANYHALTED /\ "halting" \in x => "halted" \in y
        /\ mask = DM_ANYRUNNING /\ "released" \in x => "running" \in y
    BY <1>4
  <2> QED
    BY <2>1
<1> QED
  BY <1>2, <1>5, <1>6 DEF Fit, step

LEMMA JobHalt == Job("halt", halt) /\ halt # <<>> /\ Needs("halt", Len(halt)) = {}
<1> DEFINE op == "halt"
           a == dmi_write(DMCONTROL, DM_HALTREQ)
           b == wait_dmstatus(DM_ANYHALTED)
           c == dmi_write(DMCONTROL, DM_ACTIVE)
           s == <<a, b, c>>
<1>1. /\ Needs(op, 3) = {} /\ Needs(op, 2) = {"halting"} /\ Needs(op, 1) = {"halted"}
      /\ Needs(op, 0) = {"halted"} /\ 3 - 1 = 2 /\ 2 - 1 = 1 /\ 1 - 1 = 0
  BY DEF Needs
<1> HIDE DEF op
<1>2. Fit(op, a, 3)
  <2>1. DM_HALTREQ \in Nat
    BY DEF DM_HALTREQ
  <2> QED
    BY <1>1, <2>1, ControlFits DEF Controls
<1>3. Fit(op, b, 2)
  BY <1>1, StatusFits
<1>4. Fit(op, c, 1)
  <2>1. DM_ACTIVE \in Nat
    BY DEF DM_ACTIVE
  <2> QED
    BY <1>1, <2>1, ControlFits DEF Controls
<1> HIDE DEF a, b, c
<1>5. IsSeq(s) /\ Len(s) = 3 /\ s[1] = a /\ s[2] = b /\ s[3] = c /\ s # <<>>
  <2>1. s \in Seq({a, b, c}) /\ Len(s) = 3 /\ s[1] = a /\ s[2] = b /\ s[3] = c /\ s # <<>>
    OBVIOUS
  <2> QED
    BY <2>1 DEF IsSeq
<1> HIDE DEF s
<1>6. ASSUME NEW i \in 1 .. 3 PROVE Fit(op, s[i], 3 - i + 1)
  <2>1. i = 1 \/ i = 2 \/ i = 3
    OBVIOUS
  <2>2. 3 - 1 + 1 = 3 /\ 3 - 2 + 1 = 2 /\ 3 - 3 + 1 = 1
    OBVIOUS
  <2> QED
    BY <1>2, <1>3, <1>4, <1>5, <2>1, <2>2
<1>7. Job(op, s)
  BY <1>5, <1>6 DEF Job
<1>8. halt = s
  BY DEF halt, s, a, b, c
<1> QED
  BY <1>1, <1>5, <1>7, <1>8 DEF op

LEMMA JobResume == Job("resume", resume) /\ resume # <<>> /\ Needs("resume", Len(resume)) = {}
<1> DEFINE op == "resume"
           a == dmi_write(DMCONTROL, DM_RESUMEREQ)
           b == wait_dmstatus(DM_ANYRESUMEACK)
           c == dmi_write(DMCONTROL, DM_ACTIVE)
           d == wait_dmstatus(DM_ANYRUNNING)
           s == <<a, b, c, d>>
<1>1. /\ Needs(op, 4) = {} /\ Needs(op, 3) = {} /\ Needs(op, 2) = {}
      /\ Needs(op, 1) = {"released"} /\ Needs(op, 0) = {"running"}
      /\ 4 - 1 = 3 /\ 3 - 1 = 2 /\ 2 - 1 = 1 /\ 1 - 1 = 0
  BY DEF Needs
<1> HIDE DEF op
<1>2. Fit(op, a, 4)
  <2>1. DM_RESUMEREQ \in Nat
    BY DEF DM_RESUMEREQ
  <2> QED
    BY <1>1, <2>1, ControlFits
<1>3. Fit(op, b, 3)
  BY <1>1, StatusFits
<1>4. Fit(op, c, 2)
  <2>1. DM_ACTIVE \in Nat
    BY DEF DM_ACTIVE
  <2> QED
    BY <1>1, <2>1, ControlFits DEF Controls
<1>5. Fit(op, d, 1)
  BY <1>1, StatusFits
<1> HIDE DEF a, b, c, d
<1>6. IsSeq(s) /\ Len(s) = 4 /\ s[1] = a /\ s[2] = b /\ s[3] = c /\ s[4] = d /\ s # <<>>
  <2>1. /\ s \in Seq({a, b, c, d}) /\ Len(s) = 4 /\ s[1] = a /\ s[2] = b /\ s[3] = c
        /\ s[4] = d /\ s # <<>>
    OBVIOUS
  <2> QED
    BY <2>1 DEF IsSeq
<1> HIDE DEF s
<1>7. ASSUME NEW i \in 1 .. 4 PROVE Fit(op, s[i], 4 - i + 1)
  <2>1. i = 1 \/ i = 2 \/ i = 3 \/ i = 4
    OBVIOUS
  <2>2. 4 - 1 + 1 = 4 /\ 4 - 2 + 1 = 3 /\ 4 - 3 + 1 = 2 /\ 4 - 4 + 1 = 1
    OBVIOUS
  <2> QED
    BY <1>2, <1>3, <1>4, <1>5, <1>6, <2>1, <2>2
<1>8. Job(op, s)
  BY <1>6, <1>7 DEF Job
<1>9. resume = s
  BY DEF resume, s, a, b, c, d
<1> QED
  BY <1>1, <1>6, <1>8, <1>9 DEF op

LEMMA JobReset ==
  Job("reset_soc", reset_soc) /\ reset_soc # <<>> /\ Needs("reset_soc", Len(reset_soc)) = {}
<1> DEFINE op == "reset_soc"
           a == dmi_write(DMCONTROL, DM_RESET)
           b == dmi_write(DMCONTROL, DM_ACTIVE)
           s == <<a, b>>
<1>1. /\ Needs(op, 2) = {} /\ Needs(op, 1) = {"running"} /\ Needs(op, 0) = {"running"}
      /\ 2 - 1 = 1 /\ 1 - 1 = 0
  BY DEF Needs
<1> HIDE DEF op
<1>2. Fit(op, a, 2)
  <2>1. DM_RESET \in Nat
    BY DEF DM_RESET
  <2> QED
    BY <1>1, <2>1, ControlFits DEF Controls
<1>3. Fit(op, b, 1)
  <2>1. DM_ACTIVE \in Nat
    BY DEF DM_ACTIVE
  <2> QED
    BY <1>1, <2>1, ControlFits DEF Controls
<1> HIDE DEF a, b
<1>4. IsSeq(s) /\ Len(s) = 2 /\ s[1] = a /\ s[2] = b /\ s # <<>>
  <2>1. s \in Seq({a, b}) /\ Len(s) = 2 /\ s[1] = a /\ s[2] = b /\ s # <<>>
    OBVIOUS
  <2> QED
    BY <2>1 DEF IsSeq
<1> HIDE DEF s
<1>5. ASSUME NEW i \in 1 .. 2 PROVE Fit(op, s[i], 2 - i + 1)
  <2>1. i = 1 \/ i = 2
    OBVIOUS
  <2>2. 2 - 1 + 1 = 2 /\ 2 - 2 + 1 = 1
    OBVIOUS
  <2> QED
    BY <1>2, <1>3, <1>4, <2>1, <2>2
<1>6. Job(op, s)
  BY <1>4, <1>5 DEF Job
<1>7. reset_soc = s
  BY DEF reset_soc, s, a, b
<1> QED
  BY <1>1, <1>4, <1>6, <1>7 DEF op

LEMMA JobInitialize == Job("initialize", initialize) /\ initialize # <<>>
<1> DEFINE a == [kind |-> "identify"]
           b == dmi_write(DMCONTROL, DM_ACTIVE)
           c == dmi_read("supported", SBCS)
           s == <<a, b, c>>
<1>1. a.kind = "identify"
  OBVIOUS
<1>2. IsAccess(b)
  BY DEF IsAccess, dmi_write, Access_, DMCONTROL, DM_ACTIVE
<1>3. IsAccess(c)
  BY DEF IsAccess, dmi_read, Access_, SBCS
<1> HIDE DEF a, b, c
<1>4. IsSeq(s) /\ Len(s) = 3 /\ s[1] = a /\ s[2] = b /\ s[3] = c /\ s # <<>>
  <2>1. s \in Seq({a, b, c}) /\ Len(s) = 3 /\ s[1] = a /\ s[2] = b /\ s[3] = c /\ s # <<>>
    OBVIOUS
  <2> QED
    BY <2>1 DEF IsSeq
<1> HIDE DEF s
<1>5. ASSUME NEW i \in 1 .. 3 PROVE s[i].kind = "identify" \/ IsAccess(s[i])
  <2>1. i = 1 \/ i = 2 \/ i = 3
    OBVIOUS
  <2> QED
    BY <1>1, <1>2, <1>3, <1>4, <2>1
<1>6. Job("initialize", s)
  BY <1>4, <1>5, EasyJob
<1>7. initialize = s
  BY DEF initialize, s, a, b, c
<1> QED
  BY <1>4, <1>6, <1>7

LEMMA JobAccesses ==
  ASSUME NEW op, op \notin {"halt", "resume", "reset_soc"}, NEW s \in Seq(AccessSet)
  PROVE  Job(op, s)
<1>1. ASSUME NEW step \in AccessSet PROVE IsAccess(step)
  BY DEF AccessSet, IsAccess
<1> HIDE DEF AccessSet
<1>2. \A i \in 1 .. Len(s) : IsAccess(s[i])
  BY <1>1
<1>3. IsSeq(s)
  BY DEF IsSeq
<1> QED
  BY <1>2, <1>3, EasyJob

IsCall(c) ==
  c \in CallSet /\ (c.op = "write" => Len(c.data) = c.size)
LEMMA CallJob ==
  ASSUME NEW c, IsCall(c), Steps(c) # <<>>
  PROVE  Job(c.op, Steps(c)) /\ Needs(c.op, Len(Steps(c))) = {}
<1> DEFINE op == c.op
           s == Steps(c)
<1>1. /\ op \in {"initialize", "read", "write", "halt", "resume", "reset_soc"}
      /\ c.address \in Nat /\ c.size \in Nat /\ c.data \in Seq(Nat)
  BY DEF IsCall, CallSet
<1>2. op \notin {"halt", "resume", "reset_soc"} => \A n : Needs(op, n) = {}
  BY DEF Needs
<1>3. CASE op = "initialize"
  <2>1. s = initialize
    BY <1>3 DEF Steps
  <2> HIDE DEF s, op
  <2> QED
    BY <1>2, <1>3, <2>1, JobInitialize DEF s, op
<1>4. CASE op = "read"
  <2>1. s = read_memory(c) /\ c.size \in Nat \ {0}
    <3>1. s = read_memory(c)
      BY <1>4 DEF Steps
    <3>2. c.size # 0
      BY <1>1, <3>1, NothingRead
    <3> QED
      BY <1>1, <3>1, <3>2
  <2>2. s \in Seq(AccessSet) /\ s # <<>>
    BY <1>1, <2>1, ReadsFlatten
  <2> HIDE DEF s, op
  <2> QED
    BY <1>2, <1>4, <2>2, JobAccesses DEF s, op
<1>5. CASE op = "write"
  <2>1. s = write_memory(c) /\ c.size \in Nat \ {0} /\ Len(c.data) = c.size
    <3>1. s = write_memory(c)
      BY <1>5 DEF Steps
    <3>2. c.size # 0
      BY <1>1, <3>1, NothingRead
    <3> QED
      BY <1>1, <1>5, <3>1, <3>2 DEF IsCall
  <2>2. s \in Seq(AccessSet) /\ s # <<>>
    BY <1>1, <2>1, WritesFlatten
  <2> HIDE DEF s, op
  <2> QED
    BY <1>2, <1>5, <2>2, JobAccesses DEF s, op
<1>6. CASE op = "halt"
  <2>1. s = halt
    BY <1>6 DEF Steps
  <2> QED
    BY <1>6, <2>1, JobHalt
<1>7. CASE op = "resume"
  <2>1. s = resume
    BY <1>7 DEF Steps
  <2> QED
    BY <1>7, <2>1, JobResume
<1>8. CASE op = "reset_soc"
  <2>1. s = reset_soc
    BY <1>8 DEF Steps
  <2> QED
    BY <1>8, <2>1, JobReset
<1> QED
  BY <1>1, <1>3, <1>4, <1>5, <1>6, <1>7, <1>8

-----------------------------------------------------------------------------
(* What waits: sequences of words and of pulses, joined and divided.       *)

Pulses(s) == IsSeq(s) /\ \A i \in 1 .. Len(s) : IsPulse(s[i])

LEMMA Unions ==
  ASSUME NEW s, NEW t, NEW u, IsSeq(s), IsSeq(t), IsSeq(u)
  PROVE  \E S : s \in Seq(S) /\ t \in Seq(S) /\ u \in Seq(S)
<1>1. PICK A : s \in Seq(A)
  BY DEF IsSeq
<1>2. PICK B : t \in Seq(B)
  BY DEF IsSeq
<1>3. PICK C : u \in Seq(C)
  BY DEF IsSeq
<1> DEFINE S == A \cup B \cup C
<1>4. s \in Seq(S) /\ t \in Seq(S) /\ u \in Seq(S)
  BY <1>1, <1>2, <1>3
<1> QED
  BY <1>4

LEMMA Joins ==
  ASSUME NEW s, NEW t, NEW u, IsSeq(s), IsSeq(t), IsSeq(u)
  PROVE  (s \o t) \o u = s \o (t \o u) /\ s \o <<>> = s /\ <<>> \o s = s
<1>1. PICK S : s \in Seq(S) /\ t \in Seq(S) /\ u \in Seq(S)
  BY Unions
<1>2. (s \o t) \o u = s \o (t \o u)
  BY <1>1
<1>3. s \o <<>> = s /\ <<>> \o s = s
  BY <1>1
<1> QED
  BY <1>2, <1>3

\* The first n of s, and the others.
LEMMA Divides ==
  ASSUME NEW s, IsSeq(s), NEW n \in 0 .. Len(s)
  PROVE  LET p == SubSeq(s, 1, n)
             q == SubSeq(s, n + 1, Len(s))
         IN IsSeq(p) /\ IsSeq(q) /\ p \o q = s
<1> DEFINE p == SubSeq(s, 1, n)
           q == SubSeq(s, n + 1, Len(s))
           m == Len(s)
<1>1. PICK S : s \in Seq(S)
  BY DEF IsSeq
<1>2. m \in Nat /\ n \in Nat /\ n <= m
  BY <1>1
<1>3. p \in Seq(S) /\ Len(p) = n /\ \A i \in 1 .. n : p[i] = s[i]
  BY <1>1, <1>2
<1>4. q \in Seq(S) /\ Len(q) = m - n /\ \A i \in 1 .. m - n : q[i] = s[n + i]
  BY <1>1, <1>2
<1>5. s \in Seq(S) /\ Len(s) = m
  BY <1>1
<1> HIDE DEF p, q, m
<1> DEFINE r == p \o q
<1>6. r \in Seq(S) /\ Len(r) = m
  <2>1. p \in Seq(S) /\ q \in Seq(S)
    BY <1>3, <1>4
  <2>2. r \in Seq(S) /\ Len(r) = Len(p) + Len(q)
    BY <2>1
  <2> HIDE DEF r
  <2> QED
    BY <1>2, <1>3, <1>4, <2>2
<1>7. \A i \in 1 .. m : r[i] = s[i]
  <2> SUFFICES ASSUME NEW i \in 1 .. m PROVE r[i] = s[i]
    OBVIOUS
  <2>1. r[i] = IF i <= n THEN p[i] ELSE q[i - n]
    BY <1>2, <1>3, <1>4
  <2>2. CASE i <= n
    BY <1>2, <1>3, <2>1, <2>2
  <2>3. CASE ~(i <= n)
    <3>1. i - n \in 1 .. m - n /\ n + (i - n) = i
      BY <1>2, <2>3
    <3> QED
      BY <1>4, <2>1, <2>3, <3>1
  <2> QED
    BY <2>2, <2>3
<1> HIDE DEF r
<1>8. r = s
  BY <1>2, <1>5, <1>6, <1>7, SeqEqual
<1> QED
  BY <1>3, <1>4, <1>8 DEF IsSeq, p, q, m, r

LEMMA HeadFirst ==
  ASSUME NEW s, IsSeq(s), s # <<>>, NEW t, IsSeq(t)
  PROVE  /\ IsSeq(Tail(s)) /\ IsSeq(<<Head(s)>>) /\ s = <<Head(s)>> \o Tail(s)
         /\ s \o t # <<>> /\ Head(s \o t) = Head(s) /\ Tail(s \o t) = Tail(s) \o t
<1>1. PICK S : s \in Seq(S) /\ t \in Seq(S)
  BY Unions
<1> DEFINE x == Head(s)
           z == <<x>>
           u == Tail(s)
           m == Len(s)
           n == Len(t)
<1>2. x \in S /\ u \in Seq(S) /\ z \in Seq(S) /\ s = z \o u /\ x = s[1] /\ m \in Nat \ {0}
  BY <1>1
<1>3. Len(u) = m - 1 /\ n \in Nat /\ \A i \in 1 .. m - 1 : u[i] = s[i + 1]
  BY <1>1
<1> HIDE DEF x, u, z
<1> DEFINE r == s \o t
           v == u \o t
<1>4. r \in Seq(S) /\ Len(r) = m + n /\ \A i \in 1 .. m + n : r[i] = IF i <= m THEN s[i] ELSE t[i - m]
  BY <1>1
<1>5. /\ v \in Seq(S) /\ Len(v) = m - 1 + n
      /\ \A i \in 1 .. m - 1 + n : v[i] = IF i <= m - 1 THEN u[i] ELSE t[i - (m - 1)]
  <2> DEFINE k == Len(u)
  <2>1. /\ v \in Seq(S) /\ Len(v) = k + n
        /\ \A i \in 1 .. k + n : v[i] = IF i <= k THEN u[i] ELSE t[i - k]
    BY <1>1, <1>2
  <2> HIDE DEF k, v, m, n
  <2>2. k = m - 1
    BY <1>3 DEF k, m
  <2> QED
    BY <2>1, <2>2
<1> HIDE DEF r, v, m, n
<1> DEFINE w == Tail(r)
<1>6. /\ r # <<>> /\ Head(r) = r[1] /\ w \in Seq(S) /\ Len(w) = m + n - 1
      /\ \A i \in 1 .. m + n - 1 : w[i] = r[i + 1]
  <2>1. r \in Seq(S) /\ r # <<>>
    BY <1>2, <1>3, <1>4
  <2>2. /\ Head(r) = r[1] /\ w \in Seq(S) /\ Len(w) = Len(r) - 1
        /\ \A i \in 1 .. Len(w) : w[i] = r[i + 1]
    BY <2>1, HeadTailProperties
  <2> HIDE DEF w
  <2>3. Len(w) = m + n - 1
    BY <1>2, <1>3, <1>4, <2>2
  <2>4. \A i \in 1 .. m + n - 1 : w[i] = r[i + 1]
    BY <2>2, <2>3
  <2> QED
    BY <2>1, <2>2, <2>3, <2>4
<1>7. Head(r) = x
  BY <1>2, <1>3, <1>4, <1>6
<1>8. \A i \in 1 .. m + n - 1 : w[i] = v[i]
  <2> SUFFICES ASSUME NEW i \in 1 .. m + n - 1 PROVE w[i] = v[i]
    OBVIOUS
  <2>1. i \in 1 .. m - 1 + n /\ i + 1 \in 1 .. m + n /\ i + 1 - m = i - (m - 1)
    BY <1>2, <1>3
  <2>2. CASE i <= m - 1
    <3>1. i \in 1 .. m - 1 /\ i + 1 <= m
      BY <1>2, <2>1, <2>2
    <3>2. w[i] = r[i + 1] /\ r[i + 1] = s[i + 1]
      BY <1>4, <1>6, <2>1, <3>1
    <3>3. v[i] = u[i] /\ u[i] = s[i + 1]
      BY <1>3, <1>5, <2>1, <2>2, <3>1
    <3> QED
      BY <3>2, <3>3
  <2>3. CASE ~(i <= m - 1)
    <3>1. ~(i + 1 <= m)
      BY <1>2, <2>1, <2>3
    <3> DEFINE j == i + 1
    <3>4. w[i] = r[j]
      BY <1>6
    <3>5. j \in 1 .. m + n /\ ~(j <= m) /\ j - m = i - (m - 1)
      BY <1>2, <1>3, <2>1, <3>1
    <3> HIDE DEF j
    <3>2. r[j] = t[j - m]
      BY <1>4, <3>5
    <3>3. v[i] = t[i - (m - 1)]
      BY <1>5, <2>1, <2>3
    <3> QED
      BY <3>2, <3>3, <3>4, <3>5
  <2> QED
    BY <2>2, <2>3
<1> HIDE DEF w
<1>9. w = v
  <2>1. Len(w) = Len(v)
    BY <1>2, <1>3, <1>5, <1>6
  <2>2. \A i \in 1 .. Len(w) : w[i] = v[i]
    BY <1>6, <1>8
  <2> QED
    BY <1>5, <1>6, <2>1, <2>2, SeqEqual
<1> QED
  BY <1>2, <1>6, <1>7, <1>9 DEF IsSeq, x, u, z, r, v, w

LEMMA PulsesJoin ==
  ASSUME NEW s, NEW t, Pulses(s), Pulses(t)
  PROVE  Pulses(s \o t)
<1> DEFINE r == s \o t
<1>1. /\ IsSeq(r) /\ Len(s) \in Nat /\ Len(t) \in Nat /\ Len(r) = Len(s) + Len(t)
      /\ \A i \in 1 .. Len(s) + Len(t) : r[i] = IF i <= Len(s) THEN s[i] ELSE t[i - Len(s)]
  BY ConcatIs DEF Pulses
<1> HIDE DEF r
<1>2. ASSUME NEW i \in 1 .. Len(r) PROVE IsPulse(r[i])
  <2>1. CASE i <= Len(s)
    <3>1. i \in 1 .. Len(s) /\ r[i] = s[i]
      BY <1>1, <2>1
    <3> QED
      BY <3>1 DEF Pulses
  <2>2. CASE ~(i <= Len(s))
    <3>1. i - Len(s) \in 1 .. Len(t) /\ r[i] = t[i - Len(s)]
      BY <1>1, <2>2
    <3> QED
      BY <3>1 DEF Pulses
  <2> QED
    BY <2>1, <2>2
<1> QED
  BY <1>1, <1>2 DEF Pulses, r

LEMMA WordsJoin ==
  ASSUME NEW s, NEW t, Words(s), Words(t)
  PROVE  Words(s \o t)
<1> DEFINE r == s \o t
<1>1. /\ IsSeq(r) /\ Len(s) \in Nat /\ Len(t) \in Nat /\ Len(r) = Len(s) + Len(t)
      /\ \A i \in 1 .. Len(s) + Len(t) : r[i] = IF i <= Len(s) THEN s[i] ELSE t[i - Len(s)]
  BY ConcatIs DEF Words
<1> HIDE DEF r
<1>2. ASSUME NEW i \in 1 .. Len(r) PROVE Word(r[i])
  <2>1. CASE i <= Len(s)
    <3>1. i \in 1 .. Len(s) /\ r[i] = s[i]
      BY <1>1, <2>1
    <3> QED
      BY <3>1 DEF Words
  <2>2. CASE ~(i <= Len(s))
    <3>1. i - Len(s) \in 1 .. Len(t) /\ r[i] = t[i - Len(s)]
      BY <1>1, <2>2
    <3> QED
      BY <3>1 DEF Words
  <2> QED
    BY <2>1, <2>2
<1> QED
  BY <1>1, <1>2 DEF Words, r

LEMMA PulsesTail ==
  ASSUME NEW s, Pulses(s), s # <<>>
  PROVE  IsPulse(Head(s)) /\ Pulses(Tail(s))
<1>1. PICK S : s \in Seq(S)
  BY DEF Pulses, IsSeq
<1> DEFINE t == Tail(s)
           n == Len(s)
<1>2. n \in Nat \ {0} /\ Head(s) = s[1]
  BY <1>1
<1>3. t \in Seq(S) /\ Len(t) = n - 1 /\ \A i \in 1 .. n - 1 : t[i] = s[i + 1]
  BY <1>1, <1>2
<1>4. \A i \in 1 .. n : IsPulse(s[i])
  BY DEF Pulses
<1> HIDE DEF t, n
<1>5. IsPulse(Head(s))
  <2>1. 1 \in 1 .. n
    BY <1>2
  <2> QED
    BY <1>2, <1>4, <2>1
<1>6. Pulses(t)
  <2>1. ASSUME NEW i \in 1 .. Len(t) PROVE IsPulse(t[i])
    <3>1. i \in 1 .. n - 1 /\ i + 1 \in 1 .. n
      BY <1>2, <1>3
    <3> QED
      BY <1>3, <1>4, <3>1
  <2> QED
    BY <1>3, <2>1 DEF Pulses, IsSeq
<1> QED
  BY <1>5, <1>6 DEF t

LEMMA MovesPulse ==
  ASSUME NEW path \in Seq(BOOLEAN)
  PROVE  Pulses(move_tap(path))
<1> DEFINE s == move_tap(path)
<1>1. IsSeq(s) /\ Len(s) = Len(path) /\ \A i \in 1 .. Len(path) : Plain(s[i])
  BY MoveIs
<1> HIDE DEF s
<1> QED
  BY <1>1 DEF Pulses, Plain, s

LEMMA BitsPulse ==
  ASSUME NEW F, NEW fields \in Seq(F), NEW keep
  PROVE  Pulses(shift_bits(fields, keep))
<1> DEFINE s == shift_bits(fields, keep)
<1>1. IsSeq(s) /\ Len(s) = Len(fields) /\ \A i \in 1 .. Len(fields) : IsPulse(s[i])
  BY BitsAre
<1> HIDE DEF s
<1> QED
  BY <1>1 DEF Pulses, s

LEMMA ShiftsPulse ==
  ASSUME NEW x, NEW y, NEW z, NEW keep
  PROVE  /\ Pulses(shift_ir(x))
         /\ Pulses(shift_dr(<<x, y>>, keep))
         /\ Pulses(shift_dr(<<x, y, z>>, keep))
<1> DEFINE s == move_tap(<<TRUE, TRUE, FALSE, FALSE>>)
           no == FALSE
           t == shift_bits(<<x, 0>>, no)
           u == move_tap(<<TRUE, FALSE>>)
           v == move_tap(<<TRUE, FALSE, FALSE>>)
           p == shift_bits(<<x, y>>, keep)
           q == shift_bits(<<x, y, z>>, keep)
<1>1. /\ shift_ir(x) = s \o t \o u /\ shift_dr(<<x, y>>, keep) = v \o p \o u
      /\ shift_dr(<<x, y, z>>, keep) = v \o q \o u
  BY DEF shift_ir, shift_dr
<1>2. Pulses(s) /\ Pulses(u) /\ Pulses(v)
  <2>1. /\ <<TRUE, TRUE, FALSE, FALSE>> \in Seq(BOOLEAN) /\ <<TRUE, FALSE>> \in Seq(BOOLEAN)
        /\ <<TRUE, FALSE, FALSE>> \in Seq(BOOLEAN)
    OBVIOUS
  <2> QED
    BY <2>1, MovesPulse
<1> HIDE DEF no
<1>3. Pulses(t) /\ Pulses(p) /\ Pulses(q)
  <2> DEFINE F == {x, y, z, 0}
             a == <<x, 0>>
             b == <<x, y>>
             c == <<x, y, z>>
  <2>1. a \in Seq(F) /\ b \in Seq(F) /\ c \in Seq(F)
    OBVIOUS
  <2> HIDE DEF F, a, b, c
  <2>2. Pulses(shift_bits(a, no)) /\ Pulses(shift_bits(b, keep)) /\ Pulses(shift_bits(c, keep))
    BY <2>1, BitsPulse
  <2> QED
    BY <2>2 DEF a, b, c
<1> HIDE DEF s, t, u, v, p, q
<1>4. Pulses(s \o t) /\ Pulses(v \o p) /\ Pulses(v \o q)
  BY <1>2, <1>3, PulsesJoin
<1>5. Pulses(s \o t \o u) /\ Pulses(v \o p \o u) /\ Pulses(v \o q \o u)
  BY <1>2, <1>4, PulsesJoin
<1> QED
  BY <1>1, <1>5

LEMMA PathsPulse == Pulses(Identify) /\ Pulses(reset_path) /\ \A step : Pulses(dmi_path(step))
<1> DEFINE yes == TRUE
           no == FALSE
<1>1. Pulses(Identify)
  <2> DEFINE p == move_tap(MovesUp)
             q == shift_ir(IR_IDCODE)
             r == shift_dr(<<0, 0>>, yes)
             s == shift_ir(IR_DTMCS)
  <2>1. Identify = p \o q \o r \o s \o r
    BY DEF Identify, MovesUp
  <2>2. Pulses(p)
    <3>1. MovesUp \in Seq(BOOLEAN)
      BY DEF MovesUp
    <3> QED
      BY <3>1, MovesPulse
  <2> HIDE DEF yes
  <2>3. Pulses(q) /\ Pulses(r) /\ Pulses(s)
    BY ShiftsPulse
  <2> HIDE DEF p, q, r, s
  <2>4. Pulses(p \o q)
    BY <2>2, <2>3, PulsesJoin
  <2>5. Pulses(p \o q \o r)
    BY <2>3, <2>4, PulsesJoin
  <2>6. Pulses(p \o q \o r \o s)
    BY <2>3, <2>5, PulsesJoin
  <2>7. Pulses(p \o q \o r \o s \o r)
    BY <2>3, <2>6, PulsesJoin
  <2> QED
    BY <2>1, <2>7
<1>2. Pulses(reset_path)
  <2> DEFINE p == shift_ir(IR_DTMCS)
             q == shift_dr(<<0, 1>>, no)
  <2>1. reset_path = p \o q
    BY DEF reset_path
  <2> HIDE DEF no
  <2>2. Pulses(p) /\ Pulses(q)
    BY ShiftsPulse
  <2> HIDE DEF p, q
  <2> QED
    BY <2>1, <2>2, PulsesJoin
<1>3. ASSUME NEW step PROVE Pulses(dmi_path(step))
  <2> DEFINE p == shift_ir(IR_DMI)
             q == shift_dr(<<step.operation, step.data, step.address>>, no)
             r == idle(DMI_IDLE_CYCLES)
             s == shift_dr(<<DMI_NOP, 0, 0>>, yes)
  <2>1. dmi_path(step) = p \o q \o r \o s
    BY DEF dmi_path
  <2> HIDE DEF yes, no
  <2>2. Pulses(p) /\ Pulses(q) /\ Pulses(s)
    BY ShiftsPulse
  <2>3. Pulses(r)
    <3>1. /\ IsSeq(r) /\ Len(r) = DMI_IDLE_CYCLES
          /\ \A i \in 1 .. DMI_IDLE_CYCLES : Plain(r[i])
      BY IdleIs, DebuggerAssumption
    <3> HIDE DEF r
    <3> QED
      BY <3>1 DEF Pulses, Plain
  <2> HIDE DEF p, q, r, s
  <2>4. Pulses(p \o q)
    BY <2>2, PulsesJoin
  <2>5. Pulses(p \o q \o r)
    BY <2>3, <2>4, PulsesJoin
  <2>6. Pulses(p \o q \o r \o s)
    BY <2>2, <2>5, PulsesJoin
  <2> QED
    BY <2>1, <2>6
<1> QED
  BY <1>1, <1>2, <1>3

-----------------------------------------------------------------------------
(* What a path is for.                                                     *)

Walking == {"identify", "access", "reset"}
Afresh(s) == s # <<>> /\ Head(s).op = "initialize"
IsDriver(d) ==
  d = [call |-> d.call, steps |-> d.steps, phase |-> d.phase, path |-> d.path,
       want |-> d.want, got |-> d.got, retry |-> d.retry, polls |-> d.polls,
       data |-> d.data, error |-> d.error]

\* The access under way, and what has to be known of the hart before it.
Asks(d) == Request(Head(d.steps))
Knows(d) == Needs(d.call.op, Len(d.steps))
Pauses(g, ir) == g.tap.state = "idle" /\ g.tap.ir = ir
\* Where a path ends, with what it brings back; between calls there is none.
Goal(d, s, h, out) ==
  /\ d.phase = "identify" =>
       /\ Pauses(h, IR_DTMCS) /\ h.tap.op = None
       /\ Len(out) = 4 /\ out[1] = IDCODE /\ out[3] = DTMCS
  /\ d.phase = "access" =>
       /\ Pauses(h, IR_DMI) /\ Holds(h, Asks(d), Knows(d))
       /\ \E status, data :
            out = <<status, data, 0>> /\ Told(Asks(d), Knows(d), h, status, data)
  /\ d.phase = "reset" =>
       Pauses(h, IR_DTMCS) /\ Holds(h, Asks(d), Knows(d)) /\ out = <<>>
  /\ d.phase = "free" =>
       /\ h.tap.op = None /\ out = <<>>
       /\ h.tap.state = "idle" \/ (Afresh(s) /\ h.tap.ir = IR_IDCODE)
  /\ d.phase = "reset pin" => h.tap.op = None /\ out = <<>>
Aims(d, s, v) == \A h : Leads(d.path, v, h) => Goal(d, s, h, h.out)

AreCalls(s) == IsSeq(s) /\ \A i \in 1 .. Len(s) : IsCall(s[i])
Fields(phase) == IF phase = "identify" THEN 4 ELSE IF phase = "access" THEN 3 ELSE 0
\* A driver between calls, and one in a call.
Rests(d, s) == d.call = None /\ d.path = <<>> /\ (d.phase = "reset pin" => Afresh(s))
Works(d) ==
  /\ Job(d.call.op, d.steps) /\ d.steps # <<>> /\ d.want = Fields(d.phase)
  /\ IF d.phase = "identify" THEN Head(d.steps).kind = "identify"
     ELSE Head(d.steps).kind # "identify"
Shape(d, s) ==
  /\ IsDriver(d) /\ d.error = None /\ Pulses(d.path) /\ IsSeq(d.got) /\ AreCalls(s)
  /\ \/ d.phase \in {"free", "reset pin"} /\ Rests(d, s)
     \/ d.phase \in Walking /\ Works(d)

LEMMA AlongIs ==
  ASSUME NEW d, IsDriver(d), NEW phase, NEW path, NEW fields
  PROVE  LET e == Along(d, phase, path, fields)
         IN /\ IsDriver(e) /\ e.phase = phase /\ e.path = path /\ e.want = fields
            /\ e.got = <<>> /\ e.call = d.call /\ e.steps = d.steps /\ e.error = d.error
<1> DEFINE e == Along(d, phase, path, fields)
<1>1. e = [d EXCEPT !.phase = phase, !.path = path, !.got = <<>>, !.want = fields]
  BY DEF Along
<1> HIDE DEF e
<1>2. /\ IsDriver(e) /\ e.phase = phase /\ e.path = path /\ e.want = fields
      /\ e.got = <<>> /\ e.call = d.call /\ e.steps = d.steps /\ e.error = d.error
  BY <1>1 DEF IsDriver
<1> QED
  BY <1>2 DEF e

LEMMA EmptyIs == IsSeq(<<>>)
<1>1. <<>> \in Seq({})
  OBVIOUS
<1> QED
  BY <1>1 DEF IsSeq

\* Where the access under way may begin.
Begins(d, v) ==
  IF Head(d.steps).kind = "identify" THEN Climbing(v)
  ELSE v.tap.state = "idle" /\ Holds(v, Asks(d), Knows(d))
Sets(d) ==
  IsDriver(d) /\ d.error = None /\ Job(d.call.op, d.steps) /\ d.steps # <<>>
Turns(d, s, v) == Shape(d, s) /\ d.got = <<>> /\ Aims(d, s, v)

LEMMA TryTurns ==
  ASSUME NEW d, Sets(d), NEW s, AreCalls(s), NEW v, Ready(v), v.out = <<>>, Begins(d, v)
  PROVE  Turns(Try(d), s, v) /\ Try(d).phase # "free"
<1> DEFINE step == Head(d.steps)
<1>1. CASE step.kind = "identify"
  <2> DEFINE e == Along(d, "identify", Identify, 4)
  <2>1. Try(d) = e
    BY <1>1 DEF Try
  <2>2. /\ IsDriver(e) /\ e.phase = "identify" /\ e.path = Identify /\ e.want = 4
        /\ e.got = <<>> /\ e.call = d.call /\ e.steps = d.steps /\ e.error = d.error
    BY AlongIs DEF Sets
  <2> HIDE DEF e
  <2>3. Shape(e, s)
    <3>1. e.want = Fields(e.phase)
      BY <2>2 DEF Fields
    <3>2. Works(e)
      BY <1>1, <2>2, <3>1 DEF Works, Sets
    <3>3. Pulses(e.path) /\ IsSeq(e.got)
      BY <2>2, PathsPulse, EmptyIs
    <3> QED
      BY <2>2, <3>2, <3>3 DEF Shape, Walking, Sets
  <2>4. Aims(e, s, v)
    <3> SUFFICES ASSUME NEW h, Leads(Identify, v, h) PROVE Goal(e, s, h, h.out)
      BY <2>2 DEF Aims
    <3>1. Climbing(v)
      BY <1>1 DEF Begins
    <3>2. /\ h.tap.state = "idle" /\ h.tap.ir = IR_DTMCS /\ h.tap.op = None
          /\ Len(h.out) = 4 /\ h.out[1] = IDCODE /\ h.out[3] = DTMCS
      BY <3>1, WalkIdentify
    <3> QED
      BY <2>2, <3>2 DEF Goal, Pauses
  <2> QED
    BY <2>1, <2>2, <2>3, <2>4 DEF Turns
<1>2. CASE step.kind # "identify"
  <2> DEFINE e == Along(d, "access", dmi_path(step), 3)
             a == Asks(d)
             known == Knows(d)
  <2>1. Try(d) = e
    BY <1>2 DEF Try
  <2>2. /\ IsDriver(e) /\ e.phase = "access" /\ e.path = dmi_path(step) /\ e.want = 3
        /\ e.got = <<>> /\ e.call = d.call /\ e.steps = d.steps /\ e.error = d.error
    BY AlongIs DEF Sets
  <2> HIDE DEF e
  <2>3. Shape(e, s)
    <3>1. e.want = Fields(e.phase)
      BY <2>2 DEF Fields
    <3>2. Works(e)
      BY <1>2, <2>2, <3>1 DEF Works, Sets
    <3>3. Pulses(e.path) /\ IsSeq(e.got)
      BY <2>2, PathsPulse, EmptyIs
    <3> QED
      BY <2>2, <3>2, <3>3 DEF Shape, Walking, Sets
  <2>4. IsAccess(step) /\ Steady(a, known)
    <3>1. Fit(d.call.op, step, Len(d.steps))
      BY JobTail DEF Sets
    <3> QED
      BY <1>2, <3>1 DEF Fit, Asks, Knows
  <2>5. /\ IsRequest(a, step.operation, step.data, step.address) /\ a # None
        /\ step.operation # DMI_NOP
    <3>1. a = [operation |-> step.operation, data |-> step.data, address |-> step.address]
      BY DEF Asks, Request
    <3>2. step.operation \in Nat /\ step.operation # DMI_NOP
      BY <2>4 DEF IsAccess, DMI_READ, DMI_WRITE, DMI_NOP
    <3>3. a \in [operation : Nat, data : Nat, address : Nat]
      BY <2>4, <3>1, <3>2 DEF IsAccess
    <3> QED
      BY <3>1, <3>2, <3>3, DebuggerAssumption DEF IsRequest
  <2>6. v.tap.state = "idle" /\ Holds(v, a, known)
    BY <1>2 DEF Begins
  <2>7. Asks(e) = a /\ Knows(e) = known
    BY <2>2 DEF Asks, Knows
  <2> HIDE DEF a, known, step
  <2>8. Aims(e, s, v)
    <3> SUFFICES ASSUME NEW h, Leads(dmi_path(step), v, h) PROVE Goal(e, s, h, h.out)
      BY <2>2 DEF Aims
    <3>1. /\ h.tap.state = "idle" /\ h.tap.ir = IR_DMI /\ Holds(h, a, known)
          /\ \E status, data : h.out = <<status, data, 0>> /\ Told(a, known, h, status, data)
      BY <2>4, <2>5, <2>6, WalkAccess
    <3> QED
      BY <2>2, <2>7, <3>1 DEF Goal, Pauses
  <2> QED
    BY <2>1, <2>2, <2>3, <2>8 DEF Turns
<1> QED
  BY <1>1, <1>2

LEMMA ResetTurns ==
  ASSUME NEW d, Sets(d), Head(d.steps).kind # "identify", NEW s, AreCalls(s),
         NEW v, Ready(v), v.out = <<>>, v.tap.state = "idle", Holds(v, Asks(d), Knows(d))
  PROVE  LET e == Along(d, "reset", reset_path, 0)
         IN Turns(e, s, v) /\ e.phase # "free"
<1> DEFINE e == Along(d, "reset", reset_path, 0)
           step == Head(d.steps)
           a == Asks(d)
           known == Knows(d)
<1>1. /\ IsDriver(e) /\ e.phase = "reset" /\ e.path = reset_path /\ e.want = 0
      /\ e.got = <<>> /\ e.call = d.call /\ e.steps = d.steps /\ e.error = d.error
  BY AlongIs DEF Sets
<1> HIDE DEF e
<1>2. Shape(e, s)
  <2>1. e.want = Fields(e.phase)
    BY <1>1 DEF Fields
  <2>2. Works(e)
    BY <1>1, <2>1 DEF Works, Sets
  <2>3. Pulses(e.path) /\ IsSeq(e.got)
    BY <1>1, PathsPulse, EmptyIs
  <2> QED
    BY <1>1, <2>2, <2>3 DEF Shape, Walking, Sets
<1>3. Steady(a, known)
  <2>1. Fit(d.call.op, step, Len(d.steps))
    BY JobTail DEF Sets
  <2> QED
    BY <2>1 DEF Fit, Asks, Knows
<1>4. Asks(e) = a /\ Knows(e) = known
  BY <1>1 DEF Asks, Knows
<1> HIDE DEF a, known, step
<1>5. Aims(e, s, v)
  <2> SUFFICES ASSUME NEW h, Leads(reset_path, v, h) PROVE Goal(e, s, h, h.out)
    BY <1>1 DEF Aims
  <2>1. h.tap.state = "idle" /\ h.tap.ir = IR_DTMCS /\ h.out = <<>> /\ Goes(v, h)
    BY WalkReset
  <2>2. Holds(h, a, known)
    BY <1>3, <2>1, HoldsGoes DEF a, known
  <2> QED
    BY <1>1, <1>4, <2>1, <2>2 DEF Goal, Pauses
<1> QED
  BY <1>1, <1>2, <1>5 DEF Turns, e

LEMMA WaitsStill ==
  ASSUME NEW g, NEW h, Waits(g, h), g.tap.op = None
  PROVE  h.tap.op = None /\ h.tap.state = g.tap.state /\ h.tap.ir = g.tap.ir /\ h.out = g.out
BY DEF Waits, Keeps, Goes

LEMMA FreeTurns ==
  ASSUME NEW s, AreCalls(s), NEW v, v.out = <<>>, v.tap.state = "idle", v.tap.op = None
  PROVE  Turns(Free, s, v)
<1> DEFINE e == Free
<1>1. /\ IsDriver(e) /\ e.phase = "free" /\ e.path = <<>> /\ e.got = <<>> /\ e.call = None
      /\ e.error = None
  BY DEF Free, IsDriver
<1> HIDE DEF e
<1>2. Shape(e, s)
  <2>1. Pulses(e.path) /\ IsSeq(e.got)
    <3>1. IsSeq(<<>>) /\ Len(<<>>) = 0
      BY EmptyIs
    <3> QED
      BY <1>1, <3>1 DEF Pulses
  <2>2. Rests(e, s)
    BY <1>1 DEF Rests
  <2> QED
    BY <1>1, <2>1, <2>2 DEF Shape
<1>3. Aims(e, s, v)
  <2> SUFFICES ASSUME NEW h, Leads(<<>>, v, h) PROVE Goal(e, s, h, h.out)
    BY <1>1 DEF Aims
  <2>1. h.tap.op = None /\ h.tap.state = "idle" /\ h.out = <<>>
    BY LeadsNone, WaitsStill
  <2> QED
    BY <1>1, <2>1 DEF Goal
<1> QED
  BY <1>1, <1>2, <1>3 DEF Turns, e

-----------------------------------------------------------------------------
(* A step of the driver, from a point v where its path has ended.          *)

Sane(d) ==
  /\ IsDriver(d) /\ d.error \in {None, "busy", "bus", "timed out"}
  /\ d.phase = "free" /\ d.error = None => d.call = None
Reached(d, s, v) ==
  Ready(v) /\ v.out = <<>> /\ Goal(d, s, v, d.got)
Leaves(v) ==
  drv.call # None /\ drv'.phase = "free" /\ drv'.error = None
    => Needs(drv.call.op, 0) \subseteq v.facts
Driven(v) == Sane(drv') /\ (Ended' \/ Turns(drv', session', v)) /\ Leaves(v)

LEMMA TurnsSane ==
  ASSUME NEW d, NEW s, NEW v, Turns(d, s, v)
  PROVE  Sane(d)
BY DEF Turns, Shape, Sane, Rests, Walking

LEMMA TryDrives ==
  ASSUME NEW d, Sets(d), AreCalls(session'), NEW v, Ready(v), v.out = <<>>, Begins(d, v),
         drv' = Try(d)
  PROVE  Driven(v)
<1>1. Turns(drv', session', v) /\ drv'.phase # "free"
  BY TryTurns
<1> QED
  BY <1>1, TurnsSane DEF Driven, Leaves

LEMMA ThrowDrives ==
  ASSUME NEW what \in {"busy", "bus", "timed out"}, Throw(what)
  PROVE  \A v : Driven(v)
<1> DEFINE c == drv.call
           e == [Free EXCEPT !.error = what, !.call = c]
<1>1. drv' = e
  BY DEF Throw
<1>2. IsDriver(e) /\ e.phase = "free" /\ e.error = what
  <2> DEFINE f == Free
  <2>1. IsDriver(f) /\ f.phase = "free"
    BY DEF Free, IsDriver
  <2>2. e = [f EXCEPT !.error = what, !.call = c]
    OBVIOUS
  <2> HIDE DEF f, c, e
  <2> QED
    BY <2>1, <2>2 DEF IsDriver
<1>3. what # None
  BY DebuggerAssumption
<1> HIDE DEF e
<1>4. Sane(drv') /\ Ended' /\ drv'.error # None
  BY <1>1, <1>2, <1>3 DEF Sane, Ended
<1> QED
  BY <1>4 DEF Driven, Leaves

LEMMA ProceedDrives ==
  ASSUME NEW d, Sets(d), d.call = drv.call, session' = session, AreCalls(session),
         NEW v, Ready(v), v.out = <<>>, v.tap.state = "idle", v.tap.op = None,
         Needs(d.call.op, Len(d.steps) - 1) \subseteq v.facts, Proceed(d)
  PROVE  Driven(v)
<1> DEFINE t == Tail(d.steps)
           e == [d EXCEPT !.steps = t, !.retry = 0, !.polls = 0]
           op == d.call.op
<1>1. IF e.steps = <<>> THEN drv' = Free ELSE drv' = Try(e)
  BY DEF Proceed
<1>2. /\ Job(op, t) /\ Len(t) = Len(d.steps) - 1
  BY JobTail DEF Sets
<1> HIDE DEF t, op
<1>3. IsDriver(e) /\ e.steps = t /\ e.call = d.call /\ e.error = d.error
  <2>1. e = [d EXCEPT !.steps = t, !.retry = 0, !.polls = 0] /\ IsDriver(d)
    BY DEF Sets
  <2> HIDE DEF e
  <2> QED
    BY <2>1 DEF IsDriver
<1> HIDE DEF e
<1>4. CASE t = <<>>
  <2>1. drv' = Free
    BY <1>1, <1>3, <1>4
  <2>2. Turns(drv', session', v)
    BY <2>1, FreeTurns
  <2>3. Leaves(v)
    <3>1. Len(t) = 0
      BY <1>4
    <3> QED
      BY <1>2, <3>1 DEF Leaves, op
  <2> QED
    BY <2>2, <2>3, TurnsSane DEF Driven
<1>5. CASE t # <<>>
  <2>1. drv' = Try(e)
    BY <1>1, <1>3, <1>5
  <2>2. Sets(e)
    BY <1>2, <1>3, <1>5 DEF Sets, op
  <2>3. Begins(e, v)
    <3>1. Climbing(v)
      BY DEF Climbing, Within
    <3>2. Holds(v, Asks(e), Knows(e))
      BY <1>2, <1>3 DEF Holds, Knows, op
    <3> QED
      BY <3>1, <3>2 DEF Begins
  <2> QED
    BY <2>1, <2>2, <2>3, TryDrives
<1> QED
  BY <1>4, <1>5

LEMMA CallsTail ==
  ASSUME NEW s, AreCalls(s), s # <<>>
  PROVE  IsCall(Head(s)) /\ AreCalls(Tail(s))
<1>1. PICK S : s \in Seq(S)
  BY DEF AreCalls, IsSeq
<1> DEFINE t == Tail(s)
           n == Len(s)
<1>2. n \in Nat \ {0} /\ Head(s) = s[1]
  BY <1>1
<1>3. t \in Seq(S) /\ Len(t) = n - 1 /\ \A i \in 1 .. n - 1 : t[i] = s[i + 1]
  BY <1>1, <1>2
<1>4. \A i \in 1 .. n : IsCall(s[i])
  BY DEF AreCalls
<1> HIDE DEF t, n
<1>5. IsCall(Head(s))
  <2>1. 1 \in 1 .. n
    BY <1>2
  <2> QED
    BY <1>2, <1>4, <2>1
<1>6. AreCalls(t)
  <2>1. ASSUME NEW i \in 1 .. Len(t) PROVE IsCall(t[i])
    <3>1. i \in 1 .. n - 1 /\ i + 1 \in 1 .. n
      BY <1>2, <1>3
    <3> QED
      BY <1>3, <1>4, <3>1
  <2> QED
    BY <1>3, <2>1 DEF AreCalls, IsSeq
<1> QED
  BY <1>5, <1>6 DEF t

LEMMA InitializeHead == Head(initialize).kind = "identify"
<1> DEFINE p == [kind |-> "identify"]
           q == dmi_write(DMCONTROL, DM_ACTIVE)
           r == dmi_read("supported", SBCS)
<1>1. p.kind = "identify"
  OBVIOUS
<1> HIDE DEF p, q, r
<1>2. Head(<<p, q, r>>) = p
  OBVIOUS
<1>3. initialize = <<p, q, r>>
  BY DEF initialize, p, q, r
<1> QED
  BY <1>1, <1>2, <1>3

LEMMA CallDrives ==
  ASSUME Shape(drv, session), NEW v, Reached(drv, session, v), Call
  PROVE  Driven(v)
<1> DEFINE c == Head(session)
           l == Steps(c)
           d == [Free EXCEPT !.call = c, !.steps = l]
<1>1. drv.phase = "free" /\ session # <<>> /\ session' = Tail(session)
      /\ (IF l = <<>> THEN drv' = Free ELSE drv' = Try(d))
  BY DEF Call
<1>2. IsCall(c) /\ AreCalls(session') /\ drv.call = None
  BY <1>1, CallsTail DEF Shape, Rests, Walking
<1>3. l # <<>> => Job(c.op, l) /\ Needs(c.op, Len(l)) = {}
  BY <1>2, CallJob
<1>4. c.op = "initialize" => l # <<>> /\ Head(l).kind = "identify"
  BY InitializeHead, JobInitialize DEF Steps
<1>5. IsDriver(d) /\ d.call = c /\ d.steps = l /\ d.error = None
  <2> DEFINE f == Free
  <2>1. IsDriver(f) /\ f.error = None
    BY DEF Free, IsDriver
  <2>2. d = [f EXCEPT !.call = c, !.steps = l]
    OBVIOUS
  <2> HIDE DEF f, c, l, d
  <2> QED
    BY <2>1, <2>2 DEF IsDriver
<1>6. /\ v.tap.op = None
      /\ v.tap.state = "idle" \/ (c.op = "initialize" /\ v.tap.ir = IR_IDCODE)
  BY <1>1 DEF Reached, Goal, Afresh
<1> HIDE DEF c, l, d
<1>7. CASE l = <<>>
  <2>1. drv' = Free
    BY <1>1, <1>7
  <2>2. v.out = <<>> /\ v.tap.state = "idle" /\ v.tap.op = None
    BY <1>4, <1>6, <1>7 DEF Reached
  <2>3. Turns(drv', session', v)
    BY <1>2, <2>1, <2>2, FreeTurns
  <2>4. Leaves(v)
    BY <1>2 DEF Leaves
  <2> QED
    BY <2>3, <2>4, TurnsSane DEF Driven
<1>8. SUFFICES ASSUME l # <<>> PROVE Driven(v)
  BY <1>7
<1>9. Sets(d)
  BY <1>3, <1>5, <1>8 DEF Sets
<1>10. Begins(d, v)
  <2>1. Climbing(v)
    BY <1>6 DEF Climbing, Reached, Within
  <2>2. CASE Head(l).kind = "identify"
    BY <1>5, <2>1, <2>2 DEF Begins
  <2>3. CASE Head(l).kind # "identify"
    <3>1. Holds(v, Asks(d), Knows(d))
      BY <1>3, <1>5, <1>6, <1>8 DEF Holds, Knows
    <3>2. v.tap.state = "idle"
      BY <1>4, <1>6, <2>3
    <3> QED
      BY <1>5, <2>3, <3>1, <3>2 DEF Begins
  <2> QED
    BY <2>2, <2>3
<1> QED
  BY <1>1, <1>2, <1>9, <1>10, <1>8, TryDrives DEF Reached

LEMMA WorksSets ==
  ASSUME Shape(drv, session), drv.phase \in Walking
  PROVE  Sets(drv) /\ Works(drv) /\ AreCalls(session)
BY DEF Shape, Walking, Works, Sets

LEMMA IdentifiedDrives ==
  ASSUME Shape(drv, session), NEW v, Reached(drv, session, v), Identified
  PROVE  Driven(v)
<1>1. drv.phase = "identify" /\ session' = session
  BY DEF Identified, Walked
<1>2. /\ v.tap.state = "idle" /\ v.tap.op = None
      /\ drv.got[1] = IDCODE /\ drv.got[3] = DTMCS
  BY <1>1 DEF Reached, Goal, Pauses
<1>3. Proceed(drv)
  BY <1>2 DEF Identified
<1>4. Sets(drv) /\ Works(drv) /\ AreCalls(session)
  BY <1>1, WorksSets DEF Walking
<1>5. Needs(drv.call.op, Len(drv.steps) - 1) \subseteq v.facts
  <2>1. Fit(drv.call.op, Head(drv.steps), Len(drv.steps))
    BY <1>4, JobTail DEF Sets
  <2> QED
    BY <1>1, <1>4, <2>1 DEF Works, Fit, IsAccess
<1> QED
  BY <1>1, <1>2, <1>3, <1>4, <1>5, ProceedDrives DEF Reached

\* An access tried again, and one that brings bytes.
LEMMA AgainDrives ==
  ASSUME Sets(drv), session' = session, AreCalls(session),
         NEW v, Ready(v), v.out = <<>>, Begins(drv, v), Again(drv)
  PROVE  Driven(v)
<1> DEFINE n == drv.polls + 1
           e == [drv EXCEPT !.polls = n, !.retry = 0]
<1>1. drv' = Try(e) \/ Throw("timed out")
  BY DEF Again
<1>2. CASE Throw("timed out")
  BY <1>2, ThrowDrives
<1>3. CASE drv' = Try(e)
  <2> HIDE DEF n
  <2>1. IsDriver(e) /\ e.steps = drv.steps /\ e.call = drv.call /\ e.error = drv.error
    <3>1. e = [drv EXCEPT !.polls = n, !.retry = 0] /\ IsDriver(drv)
      BY DEF Sets
    <3> HIDE DEF e
    <3> QED
      BY <3>1 DEF IsDriver
  <2> HIDE DEF e
  <2>2. Sets(e) /\ Begins(e, v)
    BY <2>1 DEF Sets, Begins, Asks, Knows
  <2> QED
    BY <1>3, <2>2, TryDrives
<1> QED
  BY <1>1, <1>2, <1>3

LEMMA MoreDrives ==
  ASSUME Sets(drv), session' = session, AreCalls(session),
         NEW v, Ready(v), v.out = <<>>, v.tap.state = "idle", v.tap.op = None,
         Needs(drv.call.op, Len(drv.steps) - 1) \subseteq v.facts,
         NEW data, Proceed([drv EXCEPT !.data = data])
  PROVE  Driven(v)
<1> DEFINE e == [drv EXCEPT !.data = data]
<1>1. Proceed(e) /\ IsDriver(drv)
  BY DEF Sets
<1> HIDE DEF e
<1>2. IsDriver(e) /\ e.steps = drv.steps /\ e.call = drv.call /\ e.error = drv.error
  BY <1>1 DEF IsDriver, e
<1>3. Sets(e)
  BY <1>2 DEF Sets
<1> QED
  BY <1>1, <1>2, <1>3, ProceedDrives

LEMMA TriedDrives ==
  ASSUME Sets(drv), session' = session, AreCalls(session),
         NEW v, Ready(v), v.out = <<>>, Begins(drv, v), reset_dmi
  PROVE  Driven(v)
<1> DEFINE n == drv.retry + 1
           e == [drv EXCEPT !.retry = n]
<1>1. drv' = Try(e) \/ Throw("busy")
  BY DEF reset_dmi
<1>2. CASE Throw("busy")
  BY <1>2, ThrowDrives
<1>3. CASE drv' = Try(e)
  <2> HIDE DEF n
  <2>1. IsDriver(e) /\ e.steps = drv.steps /\ e.call = drv.call /\ e.error = drv.error
    <3>1. e = [drv EXCEPT !.retry = n] /\ IsDriver(drv)
      BY DEF Sets
    <3> HIDE DEF e
    <3> QED
      BY <3>1 DEF IsDriver
  <2> HIDE DEF e
  <2>2. Sets(e) /\ Begins(e, v)
    BY <2>1 DEF Sets, Begins, Asks, Knows
  <2> QED
    BY <1>3, <2>2, TryDrives
<1> QED
  BY <1>1, <1>2, <1>3

LEMMA ResetDrives ==
  ASSUME Shape(drv, session), NEW v, Reached(drv, session, v), reset_dmi
  PROVE  Driven(v)
<1>1. drv.phase = "reset" /\ session' = session
  BY DEF reset_dmi, Walked
<1>2. v.tap.state = "idle" /\ Holds(v, Asks(drv), Knows(drv))
  BY <1>1 DEF Reached, Goal, Pauses
<1>3. Sets(drv) /\ Works(drv) /\ AreCalls(session)
  BY <1>1, WorksSets DEF Walking
<1>4. Begins(drv, v)
  BY <1>1, <1>2, <1>3 DEF Begins, Works
<1> QED
  BY <1>1, <1>3, <1>4, TriedDrives DEF Reached

LEMMA AccessDrives ==
  ASSUME Shape(drv, session), NEW v, Reached(drv, session, v), dmi_access
  PROVE  Driven(v)
<1> DEFINE step == Head(drv.steps)
           a == Asks(drv)
           known == Knows(drv)
           op == drv.call.op
           n == Len(drv.steps)
           status == drv.got[1]
           data == drv.got[2]
<1>1. drv.phase = "access" /\ session' = session
  BY DEF dmi_access, Walked
<1>2. /\ v.tap.state = "idle" /\ Holds(v, a, known) /\ Ready(v) /\ v.out = <<>>
      /\ Told(a, known, v, status, data)
  <2>1. PICK x, y : drv.got = <<x, y, 0>> /\ Told(a, known, v, x, y)
    BY <1>1 DEF Reached, Goal
  <2>2. status = x /\ data = y
    BY <2>1
  <2>3. v.tap.state = "idle" /\ Holds(v, a, known)
    BY <1>1 DEF Reached, Goal, Pauses
  <2> HIDE DEF a, known, status, data
  <2> QED
    BY <2>1, <2>2, <2>3 DEF Reached
<1>3. Sets(drv) /\ AreCalls(session) /\ step.kind # "identify"
  BY <1>1, WorksSets DEF Walking, Works
<1>4. IsAccess(step) /\ Gives(op, step, n)
  <2>1. Fit(op, step, n)
    BY <1>3, JobTail DEF Sets
  <2> QED
    BY <1>3, <2>1 DEF Fit
<1>5. Begins(drv, v)
  BY <1>2, <1>3 DEF Begins
<1>6. CASE status = DMI_BUSY /\ drv' = Along(drv, "reset", reset_path, 0)
  <2> DEFINE e == Along(drv, "reset", reset_path, 0)
  <2>1. Turns(e, session, v) /\ e.phase # "free"
    BY <1>2, <1>3, ResetTurns
  <2> HIDE DEF e
  <2>2. drv' = e
    BY <1>6 DEF e
  <2> QED
    BY <1>1, <2>1, <2>2, TurnsSane DEF Driven, Leaves
<1>7. status \in {DMI_SUCCESS, DMI_BUSY}
  BY <1>2 DEF Told
<1>8. CASE status = DMI_SUCCESS
  <2>1. v.tap.op = None /\ Answered(a, known, v.facts, data)
    BY <1>2, <1>8 DEF Told, DMI_SUCCESS, DMI_BUSY
  <2>2. PICK x : known \subseteq x /\ Served(a, x, v.facts, data)
    BY <2>1 DEF Answered
  <2>3. (step.kind = "dmstatus" => Flag(data, step.mask)) => Needs(op, n - 1) \subseteq v.facts
    <3> HIDE DEF step, op, n, data
    <3>1. known = Needs(op, n) /\ a = Request(step)
      BY DEF Knows, Asks, op, n, step
    <3> HIDE DEF known, a
    <3> QED
      BY <1>4, <2>2, <3>1 DEF Gives
  <2>4. step.kind = "supported" => Flag(data, SBA_SUPPORTED)
    <3>1. a.operation = step.operation /\ a.address = step.address
      BY DEF Asks, Request
    <3> QED
      BY <1>4, <2>2, <3>1 DEF IsAccess, Served
  <2>5. Again(drv) => Driven(v)
    BY <1>1, <1>2, <1>3, <1>5, AgainDrives
  <2>6. Needs(op, n - 1) \subseteq v.facts /\ Proceed(drv) => Driven(v)
    BY <1>1, <1>2, <1>3, <2>1, ProceedDrives
  <2>7. ASSUME NEW bytes, Needs(op, n - 1) \subseteq v.facts,
               Proceed([drv EXCEPT !.data = drv.data \o bytes])
        PROVE  Driven(v)
    BY <1>1, <1>2, <1>3, <2>1, <2>7, MoreDrives
  <2>8. Throw("bus") => Driven(v)
    BY ThrowDrives
  <2> DEFINE More(bytes) ==
        step.kind # "dmstatus" /\ Proceed([drv EXCEPT !.data = drv.data \o bytes])
  <2>9. \/ step.kind = "write" /\ Proceed(drv)
        \/ \E bytes : More(bytes)
        \/ step.kind = "supported" /\ (Proceed(drv) \/ ~Flag(data, SBA_SUPPORTED))
        \/ step.kind = "sba" /\ (Again(drv) \/ Throw("bus") \/ Proceed(drv))
        \/ step.kind = "dmstatus" /\ ((Flag(data, step.mask) /\ Proceed(drv)) \/ Again(drv))
    <3>1. status # DMI_BUSY
      BY <1>8 DEF DMI_SUCCESS, DMI_BUSY
    <3>2. /\ \/ step.kind = "write" /\ Proceed(drv)
             \/ step.kind = "word" /\ Proceed([drv EXCEPT !.data = drv.data \o Unpack(data)])
             \/ step.kind = "byte" /\ Proceed([drv EXCEPT !.data = drv.data \o <<data % 16>>])
             \/ /\ step.kind = "supported"
                /\ IF Flag(data, SBA_SUPPORTED) THEN Proceed(drv) ELSE Throw("SBA")
             \/ /\ step.kind = "sba"
                /\ IF Flag(data, SBA_BUSY) THEN Again(drv)
                   ELSE IF Flag(data, SBA_BUSY_ERROR) \/ Flag(data, SBA_ERROR)
                   THEN Throw("bus") ELSE Proceed(drv)
             \/ /\ step.kind = "dmstatus"
                /\ IF Flag(data, step.mask) THEN Proceed(drv) ELSE Again(drv)
      BY <1>8, <3>1, Zenon DEF dmi_access
    <3> HIDE DEF step, data
    <3>3. (step.kind = "word" \/ step.kind = "byte") => step.kind # "dmstatus"
      OBVIOUS
    <3>4. /\ step.kind = "word" /\ Proceed([drv EXCEPT !.data = drv.data \o Unpack(data)])
               => More(Unpack(data))
          /\ step.kind = "byte" /\ Proceed([drv EXCEPT !.data = drv.data \o <<data % 16>>])
               => More(<<data % 16>>)
      BY <3>3, Zenon
    <3> HIDE DEF More
    <3> QED
      BY <3>2, <3>3, <3>4, Zenon
  <2>10. ASSUME NEW bytes, More(bytes) PROVE Driven(v)
    BY <2>3, <2>7, <2>10
  <2> HIDE DEF step, op, n, data, a, known, status, More
  <2> QED
    BY <2>3, <2>4, <2>5, <2>6, <2>8, <2>9, <2>10
<1> QED
  BY <1>6, <1>7, <1>8 DEF dmi_access

-----------------------------------------------------------------------------
(* The debug module at work is a wait.                                     *)

IsDm(m) ==
  /\ m = [hart |-> m.hart, haltreq |-> m.haltreq, resumereq |-> m.resumereq,
          resumeack |-> m.resumeack, control |-> m.control, sbaddress |-> m.sbaddress,
          sbdata |-> m.sbdata, sba |-> m.sba, busyerror |-> m.busyerror, error |-> m.error]
  /\ m.hart \in {"running", "halted"}
  /\ m.haltreq \in BOOLEAN /\ m.resumereq \in BOOLEAN /\ m.resumeack \in BOOLEAN
  /\ m.busyerror \in BOOLEAN /\ m.error \in BOOLEAN
\* The same hart.
SameHart(m, n) == n.hart = m.hart /\ n.haltreq = m.haltreq /\ n.resumereq = m.resumereq

LEMMA SameFacts ==
  ASSUME NEW m, NEW n, SameHart(m, n)
  PROVE  Facts(n) = Facts(m)
BY DEF SameHart, Facts

LEMMA FactsAre ==
  ASSUME NEW m
  PROVE  /\ "halting" \in Facts(m) <=> ~m.resumereq /\ (m.haltreq \/ m.hart = "halted")
         /\ "halted" \in Facts(m) <=> ~m.resumereq /\ m.hart = "halted"
         /\ "released" \in Facts(m) <=> ~m.haltreq
         /\ "running" \in Facts(m) <=> ~m.haltreq /\ m.hart = "running"
         /\ Facts(m) \subseteq {"halting", "halted", "released", "running"}
BY DEF Facts

LEMMA ControlIs ==
  ASSUME NEW m, IsDm(m), NEW v
  PROVE  LET n == RegisterWrite(m, DMCONTROL, v)
         IN /\ IsDm(n)
            /\ v = DM_RESET => n.hart = "running" /\ n.haltreq = FALSE
            /\ v # DM_RESET => n.hart = m.hart
            /\ v = DM_HALTREQ => n.haltreq = TRUE /\ n.resumereq = FALSE
            /\ v = DM_ACTIVE => n.haltreq = FALSE /\ n.resumereq = FALSE
<1> DEFINE n == RegisterWrite(m, DMCONTROL, v)
<1>1. CASE v = DM_RESET
  <2>1. n = [m EXCEPT !.hart = "running", !.haltreq = FALSE, !.resumereq = FALSE]
    BY <1>1 DEF RegisterWrite, DMCONTROL, SBCS, SBADDRESS0, SBDATA0
  <2> HIDE DEF n
  <2>2. IsDm(n) /\ n.hart = "running" /\ n.haltreq = FALSE
    BY <2>1 DEF IsDm
  <2> QED
    BY <1>1, <2>2 DEF n, DM_RESET, DM_HALTREQ, DM_ACTIVE
<1>2. CASE v # DM_RESET
  <2> DEFINE x == (v = DM_HALTREQ)
             y == (v = DM_RESUMEREQ /\ m.hart = "halted")
             z == (m.resumeack /\ v # DM_RESUMEREQ)
  <2>1. n = [m EXCEPT !.haltreq = x, !.resumereq = y, !.resumeack = z]
    BY <1>2 DEF RegisterWrite, DMCONTROL, SBCS, SBADDRESS0, SBDATA0
  <2>2. x \in BOOLEAN /\ y \in BOOLEAN /\ z \in BOOLEAN
    OBVIOUS
  <2> HIDE DEF n, x, y, z
  <2>3. IsDm(n) /\ n.hart = m.hart /\ n.haltreq = x /\ n.resumereq = y
    BY <2>1, <2>2 DEF IsDm
  <2>4. v = DM_HALTREQ => x = TRUE /\ y = FALSE
    BY DEF x, y, DM_HALTREQ, DM_RESUMEREQ
  <2>5. v = DM_ACTIVE => x = FALSE /\ y = FALSE
    BY DEF x, y, DM_HALTREQ, DM_RESUMEREQ, DM_ACTIVE
  <2> QED
    BY <1>2, <2>3, <2>4, <2>5 DEF n
<1> QED
  BY <1>1, <1>2

LEMMA OthersAre ==
  ASSUME NEW m, IsDm(m), NEW register, register # DMCONTROL, NEW v
  PROVE  LET n == RegisterWrite(m, register, v) IN IsDm(n) /\ SameHart(m, n)
<1> DEFINE n == RegisterWrite(m, register, v)
<1>1. ASSUME NEW e, IsDm(e), SameHart(m, e), NEW op
      PROVE  IsDm(Access(e, op)) /\ SameHart(m, Access(e, op))
  <2> DEFINE f == Access(e, op)
  <2>1. f = e \/ f = [e EXCEPT !.sba = op]
    BY DEF Access
  <2> HIDE DEF f
  <2> QED
    BY <1>1, <2>1 DEF IsDm, SameHart, f
<1>2. CASE m.sba # None
  <2>1. n = [m EXCEPT !.busyerror = TRUE]
    BY <1>2 DEF RegisterWrite, DMCONTROL, SBCS, SBADDRESS0, SBDATA0
  <2> HIDE DEF n
  <2> QED
    BY <2>1 DEF IsDm, SameHart, n
<1>3. CASE m.sba = None /\ register = SBCS
  <2>1. n = [m EXCEPT !.control = v]
    BY <1>3 DEF RegisterWrite, DMCONTROL, SBCS, SBADDRESS0, SBDATA0
  <2> HIDE DEF n
  <2> QED
    BY <2>1 DEF IsDm, SameHart, n
<1>4. CASE m.sba = None /\ register = SBADDRESS0
  <2> DEFINE e == [m EXCEPT !.sbaddress = v]
  <2>1. n = Access(e, "read") \/ n = e
    BY <1>4 DEF RegisterWrite, DMCONTROL, SBCS, SBADDRESS0, SBDATA0
  <2>2. IsDm(e) /\ SameHart(m, e)
    BY DEF IsDm, SameHart
  <2> HIDE DEF n, e
  <2> QED
    BY <1>1, <2>1, <2>2 DEF n
<1>5. CASE m.sba = None /\ register = SBDATA0
  <2> DEFINE e == [m EXCEPT !.sbdata = v]
  <2>1. n = Access(e, "write")
    BY <1>5 DEF RegisterWrite, DMCONTROL, SBCS, SBADDRESS0, SBDATA0
  <2>2. IsDm(e) /\ SameHart(m, e)
    BY DEF IsDm, SameHart
  <2> HIDE DEF n, e
  <2> QED
    BY <1>1, <2>1, <2>2 DEF n
<1>6. CASE m.sba = None /\ register \notin {SBCS, SBADDRESS0, SBDATA0}
  <2>1. n = m
    BY <1>6 DEF RegisterWrite, DMCONTROL, SBCS, SBADDRESS0, SBDATA0
  <2> QED
    BY <2>1 DEF SameHart
<1> QED
  BY <1>2, <1>3, <1>4, <1>5, <1>6

LEMMA FlagsAre ==
  ASSUME NEW m, IsDm(m)
  PROVE  /\ Flag(Sbcs(m), SBA_SUPPORTED)
         /\ Flag(Status(m), DM_ANYHALTED) => m.hart = "halted"
         /\ Flag(Status(m), DM_ANYRUNNING) => m.hart = "running"
<1>1. Flag(Sbcs(m), SBA_SUPPORTED)
  <2> DEFINE x == IF m.sba # None THEN SBA_BUSY ELSE 0
             y == IF m.busyerror THEN SBA_BUSY_ERROR ELSE 0
             z == IF m.error THEN SBA_ERROR ELSE 0
  <2>1. x \in 0 .. 1 /\ y \in 0 .. 2 /\ z \in 0 .. 4
    BY DEF SBA_BUSY, SBA_BUSY_ERROR, SBA_ERROR
  <2>2. Sbcs(m) = 8 + x + y + z
    BY DEF Sbcs, SBA_SUPPORTED
  <2> HIDE DEF x, y, z
  <2>3. (8 + x + y + z) \div 8 = 1
    BY <2>1
  <2> QED
    BY <2>2, <2>3 DEF Flag, SBA_SUPPORTED
<1>2. m.hart = "running" => Status(m) \in {2, 6}
  BY DEF Status, DM_ANYRUNNING, DM_ANYRESUMEACK
<1>3. m.hart = "halted" => Status(m) \in {1, 5}
  BY DEF Status, DM_ANYHALTED, DM_ANYRESUMEACK
<1>4. \A n \in {2, 6} : ~Flag(n, 1)
  BY DEF Flag
<1>5. \A n \in {1, 5} : ~Flag(n, 2)
  BY DEF Flag
<1>6. m.hart = "running" \/ m.hart = "halted"
  BY DEF IsDm
<1> QED
  BY <1>1, <1>2, <1>3, <1>4, <1>5, <1>6 DEF DM_ANYHALTED, DM_ANYRUNNING

\* What a request leaves of the facts.
LEMMA ReadServes ==
  ASSUME NEW m, IsDm(m), NEW op, op.operation = DMI_READ, NEW n, SameHart(m, n)
  PROVE  Served(op, Facts(m), Facts(n), RegisterRead(m, op.address))
<1> DEFINE v == RegisterRead(m, op.address)
           x == Facts(m)
<1>1. Facts(n) = x
  BY SameFacts
<1>2. op.operation # DMI_WRITE
  BY DEF DMI_READ, DMI_WRITE
<1>3. op.address = SBCS => Flag(v, SBA_SUPPORTED)
  <2>1. op.address = SBCS => v = Sbcs(m)
    BY DEF RegisterRead, SBCS, DMSTATUS, SBDATA0
  <2>2. Flag(Sbcs(m), SBA_SUPPORTED)
    BY FlagsAre
  <2> HIDE DEF v
  <2> QED
    BY <2>1, <2>2
<1>4. op.address = DMSTATUS =>
        /\ Flag(v, DM_ANYHALTED) => m.hart = "halted"
        /\ Flag(v, DM_ANYRUNNING) => m.hart = "running"
  <2>1. op.address = DMSTATUS => v = Status(m)
    BY DEF RegisterRead, SBCS, DMSTATUS, SBDATA0
  <2>2. /\ Flag(Status(m), DM_ANYHALTED) => m.hart = "halted"
        /\ Flag(Status(m), DM_ANYRUNNING) => m.hart = "running"
    BY FlagsAre
  <2> HIDE DEF v
  <2> QED
    BY <2>1, <2>2
<1>5. m.hart = "halted" /\ "halting" \in x => "halted" \in x
  BY FactsAre
<1>6. m.hart = "running" /\ "released" \in x => "running" \in x
  BY FactsAre
<1> HIDE DEF x, v
<1> QED
  BY <1>1, <1>2, <1>3, <1>4, <1>5, <1>6 DEF Served, x, v

LEMMA WriteServes ==
  ASSUME NEW m, IsDm(m), NEW op, op.operation # DMI_READ, NEW v
  PROVE  LET n == RegisterWrite(m, op.address, op.data)
         IN IsDm(n) /\ Served(op, Facts(m), Facts(n), v)
<1> DEFINE n == RegisterWrite(m, op.address, op.data)
           x == Facts(m)
           y == Facts(n)
<1>1. CASE op.address # DMCONTROL
  <2>1. IsDm(n)
    BY <1>1, OthersAre
  <2> QED
    BY <1>1, <2>1 DEF Served
<1>2. CASE op.address = DMCONTROL
  <2>1. /\ IsDm(n)
        /\ op.data = DM_RESET => n.hart = "running" /\ n.haltreq = FALSE
        /\ op.data # DM_RESET => n.hart = m.hart
        /\ op.data = DM_HALTREQ => n.haltreq = TRUE /\ n.resumereq = FALSE
        /\ op.data = DM_ACTIVE => n.haltreq = FALSE /\ n.resumereq = FALSE
    <3> DEFINE w == op.data
               k == RegisterWrite(m, DMCONTROL, w)
    <3>1. n = k
      BY <1>2
    <3> HIDE DEF w, n
    <3>2. /\ IsDm(k)
          /\ w = DM_RESET => k.hart = "running" /\ k.haltreq = FALSE
          /\ w # DM_RESET => k.hart = m.hart
          /\ w = DM_HALTREQ => k.haltreq = TRUE /\ k.resumereq = FALSE
          /\ w = DM_ACTIVE => k.haltreq = FALSE /\ k.resumereq = FALSE
      BY ControlIs
    <3> HIDE DEF k
    <3> QED
      BY <3>1, <3>2 DEF w
  <2> HIDE DEF n
  <2>2. op.data = DM_HALTREQ => "halting" \in y
    BY <2>1 DEF y, Facts
  <2>3. op.data = DM_RESET => {"running", "released"} \subseteq y
    BY <2>1 DEF y, Facts
  <2>4. op.data = DM_ACTIVE => "released" \in y /\ x \cap {"halted", "running"} \subseteq y
    <3> SUFFICES ASSUME op.data = DM_ACTIVE
                 PROVE  "released" \in y /\ x \cap {"halted", "running"} \subseteq y
      OBVIOUS
    <3>1. n.hart = m.hart /\ n.haltreq = FALSE /\ n.resumereq = FALSE
      BY <2>1 DEF DM_ACTIVE, DM_RESET
    <3>2. "released" \in y
      BY <3>1 DEF Facts
    <3>3. "halted" \in x => "halted" \in y
      BY <3>1 DEF Facts
    <3>4. "running" \in x => "running" \in y
      BY <3>1 DEF Facts
    <3> QED
      BY <3>2, <3>3, <3>4
  <2> HIDE DEF x, y
  <2> QED
    BY <2>1, <2>2, <2>3, <2>4 DEF Served, x, y, n
<1> QED
  BY <1>1, <1>2

LEMMA PortMoves ==
  ASSUME IsDm(dm), IsTap(tap), DebugNext
  PROVE  /\ IsDm(dm') /\ IsTap(tap')
         /\ tap'.state = tap.state /\ tap'.ir = tap.ir /\ tap'.shift = tap.shift
         /\ tap'.sticky = tap.sticky
         /\ \/ tap' = tap /\ Facts(dm) \subseteq Facts(dm')
            \/ /\ tap.op # None /\ tap'.op = None
               /\ Served(tap.op, Facts(dm), Facts(dm'), tap'.data)
<1>1. CASE DmiFinish
  <2> DEFINE o == tap.op
             v == IF o.operation = DMI_READ THEN RegisterRead(dm, o.address) ELSE o.data
             n == RegisterWrite(dm, o.address, o.data)
  <2>1. /\ o # None /\ tap' = [tap EXCEPT !.op = None, !.data = v]
        /\ o.operation # DMI_READ => dm' = n
        /\ o.operation = DMI_READ => dm' = dm \/ dm' = [dm EXCEPT !.busyerror = TRUE]
    BY <1>1 DEF DmiFinish
  <2>2. Served(o, Facts(dm), Facts(dm'), v) /\ IsDm(dm')
    <3>1. CASE o.operation # DMI_READ
      <4>1. IsDm(n) /\ Served(o, Facts(dm), Facts(n), v)
        BY <3>1, WriteServes
      <4> HIDE DEF o, n, v
      <4> QED
        BY <2>1, <3>1, <4>1
    <3>2. CASE o.operation = DMI_READ
      <4>1. IsDm(dm') /\ SameHart(dm, dm')
        BY <2>1, <3>2 DEF IsDm, SameHart
      <4>2. v = RegisterRead(dm, o.address)
        BY <3>2
      <4> HIDE DEF o, v
      <4> QED
        BY <3>2, <4>1, <4>2, ReadServes
    <3> QED
      BY <3>1, <3>2
  <2> HIDE DEF v, n
  <2>3. /\ IsTap(tap') /\ tap'.state = tap.state /\ tap'.ir = tap.ir
        /\ tap'.shift = tap.shift /\ tap'.sticky = tap.sticky
        /\ tap'.op = None /\ tap'.data = v
    BY <2>1 DEF IsTap
  <2> QED
    BY <2>1, <2>2, <2>3 DEF o
<1>2. CASE SbaFinish
  <2>1. tap' = tap /\ \E x, y : dm' = [dm EXCEPT !.sba = None, !.error = x, !.sbdata = y]
                      /\ x \in BOOLEAN
    <3> DEFINE size == IF Flag(dm.control, SBA_WORD) THEN WordBytes ELSE 1
               range == dm.sbaddress .. dm.sbaddress + size - 1
               ok == range \subseteq Memory /\ dm.sbaddress % size = 0
               value == IF size = 1 THEN memory[dm.sbaddress]
                        ELSE Pack([i \in 1 .. WordBytes |-> memory[dm.sbaddress + i - 1]])
               x == dm.error \/ ~ok
               y == IF ok /\ dm.sba = "read" THEN value ELSE dm.sbdata
    <3>1. dm' = [dm EXCEPT !.sba = None, !.error = x, !.sbdata = y] /\ tap' = tap
      BY <1>2, Zenon DEF SbaFinish
    <3>2. x \in BOOLEAN
      OBVIOUS
    <3> HIDE DEF x, y
    <3> QED
      BY <3>1, <3>2
  <2>2. PICK x, y : dm' = [dm EXCEPT !.sba = None, !.error = x, !.sbdata = y] /\ x \in BOOLEAN
    BY <2>1
  <2>3. IsDm(dm') /\ SameHart(dm, dm')
    BY <2>2 DEF IsDm, SameHart
  <2> QED
    BY <2>1, <2>3, SameFacts
<1>3. CASE HartStep
  <2>1. tap' = tap
    BY <1>3 DEF HartStep
  <2>2. CASE dm.haltreq /\ dm.hart = "running" /\ dm' = [dm EXCEPT !.hart = "halted"]
    <3>1. /\ IsDm(dm') /\ dm'.hart = "halted" /\ dm'.haltreq = dm.haltreq
          /\ dm'.resumereq = dm.resumereq
      BY <2>2 DEF IsDm
    <3>2. Facts(dm) \subseteq Facts(dm')
      BY <2>2, <3>1 DEF Facts
    <3> QED
      BY <2>1, <3>1, <3>2
  <2>3. CASE /\ dm.resumereq /\ dm.hart = "halted"
             /\ dm' = [dm EXCEPT !.hart = "running", !.resumeack = TRUE, !.resumereq = FALSE]
    <3>1. /\ IsDm(dm') /\ dm'.hart = "running" /\ dm'.haltreq = dm.haltreq
          /\ dm'.resumereq = FALSE
      BY <2>3 DEF IsDm
    <3>2. Facts(dm) \subseteq Facts(dm')
      BY <2>3, <3>1 DEF Facts
    <3> QED
      BY <2>1, <3>1, <3>2
  <2> QED
    BY <1>3, <2>2, <2>3 DEF HartStep
<1> QED
  BY <1>1, <1>2, <1>3 DEF DebugNext

-----------------------------------------------------------------------------
(* The invariant: until the session has ended, everywhere the commands on  *)
(* their way may lead is a place from which the path left leads to its     *)
(* goal.                                                                   *)

IsNet(n) ==
  /\ n = [toServer |-> n.toServer, chunk |-> n.chunk, response |-> n.response,
          toClient |-> n.toClient, server |-> n.server, tck |-> n.tck, trst |-> n.trst,
          last |-> n.last]
  /\ IsSeq(n.toServer) /\ IsSeq(n.chunk) /\ IsSeq(n.response) /\ IsSeq(n.toClient)
Quiet(n) ==
  /\ n.toServer = <<>> /\ n.chunk = <<>> /\ n.response = <<>> /\ n.toClient = <<>>
  /\ n.tck = 0 /\ n.trst = FALSE /\ n.server = "listen"
Stream(n) == n.chunk \o n.toServer
Answers(d, n) == d.got \o n.toClient \o n.response
Here(t, n, m, d) == Point(t, n.tck, n.trst, Facts(m), Answers(d, n))
Track(g, w, d, s) == \A b : Leads(w, g, b) => b.trst = FALSE /\ Aims(d, s, View(b))
Sound ==
  /\ Shape(drv, session) /\ IsNet(net) /\ IsDm(dm) /\ Words(Stream(net))
  /\ Clean(Here(tap, net, dm, drv))
  /\ Track(Here(tap, net, dm, drv), Stream(net), drv, session)
  /\ Remote \/ Quiet(net)
TInv == Sane(drv) /\ (Ended \/ Sound)

\* What has ended stays so.
LEMMA EndedStays ==
  ASSUME Sane(drv), Ended, Next
  PROVE  /\ Sane(drv') /\ Ended'
         /\ drv.call # None => drv'.phase # "free" \/ drv'.error # None
<1>1. IsDriver(drv) /\ drv.phase = "free" /\ (session = <<>> \/ drv.error # None)
  BY DEF Sane, Ended
<1>2. CASE UNCHANGED <<drv, session>>
  BY <1>1, <1>2 DEF Ended, Sane
<1>3. ASSUME session' = session, NEW path, NEW got,
             drv' = [drv EXCEPT !.path = path, !.got = got]
      PROVE  /\ Sane(drv') /\ Ended'
             /\ drv.call # None => drv'.phase # "free" \/ drv'.error # None
  <2>1. IsDriver(drv') /\ drv'.phase = drv.phase /\ drv'.error = drv.error
        /\ drv'.call = drv.call
    BY <1>1, <1>3 DEF IsDriver
  <2> QED
    BY <1>1, <1>3, <2>1 DEF Ended, Sane
<1>4. CASE Calls_
  BY <1>1, <1>4 DEF Calls_, Driver, Call, Identified, dmi_access, reset_dmi, Walked
<1>5. CASE Pulse
  BY <1>3, <1>5 DEF Pulse, pulse
<1>6. CASE ClientSend
  <2> DEFINE path == Tail(drv.path)
             got == drv.got
  <2>1. drv' = [drv EXCEPT !.path = path] /\ session' = session
    BY <1>6 DEF ClientSend
  <2> HIDE DEF path, got
  <2>2. drv' = [drv EXCEPT !.path = path, !.got = got]
    BY <1>1, <2>1 DEF IsDriver, got
  <2> QED
    BY <1>3, <2>1, <2>2
<1>7. CASE ClientReceive
  <2> DEFINE path == drv.path
             got == Append(drv.got, Head(net.toClient))
  <2>1. drv' = [drv EXCEPT !.got = got] /\ session' = session
    BY <1>7 DEF ClientReceive
  <2> HIDE DEF path, got
  <2>2. drv' = [drv EXCEPT !.path = path, !.got = got]
    BY <1>1, <2>1 DEF IsDriver, path
  <2> QED
    BY <1>3, <2>1, <2>2
<1>8. ~ClientReset
  BY <1>1 DEF ClientReset
<1>9. CASE ClientEnd \/ Server \/ Port \/ Over
  <2>1. UNCHANGED <<drv, session>>
    BY <1>9 DEF ClientEnd, Server, Accept, Receive, Command, send_all, Port, Over, vars
  <2> QED
    BY <1>2, <2>1
<1> QED
  BY <1>4, <1>5, <1>6, <1>7, <1>8, <1>9 DEF Next, Client

LEMMA TrackWaits ==
  ASSUME NEW g, NEW w, NEW d, NEW s, IsSeq(w), Track(g, w, d, s), NEW h, Waits(g, h)
  PROVE  Track(h, w, d, s)
BY LeadsWaited DEF Track

LEMMA TrackStep ==
  ASSUME NEW g, NEW w, NEW d, NEW s, IsSeq(w), w # <<>>, Track(g, w, d, s),
         NEW h, Step(g, Head(w), h)
  PROVE  Track(h, Tail(w), d, s)
BY LeadsFrom DEF Track

LEMMA HereIs ==
  ASSUME NEW t, NEW n, NEW m, NEW d
  PROVE  LET g == Here(t, n, m, d)
         IN /\ g.tap = t /\ g.tck = n.tck /\ g.trst = n.trst /\ g.facts = Facts(m)
            /\ g.out = Answers(d, n)
BY DEF Here, Point

LEMMA SoundIs ==
  ASSUME Sound
  PROVE  /\ IsDm(dm) /\ IsTap(tap) /\ IsNet(net) /\ Shape(drv, session)
         /\ IsSeq(Stream(net)) /\ IsSeq(drv.got) /\ IsSeq(Answers(drv, net))
<1>1. IsDm(dm) /\ IsNet(net) /\ Shape(drv, session) /\ IsSeq(Stream(net)) /\ IsSeq(drv.got)
  BY DEF Sound, Words, Shape
<1>2. IsTap(tap)
  <2>1. Here(tap, net, dm, drv).tap = tap
    BY HereIs
  <2> QED
    BY <2>1 DEF Sound, Clean
<1>3. IsSeq(Answers(drv, net))
  <2>1. IsSeq(net.toClient) /\ IsSeq(net.response)
    BY <1>1 DEF IsNet
  <2>2. IsSeq(drv.got \o net.toClient)
    BY <1>1, <2>1, ConcatIs
  <2> QED
    BY <2>1, <2>2, ConcatIs DEF Answers
<1> QED
  BY <1>1, <1>2, <1>3

LEMMA PortKeeps ==
  ASSUME Sound, Port
  PROVE  Sound'
<1> DEFINE g == Here(tap, net, dm, drv)
           h == Here(tap', net, dm', drv)
<1>1. UNCHANGED <<session, drv, transport, net>> /\ DebugNext
  BY DEF Port
<1>2. IsDm(dm) /\ IsTap(tap) /\ IsSeq(Stream(net))
  BY SoundIs
<1>3. /\ IsDm(dm') /\ IsTap(tap')
      /\ tap'.state = tap.state /\ tap'.ir = tap.ir /\ tap'.shift = tap.shift
      /\ tap'.sticky = tap.sticky
      /\ \/ tap' = tap /\ Facts(dm) \subseteq Facts(dm')
         \/ /\ tap.op # None /\ tap'.op = None
            /\ Served(tap.op, Facts(dm), Facts(dm'), tap'.data)
  BY <1>1, <1>2, PortMoves
<1>4. Waits(g, h)
  <2>1. /\ g.tap = tap /\ g.tck = net.tck /\ g.trst = net.trst /\ g.facts = Facts(dm)
        /\ g.out = Answers(drv, net)
    BY HereIs
  <2>2. /\ h.tap = tap' /\ h.tck = net.tck /\ h.trst = net.trst /\ h.facts = Facts(dm')
        /\ h.out = Answers(drv, net)
    BY HereIs
  <2>3. h = Point(h.tap, h.tck, h.trst, h.facts, h.out)
    BY <2>2 DEF Here
  <2>4. Clean(g)
    BY DEF Sound
  <2> HIDE DEF g, h
  <2>5. Goes(g, h)
    BY <1>3, <2>1, <2>2 DEF Goes
  <2>6. Calm(h.tap, h.tck)
    BY <1>3, <2>1, <2>2, <2>4 DEF Clean, Calm
  <2>7. Clean(h)
    BY <1>3, <2>1, <2>2, <2>3, <2>4, <2>6 DEF Clean
  <2> QED
    BY <1>3, <2>1, <2>2, <2>5, <2>7 DEF Waits, Keeps
<1>5. Track(h, Stream(net), drv, session)
  BY <1>2, <1>4, TrackWaits DEF Sound
<1>6. Clean(h)
  BY <1>4 DEF Waits
<1> QED
  BY <1>1, <1>3, <1>5, <1>6 DEF Sound, Remote

\* Steps that change neither the point nor what is on its way.
LEMMA AsideKeeps ==
  ASSUME Sound, UNCHANGED <<tap, dm, session, transport>>, Remote, Shape(drv', session),
         drv'.phase = drv.phase, drv'.path = drv.path, drv'.call = drv.call,
         drv'.steps = drv.steps, IsNet(net'), Stream(net') = Stream(net),
         net'.tck = net.tck, net'.trst = net.trst, Answers(drv', net') = Answers(drv, net)
  PROVE  Sound'
<1> DEFINE g == Here(tap, net, dm, drv)
           w == Stream(net)
<1>1. Here(tap', net', dm', drv') = g /\ Stream(net') = w
  BY DEF Here
<1>2. \A h, out : Goal(drv, session, h, out) = Goal(drv', session, h, out)
  BY DEF Goal, Asks, Knows
<1>3. \A v : Aims(drv, session, v) => Aims(drv', session, v)
  BY <1>2 DEF Aims
<1>4. Track(g, w, drv, session) /\ Clean(g) /\ Words(w) /\ IsDm(dm)
  BY DEF Sound
<1> HIDE DEF g, w
<1>5. Track(g, w, drv', session)
  BY <1>3, <1>4 DEF Track
<1> QED
  BY <1>1, <1>4, <1>5 DEF Sound, Remote

LEMMA StillKeeps ==
  ASSUME Sound, UNCHANGED vars
  PROVE  Sound'
<1>1. UNCHANGED <<tap, dm, session, drv, transport, net>>
  BY DEF vars
<1> QED
  BY <1>1 DEF Sound, Remote

LEMMA ServingIsRemote ==
  ASSUME Sound, net.server \in {"serving", "closing"}
  PROVE  Remote
BY DEF Sound, Quiet

LEMMA AcceptKeeps ==
  ASSUME Sound, Accept
  PROVE  Sound'
<1>1. /\ Remote /\ UNCHANGED <<session, tap, dm, drv, transport>>
      /\ net' = [net EXCEPT !.server = "serving"]
  BY DEF Accept
<1>2. IsNet(net) /\ Shape(drv, session)
  BY SoundIs
<1>3. /\ IsNet(net') /\ net'.toServer = net.toServer /\ net'.chunk = net.chunk
      /\ net'.response = net.response /\ net'.toClient = net.toClient
      /\ net'.tck = net.tck /\ net'.trst = net.trst
  BY <1>1, <1>2 DEF IsNet
<1>4. Stream(net') = Stream(net) /\ Answers(drv', net') = Answers(drv, net)
  BY <1>1, <1>3 DEF Stream, Answers
<1> QED
  BY <1>1, <1>2, <1>3, <1>4, AsideKeeps

\* What the client takes it has taken in order.
LEMMA ClientReceiveKeeps ==
  ASSUME Sound, ClientReceive
  PROVE  Sound'
<1> DEFINE x == Head(net.toClient)
           got == Append(drv.got, x)
           q == Tail(net.toClient)
           r == net.response
<1>1. /\ Remote /\ UNCHANGED <<session, tap, dm, transport>> /\ net.toClient # <<>>
      /\ drv' = [drv EXCEPT !.got = got] /\ net' = [net EXCEPT !.toClient = q]
  BY DEF ClientReceive
<1>2. IsNet(net) /\ Shape(drv, session) /\ IsSeq(drv.got)
  BY SoundIs
<1>3. IsSeq(net.toClient) /\ IsSeq(r)
  BY <1>2 DEF IsNet
<1>4. IsSeq(q) /\ IsSeq(<<x>>) /\ net.toClient = <<x>> \o q
  BY <1>1, <1>3, HeadFirst
<1>5. IsSeq(got) /\ got = drv.got \o <<x>>
  <2>1. IsSeq(got)
    BY <1>2, AppendIs
  <2>2. PICK S : drv.got \in Seq(S)
    BY <1>2 DEF IsSeq
  <2>3. got = drv.got \o <<x>>
    <3> DEFINE T == S \cup {x}
    <3>1. drv.got \in Seq(T) /\ x \in T
      BY <2>2
    <3> HIDE DEF T
    <3> QED
      BY <3>1, AppendIsConcat
  <2> QED
    BY <2>1, <2>3
<1>6. got \o q = drv.got \o net.toClient
  <2> DEFINE z == <<x>>
             a == drv.got
  <2>1. IsSeq(a) /\ IsSeq(z) /\ IsSeq(q)
    BY <1>2, <1>4
  <2> HIDE DEF z, a, q
  <2>2. (a \o z) \o q = a \o (z \o q)
    BY <2>1, Joins
  <2> QED
    BY <1>4, <1>5, <2>2 DEF z, a
<1> HIDE DEF got, q, r
<1>7. /\ IsDriver(drv') /\ drv'.got = got /\ drv'.phase = drv.phase /\ drv'.path = drv.path
      /\ drv'.call = drv.call /\ drv'.steps = drv.steps /\ drv'.want = drv.want
      /\ drv'.error = drv.error
  BY <1>1, <1>2 DEF Shape, IsDriver
<1>8. Shape(drv', session)
  <2>1. Rests(drv, session) => Rests(drv', session)
    BY <1>7 DEF Rests
  <2>2. Works(drv) => Works(drv')
    BY <1>7 DEF Works
  <2> QED
    BY <1>2, <1>5, <1>7, <2>1, <2>2 DEF Shape
<1>9. /\ IsNet(net') /\ net'.toServer = net.toServer /\ net'.chunk = net.chunk
      /\ net'.response = net.response /\ net'.toClient = q
      /\ net'.tck = net.tck /\ net'.trst = net.trst
  BY <1>1, <1>2, <1>4 DEF IsNet
<1>10. Stream(net') = Stream(net) /\ Answers(drv', net') = Answers(drv, net)
  BY <1>6, <1>7, <1>9 DEF Stream, Answers
<1> QED
  BY <1>1, <1>7, <1>8, <1>9, <1>10, AsideKeeps

Joined(s, t, u) == (s \o t) \o u = s \o (t \o u)
LEMMA JoinedAre ==
  ASSUME NEW s, NEW t, NEW u, IsSeq(s), IsSeq(t), IsSeq(u)
  PROVE  Joined(s, t, u)
<1>1. PICK S : s \in Seq(S) /\ t \in Seq(S) /\ u \in Seq(S)
  BY Unions
<1>2. (s \o t) \o u = s \o (t \o u)
  BY <1>1
<1> QED
  BY <1>2 DEF Joined

LEMMA SendAllKeeps ==
  ASSUME Sound, send_all
  PROVE  Sound'
<1>1. Remote /\ UNCHANGED <<session, tap, dm, drv, transport>>
  BY ServingIsRemote DEF send_all
<1>2. IsNet(net) /\ Shape(drv, session) /\ IsSeq(drv.got)
  BY SoundIs
<1>3. CASE net' = [net EXCEPT !.server = "closed"]
  <2>1. /\ IsNet(net') /\ net'.toServer = net.toServer /\ net'.chunk = net.chunk
        /\ net'.response = net.response /\ net'.toClient = net.toClient
        /\ net'.tck = net.tck /\ net'.trst = net.trst
    BY <1>2, <1>3 DEF IsNet
  <2>2. Stream(net') = Stream(net) /\ Answers(drv', net') = Answers(drv, net)
    BY <1>1, <2>1 DEF Stream, Answers
  <2> QED
    BY <1>1, <1>2, <2>1, <2>2, AsideKeeps
<1>4. ASSUME NEW n \in 1 .. Len(net.response),
             net' = [net EXCEPT !.toClient = net.toClient \o SubSeq(net.response, 1, n),
                                !.response = SubSeq(net.response, n + 1, Len(net.response))]
      PROVE  Sound'
  <2> DEFINE r == net.response
             p == SubSeq(r, 1, n)
             q == SubSeq(r, n + 1, Len(r))
             c == net.toClient
             x == c \o p
             a == drv.got
  <2>1. IsSeq(r) /\ IsSeq(c) /\ IsSeq(a) /\ n \in 0 .. Len(r)
    BY <1>2 DEF IsNet
  <2>2. IsSeq(p) /\ IsSeq(q) /\ p \o q = r
    BY <2>1, Divides
  <2>3. net' = [net EXCEPT !.toClient = x, !.response = q]
    BY <1>4
  <2> HIDE DEF p, q, r, c, a
  <2>4. IsSeq(x) /\ IsSeq(a \o c)
    BY <2>1, <2>2, ConcatIs
  <2>5. a \o x \o q = a \o c \o r
    <3>1. IsSeq(a) /\ IsSeq(c) /\ IsSeq(p) /\ IsSeq(q)
      BY <2>1, <2>2
    <3>2. Joined(a, c, p) /\ Joined(a \o c, p, q)
      BY <2>4, <3>1, JoinedAre
    <3> QED
      BY <2>2, <3>2 DEF Joined
  <2> HIDE DEF x
  <2>6. /\ IsNet(net') /\ net'.toServer = net.toServer /\ net'.chunk = net.chunk
        /\ net'.response = q /\ net'.toClient = x
        /\ net'.tck = net.tck /\ net'.trst = net.trst
    BY <1>2, <2>2, <2>3, <2>4 DEF IsNet
  <2>7. Stream(net') = Stream(net) /\ Answers(drv', net') = Answers(drv, net)
    BY <1>1, <2>5, <2>6 DEF Stream, Answers, a, c, r
  <2> QED
    BY <1>1, <1>2, <2>6, <2>7, AsideKeeps
<1> QED
  BY <1>3, <1>4 DEF send_all

\* A chunk is what has waited longest.
LEMMA ReceiveKeeps ==
  ASSUME Sound, Receive
  PROVE  Sound'
<1>1. /\ Remote /\ UNCHANGED <<session, tap, dm, drv, transport>> /\ net.chunk = <<>>
  BY ServingIsRemote DEF Receive
<1>2. IsNet(net) /\ Shape(drv, session) /\ IsSeq(drv.got)
  BY SoundIs
<1>3. CASE net' = [net EXCEPT !.server = "closed"]
  <2>1. /\ IsNet(net') /\ net'.toServer = net.toServer /\ net'.chunk = net.chunk
        /\ net'.response = net.response /\ net'.toClient = net.toClient
        /\ net'.tck = net.tck /\ net'.trst = net.trst
    BY <1>2, <1>3 DEF IsNet
  <2>2. Stream(net') = Stream(net) /\ Answers(drv', net') = Answers(drv, net)
    BY <1>1, <2>1 DEF Stream, Answers
  <2> QED
    BY <1>1, <1>2, <2>1, <2>2, AsideKeeps
<1>4. ASSUME NEW n \in 1 .. Len(net.toServer),
             net' = [net EXCEPT !.chunk = SubSeq(net.toServer, 1, n),
                                !.toServer = SubSeq(net.toServer, n + 1, Len(net.toServer))]
      PROVE  Sound'
  <2> DEFINE r == net.toServer
             p == SubSeq(r, 1, n)
             q == SubSeq(r, n + 1, Len(r))
  <2>1. IsSeq(r) /\ n \in 0 .. Len(r)
    BY <1>2 DEF IsNet
  <2>2. IsSeq(p) /\ IsSeq(q) /\ p \o q = r
    BY <2>1, Divides
  <2>3. net' = [net EXCEPT !.chunk = p, !.toServer = q]
    BY <1>4
  <2>4. Stream(net) = r
    BY <1>1, <2>1, Joins DEF Stream
  <2> HIDE DEF p, q, r
  <2>5. /\ IsNet(net') /\ net'.toServer = q /\ net'.chunk = p
        /\ net'.response = net.response /\ net'.toClient = net.toClient
        /\ net'.tck = net.tck /\ net'.trst = net.trst
    BY <1>2, <2>2, <2>3 DEF IsNet
  <2>6. Stream(net') = Stream(net) /\ Answers(drv', net') = Answers(drv, net)
    BY <1>1, <2>2, <2>4, <2>5 DEF Stream, Answers
  <2> QED
    BY <1>1, <1>2, <2>5, <2>6, AsideKeeps
<1> QED
  BY <1>3, <1>4 DEF Receive

\* The commands of a pulse follow the stream, and the pulse leaves the path.
LEMMA CommandsWords ==
  ASSUME NEW p
  PROVE  Words(Commands(p))
<1> DEFINE s == Commands(p)
<1>1. /\ IsSeq(s) /\ s[1] = Pins(0, p.tms, p.tdi)
      /\ p.keep => Len(s) = 3 /\ s[2] = Sample /\ s[3] = Pins(1, p.tms, p.tdi)
      /\ ~p.keep => Len(s) = 2 /\ s[2] = Pins(1, p.tms, p.tdi)
  BY CommandsAre
<1> HIDE DEF s
<1>2. Word(Sample) /\ Word(Pins(0, p.tms, p.tdi)) /\ Word(Pins(1, p.tms, p.tdi))
  BY DEF Word, IsPulse, Sample, Pins
<1>3. CASE p.keep
  <2>1. \A i \in 1 .. 3 : i = 1 \/ i = 2 \/ i = 3
    OBVIOUS
  <2>2. Len(s) = 3 /\ \A i \in 1 .. 3 : Word(s[i])
    BY <1>1, <1>2, <1>3, <2>1
  <2> QED
    BY <1>1, <2>2 DEF Words, s
<1>4. CASE ~p.keep
  <2>1. \A i \in 1 .. 2 : i = 1 \/ i = 2
    OBVIOUS
  <2>2. Len(s) = 2 /\ \A i \in 1 .. 2 : Word(s[i])
    BY <1>1, <1>2, <1>4, <2>1
  <2> QED
    BY <1>1, <2>2 DEF Words, s
<1> QED
  BY <1>3, <1>4

\* The first pulse of a path, or the commands of it, taken.
LEMMA TakenPulse ==
  ASSUME Sound, drv.path # <<>>
  PROVE  LET p == Head(drv.path)
             q == Tail(drv.path)
         IN /\ IsPulse(p) /\ Pulses(q) /\ IsSeq(q) /\ IsSeq(<<p>>) /\ <<p>> \o q = drv.path
            /\ drv.phase \in Walking
<1>1. Shape(drv, session)
  BY SoundIs
<1>2. Pulses(drv.path) /\ IsSeq(drv.path) /\ IsSeq(<<>>)
  BY <1>1, EmptyIs DEF Shape, Pulses
<1>3. drv.phase \in Walking
  BY <1>1 DEF Shape, Rests
<1>4. IsPulse(Head(drv.path)) /\ Pulses(Tail(drv.path))
  BY <1>2, PulsesTail
<1> QED
  BY <1>2, <1>3, <1>4, HeadFirst

\* A driver along its path.
Further(d, e, path, got) ==
  /\ IsDriver(e) /\ e.phase = d.phase /\ e.path = path /\ e.got = got /\ e.call = d.call
  /\ e.steps = d.steps /\ e.want = d.want /\ e.error = d.error
LEMMA FurtherIs ==
  ASSUME NEW d, IsDriver(d), NEW e, NEW path, NEW got,
         e = [d EXCEPT !.path = path, !.got = got]
  PROVE  Further(d, e, path, got)
BY DEF IsDriver, Further

SameGoals(d, e, s) == \A h, out : Goal(d, s, h, out) = Goal(e, s, h, out)
LEMMA FurtherShape ==
  ASSUME NEW d, NEW e, NEW s, Shape(d, s), d.phase \in Walking, NEW path, NEW got,
         Further(d, e, path, got), Pulses(path), IsSeq(got)
  PROVE  Shape(e, s) /\ SameGoals(d, e, s)
<1>1. /\ IsDriver(e) /\ e.phase = d.phase /\ e.path = path /\ e.got = got /\ e.call = d.call
      /\ e.steps = d.steps /\ e.want = d.want /\ e.error = d.error
  BY DEF Further
<1>2. Works(e)
  <2>1. Works(d)
    BY DEF Shape, Walking
  <2> QED
    BY <1>1, <2>1 DEF Works
<1>3. Shape(e, s)
  BY <1>1, <1>2 DEF Shape
<1>4. SameGoals(d, e, s)
  BY <1>1 DEF Goal, Asks, Knows, SameGoals
<1> QED
  BY <1>3, <1>4

LEMMA PulseAims ==
  ASSUME NEW d, NEW e, NEW s, NEW v, NEW u, NEW p, NEW q, IsSeq(<<p>>), IsSeq(q),
         <<p>> \o q = d.path, e.path = q, Aims(d, s, v), Leads(<<p>>, v, u),
         SameGoals(d, e, s)
  PROVE  Aims(e, s, u)
<1> SUFFICES ASSUME NEW h, Leads(q, u, h) PROVE Goal(e, s, h, h.out)
  BY DEF Aims
<1>1. Leads(d.path, v, h)
  BY LeadsConcat
<1>2. Goal(d, s, h, h.out)
  BY <1>1 DEF Aims
<1> QED
  BY <1>2 DEF SameGoals

LEMMA ClientSendKeeps ==
  ASSUME Sound, ClientSend
  PROVE  Sound'
<1> DEFINE p == Head(drv.path)
           q == Tail(drv.path)
           cs == Commands(p)
           w == Stream(net)
           g == Here(tap, net, dm, drv)
           b == net.toServer
           c == net.chunk
           more == b \o cs
<1>1. /\ Remote /\ UNCHANGED <<session, tap, dm, transport>> /\ drv.path # <<>>
      /\ drv' = [drv EXCEPT !.path = q] /\ net' = [net EXCEPT !.toServer = more]
  BY DEF ClientSend, Deliver
<1>2. /\ IsPulse(p) /\ Pulses(q) /\ IsSeq(q) /\ IsSeq(<<p>>) /\ <<p>> \o q = drv.path
      /\ drv.phase \in Walking
  BY <1>1, TakenPulse
<1>3. Words(cs) /\ IsSeq(cs)
  BY CommandsWords DEF Words
<1>4. /\ IsNet(net) /\ Shape(drv, session) /\ IsSeq(w) /\ IsDriver(drv) /\ IsSeq(drv.got)
      /\ IsDm(dm)
  BY SoundIs DEF Shape
<1>5. Words(w) /\ Clean(g) /\ Track(g, w, drv, session)
  BY DEF Sound
<1>6. IsSeq(b) /\ IsSeq(c)
  BY <1>4 DEF IsNet
<1>7. Further(drv, drv', q, drv.got)
  <2>1. drv' = [drv EXCEPT !.path = q, !.got = drv.got]
    BY <1>1, <1>4 DEF IsDriver
  <2> QED
    BY <1>4, <2>1, FurtherIs
<1> HIDE DEF p, q, cs
<1>8. IsSeq(more)
  BY <1>3, <1>6, ConcatIs
<1>9. Joined(c, b, cs)
  BY <1>3, <1>6, JoinedAre
<1>10. c \o more = w \o cs
  BY <1>9 DEF Stream, Joined
<1> HIDE DEF more
<1>11. /\ IsNet(net') /\ net'.toServer = more /\ net'.chunk = c
       /\ net'.response = net.response /\ net'.toClient = net.toClient
       /\ net'.tck = net.tck /\ net'.trst = net.trst
  BY <1>1, <1>4, <1>8 DEF IsNet
<1>12. drv'.got = drv.got /\ drv'.path = q
  BY <1>7 DEF Further
<1>13. Stream(net') = w \o cs
  BY <1>10, <1>11 DEF Stream
<1>14. Here(tap', net', dm', drv') = g
  BY <1>1, <1>11, <1>12 DEF Here, Answers
<1> HIDE DEF w, g
<1>15. Words(w \o cs)
  BY <1>3, <1>5, WordsJoin
<1>16. Shape(drv', session) /\ SameGoals(drv, drv', session)
  <2>1. Shape(drv, session) /\ drv.phase \in Walking /\ Pulses(q) /\ IsSeq(drv.got)
    BY <1>2, <1>4
  <2> QED
    BY <1>7, <2>1, FurtherShape
<1>17. Track(g, w \o cs, drv', session)
  <2> SUFFICES ASSUME NEW k, Leads(w \o cs, g, k)
               PROVE  k.trst = FALSE /\ Aims(drv', session, View(k))
    BY DEF Track
  <2>1. PICK h : Leads(w, g, h) /\ Leads(cs, h, k)
    BY <1>3, <1>4, <1>5, LeadsSplit
  <2>2. h.trst = FALSE /\ Aims(drv, session, View(h))
    BY <1>5, <2>1 DEF Track
  <2>3. Clean(h)
    BY <2>1, LeadsClean
  <2>4. k.trst = FALSE /\ Leads(<<p>>, View(h), View(k))
    BY <1>2, <2>1, <2>2, <2>3, CommandsClick DEF cs
  <2>5. Aims(drv', session, View(k))
    BY <1>2, <1>12, <1>16, <2>2, <2>4, PulseAims
  <2> QED
    BY <2>4, <2>5
<1> QED
  BY <1>1, <1>4, <1>5, <1>11, <1>13, <1>14, <1>15, <1>16, <1>17 DEF Sound, Remote

LEMMA ViewSame ==
  ASSUME NEW g, g = Point(g.tap, g.tck, g.trst, g.facts, g.out), g.tck = 0, g.trst = FALSE
  PROVE  View(g) = g
<1>1. (IF g.tck = 1 THEN Fall(g.tap) ELSE g.tap) = g.tap
  OBVIOUS
<1>2. g = Point(g.tap, 0, FALSE, g.facts, g.out)
  BY Zenon
<1> QED
  BY <1>1, <1>2, Zenon DEF View

\* The class's own pulse is a step of the path.
LEMMA PulseKeeps ==
  ASSUME Sound, Pulse
  PROVE  Sound'
<1> DEFINE p == Head(drv.path)
           q == Tail(drv.path)
           g == Here(tap, net, dm, drv)
           t == Rise(tap, p.tms, p.tdi)
           u == Fall(t)
           got == IF p.keep THEN Append(drv.got, jtag_tdo(tap)) ELSE drv.got
           h == Point(u, 0, FALSE, Facts(dm), got)
<1>1. /\ ~Remote /\ UNCHANGED <<session, dm, transport, net>> /\ drv.path # <<>>
      /\ tap' = u /\ drv' = [drv EXCEPT !.path = q, !.got = got]
  BY DEF Pulse, pulse
<1>2. /\ IsPulse(p) /\ Pulses(q) /\ IsSeq(q) /\ IsSeq(<<p>>) /\ <<p>> \o q = drv.path
      /\ drv.phase \in Walking
  BY <1>1, TakenPulse
<1>3. /\ IsNet(net) /\ Shape(drv, session) /\ IsDriver(drv) /\ IsSeq(drv.got) /\ IsDm(dm)
      /\ IsTap(tap)
  BY SoundIs DEF Shape
<1>4. Quiet(net)
  BY <1>1 DEF Sound
<1>5. /\ net.tck = 0 /\ net.trst = FALSE /\ net.response = <<>> /\ net.toClient = <<>>
      /\ Stream(net) = <<>>
  <2>1. <<>> \o <<>> = <<>>
    BY EmptyIs, Joins
  <2> QED
    BY <1>4, <2>1 DEF Quiet, Stream
<1>6. \A o : IsSeq(o) => o \o <<>> \o <<>> = o
  BY EmptyIs, Joins
<1>7. IsSeq(got)
  <2>1. IsSeq(Append(drv.got, jtag_tdo(tap)))
    BY <1>3, AppendIs
  <2> QED
    BY <1>3, <2>1
<1>8. /\ Clean(g) /\ Track(g, <<>>, drv, session) /\ Words(<<>>)
  BY <1>5 DEF Sound
<1>9. g.tap = tap /\ g.tck = 0 /\ g.trst = FALSE /\ g.facts = Facts(dm) /\ g.out = drv.got
  <2>1. Answers(drv, net) = drv.got
    BY <1>3, <1>5, <1>6 DEF Answers
  <2> QED
    BY <1>5, <2>1, HereIs
<1> HIDE DEF g
<1>10. IsTap(t) /\ Calm(t, 1)
  <2>1. IsTap(tap) /\ Calm(tap, 0)
    BY <1>8, <1>9 DEF Clean
  <2> HIDE DEF p
  <2> QED
    BY <2>1, RiseCalm
<1>11. IsTap(u) /\ Calm(u, 0)
  <2> DEFINE b == Point(t, 1, FALSE, Facts(dm), drv.got)
  <2>1. b.tap = t /\ b.tck = 1
    BY DEF Point
  <2>2. Clean(b)
    <3> DEFINE no == FALSE
    <3>1. no \in BOOLEAN /\ ~(no = TRUE)
      OBVIOUS
    <3>2. b = Point(t, 1, no, Facts(dm), drv.got)
      OBVIOUS
    <3> HIDE DEF no, t, b
    <3> QED
      BY <1>10, <3>1, <3>2, PointClean
  <2> HIDE DEF t, b
  <2> QED
    BY <2>1, <2>2, FallenIs
<1>12. Clean(h) /\ h.trst = FALSE
  <2> DEFINE no == FALSE
  <2>1. no \in BOOLEAN /\ ~(no = TRUE)
    OBVIOUS
  <2>2. h = Point(u, 0, no, Facts(dm), got)
    OBVIOUS
  <2>3. h.trst = FALSE
    BY DEF Point
  <2> HIDE DEF no, u, h, got
  <2>4. Clean(h)
    BY <1>11, <2>1, <2>2, PointClean
  <2> QED
    BY <2>3, <2>4
<1>13. Clicked(g, p) = h
  BY <1>9 DEF Clicked
<1>14. Further(drv, drv', q, got)
  <2> HIDE DEF q, got
  <2> QED
    BY <1>1, <1>3, FurtherIs
<1>15. Here(tap', net', dm', drv') = h
  <2>1. drv'.got = got
    BY <1>14 DEF Further
  <2>2. Answers(drv', net') = got
    BY <1>1, <1>5, <1>6, <1>7, <2>1 DEF Answers
  <2> QED
    BY <1>1, <1>5, <2>2 DEF Here
<1> HIDE DEF p, q, t, u, got, h
<1>16. Step(g, p, h)
  <2>1. Waits(g, g) /\ Move(g, p) = h
    BY <1>2, <1>8, <1>13, WaitsNot DEF Move
  <2> QED
    BY <1>12, <2>1 DEF Step
<1>17. Shape(drv', session) /\ SameGoals(drv, drv', session) /\ drv'.path = q
  <2>1. Shape(drv, session) /\ drv.phase \in Walking /\ Pulses(q) /\ IsSeq(got)
    BY <1>2, <1>3, <1>7
  <2> QED
    BY <1>14, <2>1, FurtherShape DEF Further
<1>18. Track(h, <<>>, drv', session)
  <2> SUFFICES ASSUME NEW k, Leads(<<>>, h, k)
               PROVE  k.trst = FALSE /\ Aims(drv', session, View(k))
    BY DEF Track
  <2>1. Waits(h, k)
    BY LeadsNone
  <2>2. k = Point(k.tap, k.tck, k.trst, k.facts, k.out) /\ k.tck = 0 /\ k.trst = FALSE
    BY <1>9, <1>12, <1>13, <2>1, PointIs DEF Waits, Clean, Clicked
  <2>3. View(k) = k
    BY <2>2, ViewSame
  <2>4. View(g) = g
    <3>1. g = Point(g.tap, g.tck, g.trst, g.facts, g.out)
      BY <1>8 DEF Clean
    <3> QED
      BY <1>9, <3>1, ViewSame
  <2>5. Leads(<<p>>, g, k)
    BY <1>16, <2>1, LeadsOne, LeadsThenWaits
  <2>6. Leads(<<>>, g, g)
    BY <1>8, LeadsNone, WaitsNot
  <2>7. Aims(drv, session, g)
    BY <1>8, <2>4, <2>6 DEF Track
  <2>8. Aims(drv', session, k)
    BY <1>2, <1>17, <2>5, <2>7, PulseAims
  <2> QED
    BY <2>2, <2>3, <2>8
<1> QED
  BY <1>1, <1>3, <1>4, <1>5, <1>8, <1>12, <1>15, <1>17, <1>18 DEF Sound, Remote

\* The server does the first command of the stream.
LEMMA CommandKeeps ==
  ASSUME Sound, Command
  PROVE  Sound'
<1> DEFINE c == Head(net.chunk)
           rest == Tail(net.chunk)
           w == Stream(net)
           g == Here(tap, net, dm, drv)
           r == net.response
           out == Answers(drv, net)
           m == [net EXCEPT !.chunk = rest]
<1>1. /\ Remote /\ UNCHANGED <<session, dm, drv, transport>> /\ net.chunk # <<>>
  BY ServingIsRemote DEF Command
<1>2. /\ IsNet(net) /\ Shape(drv, session) /\ IsSeq(w) /\ IsSeq(drv.got) /\ IsSeq(out)
      /\ IsDm(dm)
  BY SoundIs
<1>3. Words(w) /\ Clean(g) /\ Track(g, w, drv, session)
  BY DEF Sound
<1>4. IsSeq(net.chunk) /\ IsSeq(net.toServer) /\ IsSeq(r) /\ IsSeq(net.toClient)
  BY <1>2 DEF IsNet
<1>5. w # <<>> /\ Head(w) = c /\ Tail(w) = rest \o net.toServer /\ IsSeq(rest)
  BY <1>1, <1>4, HeadFirst DEF Stream
<1>6. g.tap = tap /\ g.tck = net.tck /\ g.trst = net.trst /\ g.facts = Facts(dm)
      /\ g.out = out
  BY HereIs
<1> HIDE DEF w, g, c, rest, out
<1>6a. /\ IsNet(m) /\ m.chunk = rest /\ m.toServer = net.toServer
       /\ m.tck = net.tck /\ m.trst = net.trst /\ m.toClient = net.toClient
       /\ m.response = r
  BY <1>2, <1>5 DEF IsNet
<1> HIDE DEF m
<1>7. Word(c) /\ Words(Tail(w))
  BY <1>3, <1>5, WordsTail
<1>8. Clean(Done(g, c))
  BY <1>2, <1>3, <1>6, <1>7, WordIs
<1>9. Step(g, Head(w), Done(g, c))
  <2>1. Waits(g, g) /\ Move(g, c) = Done(g, c)
    BY <1>3, <1>7, WaitsNot DEF Move, Word
  <2> QED
    BY <1>5, <1>8, <2>1 DEF Step
<1>10. Track(Done(g, c), Tail(w), drv, session)
  BY <1>2, <1>3, <1>5, <1>9, TrackStep
<1>11. ASSUME NEW n, IsNet(n), net' = n, n.chunk = rest, n.toServer = net.toServer,
              Here(tap', n, dm, drv) = Done(g, c)
       PROVE  Sound'
  <2>1. Stream(n) = Tail(w)
    BY <1>5, <1>11 DEF Stream
  <2> QED
    BY <1>1, <1>2, <1>7, <1>8, <1>10, <1>11, <2>1 DEF Sound, Remote
<1>12. CASE c.cmd = "pins" /\ tap' = set_pins(c)
            /\ net' = [m EXCEPT !.tck = c.tck]
  <2> DEFINE n == [m EXCEPT !.tck = c.tck]
  <2>1. /\ IsNet(n) /\ n.chunk = rest /\ n.toServer = net.toServer
        /\ n.tck = c.tck /\ n.trst = net.trst /\ n.toClient = net.toClient
        /\ n.response = r
    <3>1. n = [m EXCEPT !.tck = c.tck]
      OBVIOUS
    <3> HIDE DEF n
    <3> QED
      BY <1>6a, <3>1 DEF IsNet
  <2>2. net' = n
    BY <1>12
  <2> HIDE DEF n
  <2>3. Answers(drv, n) = out
    BY <2>1 DEF Answers, out
  <2>4. tap' = Pinned(g, c)
    <3>1. net.trst \in BOOLEAN
      BY <1>3, <1>6 DEF Clean
    <3> QED
      BY <1>6, <1>12, <3>1 DEF set_pins, Pinned
  <2>5. Here(tap', n, dm, drv) = Point(Pinned(g, c), c.tck, g.trst, g.facts, g.out)
    BY <1>6, <2>1, <2>3, <2>4 DEF Here
  <2>6. Here(tap', n, dm, drv) = Done(g, c)
    BY <1>12, <2>5 DEF Done
  <2> QED
    BY <1>11, <2>1, <2>2, <2>6
<1>13. CASE c.cmd = "R" /\ tap' = tap
            /\ net' = [m EXCEPT !.response = Append(r, jtag_tdo(tap))]
  <2> DEFINE x == jtag_tdo(tap)
             more == Append(r, x)
             n == [m EXCEPT !.response = more]
             o == drv.got \o net.toClient
  <2>1. net' = n
    BY <1>13
  <2>2. IsSeq(o)
    BY <1>2, <1>4, ConcatIs
  <2> HIDE DEF x, o
  <2>3. IsSeq(more) /\ o \o more = Append(o \o r, x)
    BY <1>4, <2>2, AppendIs
  <2> HIDE DEF more
  <2>4. /\ IsNet(n) /\ n.chunk = rest /\ n.toServer = net.toServer
        /\ n.tck = net.tck /\ n.trst = net.trst /\ n.toClient = net.toClient
        /\ n.response = more
    <3>1. n = [m EXCEPT !.response = more]
      OBVIOUS
    <3> HIDE DEF n
    <3> QED
      BY <1>6a, <2>3, <3>1 DEF IsNet
  <2> HIDE DEF n
  <2>5. Answers(drv, n) = Append(out, x)
    BY <2>3, <2>4 DEF Answers, out, o
  <2>6. Here(tap', n, dm, drv)
          = Point(g.tap, g.tck, g.trst, g.facts, Append(g.out, jtag_tdo(g.tap)))
    BY <1>6, <1>13, <2>4, <2>5 DEF Here, x
  <2>7. Here(tap', n, dm, drv) = Done(g, c)
    BY <1>13, <2>6 DEF Done
  <2> QED
    BY <1>11, <2>1, <2>4, <2>7
<1>14. CASE c.cmd = "reset" /\ tap' = reset(c)
            /\ net' = [m EXCEPT !.trst = c.trst]
  <2> DEFINE n == [m EXCEPT !.trst = c.trst]
  <2>1. /\ IsNet(n) /\ n.chunk = rest /\ n.toServer = net.toServer
        /\ n.tck = net.tck /\ n.trst = c.trst /\ n.toClient = net.toClient
        /\ n.response = r
    <3>1. n = [m EXCEPT !.trst = c.trst]
      OBVIOUS
    <3> HIDE DEF n
    <3> QED
      BY <1>6a, <3>1 DEF IsNet
  <2>2. net' = n
    BY <1>14
  <2> HIDE DEF n
  <2>3. Answers(drv, n) = out
    BY <2>1 DEF Answers, out
  <2>4. tap' = IF c.trst = TRUE THEN InReset(g.tap) ELSE g.tap
    <3>1. c.trst \in BOOLEAN
      BY <1>7, <1>14 DEF Word
    <3> QED
      BY <1>6, <1>14, <3>1 DEF reset, InReset
  <2>5. Here(tap', n, dm, drv) = Point(IF c.trst = TRUE THEN InReset(g.tap) ELSE g.tap,
                                       g.tck, c.trst, g.facts, g.out)
    BY <1>6, <2>1, <2>3, <2>4 DEF Here
  <2>6. Here(tap', n, dm, drv) = Done(g, c)
    BY <1>14, <2>5 DEF Done
  <2> QED
    BY <1>11, <2>1, <2>2, <2>6
<1>15. CASE c.cmd = "B" /\ tap' = tap /\ net' = m
  <2> DEFINE n == m
  <2>1. /\ IsNet(n) /\ n.chunk = rest /\ n.toServer = net.toServer
        /\ n.tck = net.tck /\ n.trst = net.trst /\ n.toClient = net.toClient
        /\ n.response = r
    BY <1>6a
  <2>2. net' = n
    BY <1>15
  <2> HIDE DEF n
  <2>3. Answers(drv, n) = out
    BY <2>1 DEF Answers, out
  <2>4. Here(tap', n, dm, drv) = Point(g.tap, g.tck, g.trst, g.facts, g.out)
    BY <1>6, <1>15, <2>1, <2>3 DEF Here
  <2>5. Here(tap', n, dm, drv) = g /\ Done(g, c) = g
    BY <1>3, <1>15, <2>4 DEF Clean, Done
  <2> QED
    BY <1>11, <2>1, <2>2, <2>5
<1>16. c.cmd # "Q" /\ c.cmd # "?"
  BY <1>7 DEF Word
<1> QED
  BY <1>12, <1>13, <1>14, <1>15, <1>16 DEF Command, c, rest, m

-----------------------------------------------------------------------------
(* Where a path has ended.                                                 *)

LEMMA GoalSame ==
  ASSUME NEW d, NEW s, NEW h, NEW k, NEW out, h.tap = k.tap, h.facts = k.facts,
         Goal(d, s, h, out)
  PROVE  Goal(d, s, k, out)
<1>1. \A ir : Pauses(h, ir) = Pauses(k, ir)
  BY DEF Pauses
<1>2. Holds(h, Asks(d), Knows(d)) = Holds(k, Asks(d), Knows(d))
  BY DEF Holds
<1>3. \A status, data : Told(Asks(d), Knows(d), h, status, data)
                          = Told(Asks(d), Knows(d), k, status, data)
  BY DEF Told
<1> QED
  BY <1>1, <1>2, <1>3 DEF Goal

Long(d, out) ==
  /\ d.phase \in Walking => Len(out) = Fields(d.phase)
  /\ d.phase \in {"free", "reset pin"} => out = <<>>
LEMMA GoalLength ==
  ASSUME NEW d, NEW s, NEW h, NEW out, Goal(d, s, h, out)
  PROVE  Long(d, out)
<1>1. CASE d.phase = "identify"
  <2>1. Len(out) = 4
    BY <1>1 DEF Goal
  <2> QED
    BY <1>1, <2>1 DEF Fields, Long, Walking
<1>2. CASE d.phase = "access"
  <2>1. \E status, data : out = <<status, data, 0>>
    BY <1>2 DEF Goal
  <2>2. Len(out) = 3
    BY <2>1
  <2> QED
    BY <1>2, <2>2 DEF Fields, Long, Walking
<1>3. CASE d.phase \in {"reset", "free", "reset pin"}
  <2>1. out = <<>>
    BY <1>3 DEF Goal
  <2> QED
    BY <1>3, <2>1 DEF Fields, Long, Walking
<1> QED
  BY <1>1, <1>2, <1>3 DEF Walking, Long

LEMMA Lengths ==
  ASSUME NEW a, NEW b, NEW c, NEW d, IsSeq(a), IsSeq(b), IsSeq(c), IsSeq(d)
  PROVE  LET s == a \o b \o c \o d
         IN /\ Len(s) = Len(a) => b = <<>> /\ c = <<>> /\ d = <<>>
            /\ s = <<>> => a = <<>> /\ b = <<>> /\ c = <<>> /\ d = <<>>
<1>1. ASSUME NEW x, NEW y, IsSeq(x), IsSeq(y)
      PROVE  /\ Len(x \o y) = Len(x) + Len(y) /\ Len(x) \in Nat /\ Len(y) \in Nat
             /\ Len(x) = 0 => x = <<>>
             /\ Len(y) = 0 => y = <<>>
  <2>1. PICK S : x \in Seq(S) /\ y \in Seq(S)
    <3>1. PICK A : x \in Seq(A)
      BY <1>1 DEF IsSeq
    <3>2. PICK B : y \in Seq(B)
      BY <1>1 DEF IsSeq
    <3> DEFINE S == A \cup B
    <3>3. x \in Seq(S) /\ y \in Seq(S)
      BY <3>1, <3>2
    <3> QED
      BY <3>3
  <2> QED
    BY <2>1
<1> DEFINE t == a \o b
           u == t \o c
           s == u \o d
<1>2. IsSeq(t)
  BY ConcatIs
<1>3. IsSeq(u)
  BY <1>2, ConcatIs
<1>4. /\ Len(t) = Len(a) + Len(b) /\ Len(a) \in Nat /\ Len(b) \in Nat
      /\ (Len(a) = 0 => a = <<>>) /\ (Len(b) = 0 => b = <<>>)
  BY <1>1
<1> HIDE DEF t
<1>5. Len(u) = Len(t) + Len(c) /\ Len(c) \in Nat /\ (Len(c) = 0 => c = <<>>)
  BY <1>1, <1>2
<1> HIDE DEF u
<1>6. Len(s) = Len(u) + Len(d) /\ Len(d) \in Nat /\ (Len(d) = 0 => d = <<>>)
  BY <1>1, <1>3
<1>7. s = <<>> => Len(s) = 0
  OBVIOUS
<1> HIDE DEF s
<1>8. /\ Len(s) = Len(a) => b = <<>> /\ c = <<>> /\ d = <<>>
      /\ s = <<>> => a = <<>> /\ b = <<>> /\ c = <<>> /\ d = <<>>
  BY <1>4, <1>5, <1>6, <1>7
<1> QED
  BY <1>8 DEF s, u, t

Bare == Point(tap, net.tck, net.trst, Facts(dm), <<>>)
LEMMA Settled ==
  ASSUME Sound, drv.path = <<>>, NEW b, Leads(Stream(net), Bare, b)
  PROVE  /\ b.trst = FALSE /\ IsSeq(b.out) /\ Ready(View(b)) /\ View(b).out = b.out
         /\ Goal(drv, session, View(b), Answers(drv, net) \o b.out)
<1> DEFINE w == Stream(net)
           o == Answers(drv, net)
           g == Here(tap, net, dm, drv)
           c == Pre(o, b)
           v == View(c)
           u == View(b)
<1>1. IsSeq(o) /\ IsSeq(w) /\ Words(w) /\ Track(g, w, drv, session)
  BY SoundIs DEF Sound
<1>2. /\ Bare.tap = tap /\ Bare.tck = net.tck /\ Bare.trst = net.trst
      /\ Bare.facts = Facts(dm) /\ Bare.out = <<>>
  BY DEF Bare, Point
<1>3. IsSeq(<<>>) /\ o \o <<>> = o
  BY <1>1, EmptyIs, Joins
<1>4. Pre(o, Bare) = g
  BY <1>2, <1>3 DEF Pre, Here
<1>5. IsSeq(b.out) /\ Leads(w, g, c)
  <2> HIDE DEF w, o, g, c
  <2>1. IsSeq(b.out) /\ Leads(w, Pre(o, Bare), Pre(o, b))
    BY <1>1, <1>2, <1>3, Prefixed DEF w
  <2> QED
    BY <1>4, <2>1 DEF c
<1>6. /\ c.tap = b.tap /\ c.tck = b.tck /\ c.trst = b.trst /\ c.facts = b.facts
      /\ c.out = o \o b.out
  BY PreIs
<1>7. /\ v.tap = u.tap /\ v.facts = u.facts /\ v.out = o \o b.out /\ u.out = b.out
  BY <1>6 DEF View, Point
<1> HIDE DEF w, g, c, o
<1>8. c.trst = FALSE /\ Aims(drv, session, v)
  BY <1>1, <1>5 DEF Track
<1>9. Clean(b) /\ Clean(c)
  BY <1>5, LeadsClean
<1>10. b.trst = FALSE
  BY <1>6, <1>8
<1>11. Ready(u) /\ Ready(v)
  BY <1>8, <1>9, <1>10, ViewReady
<1> HIDE DEF u, v
<1>12. Goal(drv, session, v, v.out)
  <2>1. Leads(drv.path, v, v)
    BY <1>11, LeadsNone, WaitsNot DEF Ready
  <2> QED
    BY <1>8, <2>1 DEF Aims
<1>13. Goal(drv, session, u, o \o b.out)
  BY <1>7, <1>12, GoalSame
<1> QED
  BY <1>5, <1>7, <1>10, <1>11, <1>13 DEF u, o

\* With all its answers taken, the path has brought back what it was to bring.
LEMMA Resting ==
  ASSUME Sound, drv.path = <<>>,
         drv.phase \in Walking => Len(drv.got) = Fields(drv.phase)
  PROVE  /\ net.toClient = <<>> /\ net.response = <<>>
         /\ drv.phase \notin Walking => drv.got = <<>>
         /\ \A b : Leads(Stream(net), Bare, b) => b.trst = FALSE /\ Reached(drv, session, View(b))
         /\ \E b : Leads(Stream(net), Bare, b) /\ b.facts = Facts(dm)
<1> DEFINE w == Stream(net)
           o == Answers(drv, net)
           a == drv.got
           x == net.toClient
           y == net.response
<1>1. /\ IsNet(net) /\ Shape(drv, session) /\ IsSeq(w) /\ IsSeq(a) /\ IsSeq(o)
      /\ Words(w) /\ Clean(Here(tap, net, dm, drv))
  BY SoundIs DEF Sound
<1>2. IsSeq(x) /\ IsSeq(y)
  BY <1>1 DEF IsNet
<1>3. o = (a \o x) \o y
  BY DEF Answers
<1>4. drv.phase \in Walking \/ drv.phase \in {"free", "reset pin"}
  BY <1>1 DEF Shape
<1>5. ASSUME NEW b, Leads(w, Bare, b)
      PROVE  /\ x = <<>> /\ y = <<>> /\ (drv.phase \notin Walking => a = <<>>)
             /\ b.trst = FALSE /\ Reached(drv, session, View(b))
  <2> DEFINE z == b.out
             v == View(b)
             all == ((a \o x) \o y) \o z
  <2>1. /\ b.trst = FALSE /\ IsSeq(z) /\ Ready(v) /\ v.out = z
        /\ Goal(drv, session, v, all)
    BY <1>3, <1>5, Settled
  <2> HIDE DEF v
  <2>2. /\ Len(all) = Len(a) => x = <<>> /\ y = <<>> /\ z = <<>>
        /\ all = <<>> => a = <<>> /\ x = <<>> /\ y = <<>> /\ z = <<>>
    <3>1. IsSeq(a) /\ IsSeq(x) /\ IsSeq(y) /\ IsSeq(z)
      BY <1>1, <1>2, <2>1
    <3> HIDE DEF a, x, y, z
    <3> QED
      BY <3>1, Lengths
  <2> HIDE DEF all
  <2>2a. Goal(drv, session, v, all)
    BY <2>1
  <2>3. /\ drv.phase \in Walking => Len(all) = Len(a)
        /\ drv.phase \notin Walking => all = <<>>
    <3>1. Long(drv, all)
      BY <2>2a, GoalLength
    <3> QED
      BY <1>4, <3>1 DEF Long
  <2>4. x = <<>> /\ y = <<>> /\ z = <<>> /\ (drv.phase \notin Walking => a = <<>>)
    BY <2>2, <2>3
  <2>5. all = a
    <3>1. IsSeq(<<>>)
      BY EmptyIs
    <3>2. a \o <<>> = a
      BY <1>1, <3>1, Joins
    <3> QED
      BY <2>4, <3>2 DEF all
  <2>6. Reached(drv, session, v)
    BY <2>1, <2>4, <2>5 DEF Reached
  <2> QED
    BY <2>1, <2>4, <2>6 DEF v
<1>6. \E b : Leads(w, Bare, b) /\ b.facts = Facts(dm)
  <2>1. /\ Bare.tap = tap /\ Bare.tck = net.tck /\ Bare.trst = net.trst
        /\ Bare.facts = Facts(dm) /\ Bare.out = <<>>
        /\ Bare = Point(Bare.tap, Bare.tck, Bare.trst, Bare.facts, Bare.out)
    BY DEF Bare, Point
  <2>2. Clean(Bare)
    <3> DEFINE g == Here(tap, net, dm, drv)
    <3>1. g.tap = tap /\ g.tck = net.tck /\ g.trst = net.trst
      BY HereIs
    <3> HIDE DEF g
    <3>2. Clean(g)
      BY <1>1 DEF g
    <3> QED
      BY <2>1, <3>1, <3>2 DEF Clean
  <2> HIDE DEF w
  <2>3. IsSeq(Bare.out)
    BY <2>1, EmptyIs
  <2>4. \E b : Leads(w, Bare, b) /\ b.facts = Bare.facts
    BY <1>1, <2>2, <2>3, Runs DEF w
  <2> QED
    BY <2>1, <2>4
<1>7. x = <<>> /\ y = <<>> /\ (drv.phase \notin Walking => a = <<>>)
  BY <1>5, <1>6
<1> QED
  BY <1>5, <1>6, <1>7

\* A step of the driver, when it is due, finds the path where it was to end.
LEMMA DriverDrives ==
  ASSUME Sound, Driver, NEW v, Reached(drv, session, v)
  PROVE  Driven(v)
<1>1. Shape(drv, session)
  BY SoundIs
<1> QED
  BY <1>1, CallDrives, IdentifiedDrives, AccessDrives, ResetDrives DEF Driver

LEMMA DriverRests ==
  ASSUME Sound, Driver
  PROVE  /\ drv.path = <<>> /\ UNCHANGED <<tap, dm>>
         /\ drv.phase \in Walking => Len(drv.got) = Fields(drv.phase)
<1>1. Shape(drv, session)
  BY SoundIs
<1>2. CASE Call
  BY <1>1, <1>2 DEF Call, Shape, Rests, Walking
<1>3. ASSUME NEW phase \in Walking, Walked(phase)
      PROVE  /\ drv.path = <<>> /\ UNCHANGED <<tap, dm>>
             /\ drv.phase \in Walking => Len(drv.got) = Fields(drv.phase)
  BY <1>1, <1>3 DEF Walked, Shape, Walking, Works
<1> QED
  BY <1>2, <1>3 DEF Driver, Identified, dmi_access, reset_dmi, Walking

LEMMA CallsKeep ==
  ASSUME Sound, Calls_
  PROVE  /\ Sane(drv') /\ (Ended' \/ Sound')
         /\ \E v : v.facts = Facts(dm) /\ Leaves(v)
<1> DEFINE w == Stream(net)
           g == Here(tap', net', dm', drv')
<1>1. Driver /\ UNCHANGED <<transport, net>>
  BY DEF Calls_
<1>2. /\ drv.path = <<>> /\ UNCHANGED <<tap, dm>>
      /\ drv.phase \in Walking => Len(drv.got) = Fields(drv.phase)
  BY <1>1, DriverRests
<1>3. /\ net.toClient = <<>> /\ net.response = <<>>
      /\ \A b : Leads(w, Bare, b) => b.trst = FALSE /\ Reached(drv, session, View(b))
      /\ \E b : Leads(w, Bare, b) /\ b.facts = Facts(dm)
  BY <1>2, Resting
<1>4. /\ IsNet(net) /\ IsDm(dm) /\ Words(w) /\ Clean(Here(tap, net, dm, drv))
      /\ Remote \/ Quiet(net)
  BY DEF Sound
<1>5. ASSUME NEW b, Leads(w, Bare, b)
      PROVE  b.trst = FALSE /\ Driven(View(b))
  BY <1>1, <1>3, <1>5, DriverDrives
<1>6. PICK b : Leads(w, Bare, b) /\ b.facts = Facts(dm)
  BY <1>3
<1>7. Driven(View(b))
  BY <1>5, <1>6
<1>8. View(b).facts = Facts(dm) /\ Leaves(View(b))
  BY <1>6, <1>7 DEF Driven, View, Point
<1>9. Sane(drv')
  BY <1>7 DEF Driven
<1>10. ASSUME ~Ended' PROVE Sound'
  <2>1. Turns(drv', session', View(b))
    BY <1>7, <1>10 DEF Driven
  <2>2. Shape(drv', session') /\ drv'.got = <<>>
    BY <2>1 DEF Turns
  <2>3. Answers(drv', net') = <<>>
    <3>1. <<>> \o <<>> = <<>>
      BY EmptyIs, Joins
    <3> QED
      BY <1>1, <1>3, <2>2, <3>1 DEF Answers
  <2>4. g = Bare
    BY <1>1, <1>2, <2>3 DEF Here, Bare
  <2>5. Clean(g)
    <3> DEFINE h == Here(tap, net, dm, drv)
    <3>1. h.tap = tap /\ h.tck = net.tck /\ h.trst = net.trst
      BY HereIs
    <3>2. /\ g.tap = tap /\ g.tck = net.tck /\ g.trst = net.trst
          /\ g = Point(g.tap, g.tck, g.trst, g.facts, g.out)
      BY <2>4 DEF Bare, Point
    <3> HIDE DEF g, h
    <3>3. Clean(h)
      BY <1>4 DEF h
    <3> QED
      BY <3>1, <3>2, <3>3 DEF Clean
  <2> HIDE DEF g
  <2>6. Track(g, w, drv', session')
    <3> SUFFICES ASSUME NEW c, Leads(w, g, c)
                 PROVE  c.trst = FALSE /\ Aims(drv', session', View(c))
      BY DEF Track
    <3>1. c.trst = FALSE /\ Driven(View(c))
      BY <1>5, <2>4
    <3> QED
      BY <1>10, <3>1 DEF Driven, Turns
  <2>7. Stream(net') = w
    BY <1>1
  <2> QED
    BY <1>1, <1>2, <1>4, <2>2, <2>5, <2>6, <2>7 DEF Sound, Remote, g
<1> QED
  BY <1>8, <1>9, <1>10

\* The reset pin leaves the TAP in reset whatever it was doing.
ResetWords == <<Blink, ResetPins(TRUE), ResetPins(FALSE)>>
LEMMA ResetWordsAre ==
  /\ Words(ResetWords) /\ IsSeq(ResetWords) /\ Len(ResetWords) = 3
  /\ ResetWords[1] = Blink /\ ResetWords[2] = ResetPins(TRUE)
  /\ ResetWords[3] = ResetPins(FALSE)
<1> DEFINE x == Blink
           y == ResetPins(TRUE)
           z == ResetPins(FALSE)
           s == <<x, y, z>>
           S == {x, y, z}
<1>1. Word(x) /\ Word(y) /\ Word(z)
  BY DEF Word, IsPulse, Blink, ResetPins
<1> HIDE DEF x, y, z
<1>2. s \in Seq(S) /\ Len(s) = 3 /\ s[1] = x /\ s[2] = y /\ s[3] = z
  OBVIOUS
<1> HIDE DEF s, S
<1>3. IsSeq(s)
  BY <1>2 DEF IsSeq
<1>4. \A i \in 1 .. 3 : i = 1 \/ i = 2 \/ i = 3
  OBVIOUS
<1>5. \A i \in 1 .. Len(s) : Word(s[i])
  BY <1>1, <1>2, <1>4
<1>6. ResetWords = s
  BY DEF ResetWords, s, x, y, z
<1> QED
  BY <1>2, <1>3, <1>5, <1>6 DEF Words, x, y, z

\* Nothing is asked of the debug module, from b on.
Silent(b, out) == b.tap.op = None /\ b.out = out
AtReset(b) == b.tap.state = "reset" /\ b.tap.ir = IR_IDCODE
Freed(b) == b.trst = FALSE
LEMMA SilentWaits ==
  ASSUME NEW g, NEW h, NEW out, Silent(g, out), Waits(g, h)
  PROVE  /\ Silent(h, out) /\ IsTap(h.tap) /\ (AtReset(g) => AtReset(h))
         /\ Freed(g) => Freed(h)
BY WaitsStill DEF Silent, Waits, Clean, AtReset, Freed

LEMMA StepBlinks ==
  ASSUME NEW g, NEW c, NEW h, NEW out, Silent(g, out), c = Blink, Step(g, c, h)
  PROVE  Silent(h, out)
<1>1. c.cmd = "B" /\ ~IsPulse(c)
  BY DEF Blink, IsPulse
<1>2. PICK k : Waits(g, k) /\ h = k
  BY <1>1 DEF Step, Move, Done
<1> QED
  BY <1>2, SilentWaits

LEMMA StepHolds ==
  ASSUME NEW g, NEW c, NEW h, NEW out, Silent(g, out), c = ResetPins(TRUE), Step(g, c, h)
  PROVE  Silent(h, out) /\ AtReset(h)
<1>1. c.cmd = "reset" /\ ~IsPulse(c) /\ c.trst = TRUE
  BY DEF ResetPins, IsPulse
<1>2. PICK k : Waits(g, k) /\ h = Done(k, c)
  BY <1>1 DEF Step, Move
<1>3. h.tap = InReset(k.tap) /\ h.out = k.out
  BY <1>1, <1>2 DEF Done, Point
<1>4. Silent(k, out) /\ IsTap(k.tap)
  BY <1>2, SilentWaits
<1>5. /\ InReset(k.tap).state = "reset" /\ InReset(k.tap).ir = IR_IDCODE
      /\ InReset(k.tap).op = k.tap.op
  BY <1>4, ResetTapIs
<1> QED
  BY <1>3, <1>4, <1>5 DEF Silent, AtReset

LEMMA StepFrees ==
  ASSUME NEW g, NEW c, NEW h, NEW out, Silent(g, out), AtReset(g), c = ResetPins(FALSE),
         Step(g, c, h)
  PROVE  Silent(h, out) /\ AtReset(h) /\ Freed(h)
<1>1. c.cmd = "reset" /\ ~IsPulse(c) /\ c.trst = FALSE
  BY DEF ResetPins, IsPulse
<1>2. PICK k : Waits(g, k) /\ h = Done(k, c)
  BY <1>1 DEF Step, Move
<1>3. h.tap = k.tap /\ h.out = k.out /\ h.trst = FALSE
  BY <1>1, <1>2 DEF Done, Point
<1>4. Silent(k, out) /\ AtReset(k)
  BY <1>2, SilentWaits
<1> QED
  BY <1>3, <1>4 DEF Silent, AtReset, Freed

LEMMA ResetLeads ==
  ASSUME NEW b, Clean(b), NEW out, Silent(b, out), NEW h, Leads(ResetWords, b, h)
  PROVE  Silent(h, out) /\ AtReset(h) /\ Freed(h)
<1> DEFINE s == ResetWords
<1>1. /\ Len(s) = 3 /\ s[1] = Blink /\ s[2] = ResetPins(TRUE) /\ s[3] = ResetPins(FALSE)
  BY ResetWordsAre
<1> HIDE DEF s
<1>2. PICK k, m, n : Step(b, s[1], k) /\ Step(k, s[2], m) /\ Step(m, s[3], n) /\ Waits(n, h)
  BY <1>1, TakeThree DEF s
<1>3. Silent(k, out)
  <2>1. s[1] = Blink
    BY <1>1
  <2> QED
    BY <1>2, <2>1, StepBlinks
<1>4. Silent(m, out) /\ AtReset(m)
  <2> DEFINE c == s[2]
  <2>1. c = ResetPins(TRUE) /\ Step(k, c, m)
    BY <1>1, <1>2
  <2> HIDE DEF c
  <2> QED
    BY <1>3, <2>1, StepHolds
<1>5. Silent(n, out) /\ AtReset(n) /\ Freed(n)
  <2> DEFINE c == s[3]
  <2>1. c = ResetPins(FALSE) /\ Step(m, c, n)
    BY <1>1, <1>2
  <2> HIDE DEF c
  <2> QED
    BY <1>4, <2>1, StepFrees
<1> QED
  BY <1>2, <1>5, SilentWaits

LEMMA FreeAfresh ==
  ASSUME NEW s, AreCalls(s), Afresh(s), NEW b, Clean(b), Silent(b, <<>>), AtReset(b)
  PROVE  Turns(Free, s, View(b))
<1> DEFINE e == Free
           v == View(b)
<1>1. /\ IsDriver(e) /\ e.phase = "free" /\ e.path = <<>> /\ e.got = <<>> /\ e.call = None
      /\ e.error = None
  BY DEF Free, IsDriver
<1>2. /\ v.tap.op = None /\ v.tap.state = "reset" /\ v.tap.ir = IR_IDCODE /\ v.out = <<>>
  <2>1. Fall(b.tap) = b.tap
    BY FallIs DEF Clean, AtReset
  <2> QED
    BY <2>1 DEF View, Point, Silent, AtReset
<1> HIDE DEF e, v
<1>3. Shape(e, s)
  <2>1. Pulses(e.path) /\ IsSeq(e.got)
    <3>1. IsSeq(<<>>) /\ Len(<<>>) = 0
      BY EmptyIs
    <3> QED
      BY <1>1, <3>1 DEF Pulses
  <2>2. Rests(e, s)
    BY <1>1 DEF Rests
  <2> QED
    BY <1>1, <2>1, <2>2 DEF Shape
<1>4. Aims(e, s, v)
  <2> SUFFICES ASSUME NEW h, Leads(<<>>, v, h) PROVE Goal(e, s, h, h.out)
    BY <1>1 DEF Aims
  <2>1. h.tap.op = None /\ h.tap.ir = IR_IDCODE /\ h.out = <<>>
    BY <1>2, LeadsNone, WaitsStill
  <2> QED
    BY <1>1, <2>1 DEF Goal
<1> QED
  BY <1>1, <1>3, <1>4 DEF Turns, e, v

LEMMA ClientResetKeeps ==
  ASSUME Sound, ClientReset
  PROVE  Sane(drv') /\ Sound' /\ drv.call = None
<1> DEFINE w == Stream(net)
           g == Here(tap, net, dm, drv)
           b == net.toServer
           c == net.chunk
           cs == ResetWords
           more == b \o cs
<1>1. /\ Remote /\ UNCHANGED <<session, tap, dm, transport>> /\ drv.phase = "reset pin"
      /\ drv' = Free /\ net' = [net EXCEPT !.toServer = more]
  BY DEF ClientReset, Deliver, ResetWords
<1>2. /\ IsNet(net) /\ Shape(drv, session) /\ IsSeq(w) /\ IsDm(dm)
  BY SoundIs
<1>3. Words(w) /\ Clean(g) /\ Track(g, w, drv, session)
  BY DEF Sound
<1>4. IsSeq(b) /\ IsSeq(c)
  BY <1>2 DEF IsNet
<1>5. drv.path = <<>> /\ drv.call = None /\ Afresh(session) /\ AreCalls(session)
      /\ drv.phase \notin Walking
  BY <1>1, <1>2 DEF Shape, Rests, Walking
<1>6. /\ net.toClient = <<>> /\ net.response = <<>> /\ drv.got = <<>>
      /\ \A k : Leads(w, Bare, k) => k.trst = FALSE /\ Reached(drv, session, View(k))
      /\ \E k : Leads(w, Bare, k)
  BY <1>5, Resting
<1>7. Words(cs) /\ IsSeq(cs)
  BY ResetWordsAre
<1> HIDE DEF cs
<1>8. IsSeq(more)
  BY <1>4, <1>7, ConcatIs
<1>9. Joined(c, b, cs)
  BY <1>4, <1>7, JoinedAre
<1>10. c \o more = w \o cs
  BY <1>9 DEF Stream, Joined
<1> HIDE DEF more
<1>11. /\ IsNet(net') /\ net'.toServer = more /\ net'.chunk = c
       /\ net'.response = net.response /\ net'.toClient = net.toClient
       /\ net'.tck = net.tck /\ net'.trst = net.trst
  BY <1>1, <1>2, <1>8 DEF IsNet
<1>12. Stream(net') = w \o cs
  BY <1>10, <1>11 DEF Stream
<1>13. drv'.got = <<>>
  BY <1>1 DEF Free
<1>14. Here(tap', net', dm', drv') = g /\ g = Bare
  <2>1. <<>> \o <<>> = <<>>
    BY EmptyIs, Joins
  <2>2. Answers(drv, net) = <<>> /\ Answers(drv', net') = <<>>
    BY <1>6, <1>11, <1>13, <2>1 DEF Answers
  <2> QED
    BY <1>1, <1>11, <2>2 DEF Here, Bare
<1> HIDE DEF w, g
<1>15. Words(w \o cs)
  BY <1>3, <1>7, WordsJoin
<1>16. ASSUME NEW k, Leads(w \o cs, g, k)
       PROVE  k.trst = FALSE /\ Turns(Free, session, View(k))
  <2>1. PICK h : Leads(w, g, h) /\ Leads(cs, h, k)
    BY <1>2, <1>3, <1>7, <1>16, LeadsSplit
  <2>2. Clean(h) /\ Clean(k)
    BY <2>1, LeadsClean
  <2>3. Goal(drv, session, View(h), drv.got) /\ View(h).out = <<>>
    BY <1>6, <1>14, <2>1 DEF Reached, w
  <2>4. Silent(h, <<>>)
    <3>1. View(h).tap.op = None
      BY <1>1, <2>3 DEF Goal
    <3>2. View(h).tap = (IF h.tck = 1 THEN Fall(h.tap) ELSE h.tap) /\ h.out = <<>>
      BY <2>3 DEF View, Point
    <3>3. CASE h.tck = 1
      <4>1. IsTap(h.tap)
        BY <2>2 DEF Clean
      <4>2. (IF Issues(h.tap) THEN Issued(h.tap) ELSE h.tap.op) = None
        BY <3>1, <3>2, <3>3, <4>1, FallIs
      <4>3. Issues(h.tap) => h.tap.op = None
        BY DEF Issues, Busy
      <4> QED
        BY <3>2, <4>2, <4>3 DEF Silent
    <3>4. CASE h.tck # 1
      BY <3>1, <3>2, <3>4 DEF Silent
    <3> QED
      BY <3>3, <3>4
  <2>5. Silent(k, <<>>) /\ AtReset(k) /\ Freed(k)
    BY <2>1, <2>2, <2>4, ResetLeads DEF cs
  <2>6. Turns(Free, session, View(k))
    BY <1>5, <2>2, <2>5, FreeAfresh
  <2> QED
    BY <2>5, <2>6 DEF Freed
<1>17. Track(g, w \o cs, drv', session)
  BY <1>1, <1>16 DEF Track, Turns
<1>18. Sane(drv') /\ Shape(drv', session)
  <2>1. PICK h : Leads(w, g, h)
    BY <1>6, <1>14 DEF w
  <2>2. Clean(h) /\ IsSeq(h.out)
    <3>1. Clean(h)
      BY <2>1, LeadsClean
    <3>2. View(h).out = <<>> /\ View(h).out = h.out
      BY <1>6, <1>14, <2>1 DEF Reached, View, Point, w
    <3> QED
      BY <3>1, <3>2, EmptyIs
  <2>3. PICK k : Leads(cs, h, k)
    BY <1>7, <2>2, Runs
  <2>4. Turns(Free, session, View(k))
    BY <1>2, <1>7, <1>16, <2>1, <2>3, LeadsConcat
  <2> QED
    BY <1>1, <2>4, TurnsSane DEF Turns
<1> QED
  BY <1>1, <1>2, <1>3, <1>5, <1>11, <1>12, <1>14, <1>15, <1>17, <1>18 DEF Sound, Remote

LEMMA SessionCalls ==
  ASSUME NEW s \in Sessions
  PROVE  AreCalls(s) /\ (s # <<>> => Afresh(s))
<1>1. /\ s \in Seq(CallSet) /\ (s # <<>> => Head(s).op = "initialize")
      /\ \A i \in DOMAIN s : s[i].op = "write" => Len(s[i].data) = s[i].size
  BY DebuggerAssumption
<1>2. ASSUME NEW i \in 1 .. Len(s) PROVE IsCall(s[i])
  <2>1. i \in DOMAIN s /\ s[i] \in CallSet
    BY <1>1
  <2> DEFINE c == s[i]
  <2>2. c.op = "write" => Len(c.data) = c.size
    BY <1>1, <2>1
  <2>3. c \in CallSet
    BY <2>1
  <2> HIDE DEF c
  <2>4. IsCall(c)
    BY <2>2, <2>3 DEF IsCall, CallSet
  <2> QED
    BY <2>4 DEF c
<1> QED
  BY <1>1, <1>2 DEF AreCalls, IsSeq, Afresh

LEMMA TInvInit == Init => TInv
<1> SUFFICES ASSUME Init PROVE TInv
  OBVIOUS
<1> DEFINE g == Here(tap, net, dm, drv)
<1>1. /\ session \in Sessions /\ (Remote => session \in RemoteSessions)
      /\ drv = Free \/ (Remote /\ drv = [Free EXCEPT !.phase = "reset pin"])
  BY DEF Init, JtagInit, Remote
<1>2. PICK s \in TapStates :
        tap = [state |-> s, ir |-> IR_IDCODE, shift |-> <<0, 0>>, sticky |-> FALSE,
               op |-> None, data |-> 0]
  BY DEF Init, JtagInit, DebugInit
<1>3. IsTap(tap) /\ tap.ir = IR_IDCODE /\ tap.op = None /\ Calm(tap, 0)
  BY <1>2 DEF IsTap, Calm
<1>4. IsDm(dm)
  BY DEF Init, JtagInit, DebugInit, DebugReset, IsDm
<1>5. /\ IsSeq(<<>>) /\ <<>> \o <<>> = <<>>
  BY EmptyIs, Joins
<1>6. Quiet(net) /\ IsNet(net)
  BY <1>5 DEF Init, NetInit, Quiet, IsNet
<1>7. /\ IsDriver(drv) /\ drv.path = <<>> /\ drv.got = <<>> /\ drv.call = None
      /\ drv.error = None /\ drv.phase \in {"free", "reset pin"}
      /\ drv.phase = "reset pin" => Remote
  <2>1. /\ Free.path = <<>> /\ Free.got = <<>> /\ Free.call = None /\ Free.error = None
        /\ Free.phase = "free" /\ IsDriver(Free)
    BY DEF Free, IsDriver
  <2>2. CASE drv = Free
    BY <2>1, <2>2
  <2>3. CASE Remote /\ drv = [Free EXCEPT !.phase = "reset pin"]
    BY <2>1, <2>3 DEF IsDriver
  <2> QED
    BY <1>1, <2>2, <2>3
<1>8. Sane(drv)
  BY <1>7 DEF Sane
<1>9. ASSUME ~Ended PROVE Sound
  <2>1. session # <<>>
    <3>1. CASE Remote
      BY <1>1, <3>1, RemoteAssumption
    <3>2. CASE ~Remote
      BY <1>7, <1>9, <3>2 DEF Ended
    <3> QED
      BY <3>1, <3>2
  <2>2. AreCalls(session) /\ Afresh(session)
    BY <1>1, <2>1, SessionCalls
  <2>3. Shape(drv, session)
    <3>1. Pulses(<<>>)
      <4>1. Len(<<>>) = 0
        OBVIOUS
      <4> QED
        BY <1>5, <4>1 DEF Pulses
    <3> QED
      BY <1>5, <1>7, <2>2, <3>1 DEF Shape, Rests
  <2>4. Stream(net) = <<>> /\ Answers(drv, net) = <<>> /\ net.tck = 0 /\ Freed(net)
    BY <1>5, <1>6, <1>7 DEF Quiet, Stream, Answers, Freed
  <2>5. g.tap = tap /\ g.tck = 0 /\ Freed(g) /\ g.out = <<>>
    BY <2>4, HereIs DEF Freed
  <2>6. Clean(g)
    <3>1. g = Point(tap, 0, FALSE, Facts(dm), <<>>)
      BY <2>4 DEF Here, Freed
    <3> DEFINE no == FALSE
    <3>2. no \in BOOLEAN /\ ~(no = TRUE) /\ g = Point(tap, 0, no, Facts(dm), <<>>)
      BY <3>1
    <3> HIDE DEF no, g
    <3> QED
      BY <1>3, <3>2, PointClean
  <2> HIDE DEF g
  <2>7. Track(g, <<>>, drv, session)
    <3> SUFFICES ASSUME NEW b, Leads(<<>>, g, b)
                 PROVE  b.trst = FALSE /\ Aims(drv, session, View(b))
      BY DEF Track
    <3>1. Waits(g, b)
      BY LeadsNone
    <3>2. /\ b = Point(b.tap, b.tck, b.trst, b.facts, b.out) /\ b.tck = 0 /\ Freed(b)
      BY <2>5, <3>1 DEF Waits, Clean, Freed
    <3>3. b.tap.op = None /\ b.tap.ir = IR_IDCODE /\ b.out = <<>>
      BY <1>3, <2>5, <3>1, WaitsStill
    <3>4. View(b) = b
      BY <3>2, ViewSame DEF Freed
    <3>5. ASSUME NEW h, Leads(<<>>, b, h) PROVE Goal(drv, session, h, h.out)
      <4>1. h.tap.op = None /\ h.tap.ir = IR_IDCODE /\ h.out = <<>>
        BY <3>3, <3>5, LeadsNone, WaitsStill
      <4> QED
        BY <1>7, <2>2, <4>1 DEF Goal
    <3> QED
      BY <1>7, <3>2, <3>4, <3>5 DEF Aims, Freed
  <2>8. Words(<<>>)
    <3>1. Len(<<>>) = 0
      OBVIOUS
    <3> QED
      BY <1>5, <3>1 DEF Words
  <2> QED
    BY <1>4, <1>6, <2>3, <2>4, <2>6, <2>7, <2>8 DEF Sound, g
<1> QED
  BY <1>8, <1>9 DEF TInv

LEMMA ShapeSane ==
  ASSUME NEW d, NEW s, Shape(d, s)
  PROVE  Sane(d) /\ (d.call # None => d.phase # "free")
BY DEF Shape, Sane, Rests, Walking

\* What a call that returns by this step says of the hart.
LeftAsAsked ==
  /\ Returns("halt") => dm.hart = "halted"
  /\ Returns("resume") \/ Returns("reset_soc") => dm.hart = "running"

LEMMA SoundNext ==
  ASSUME Sound, ~Ended, Next
  PROVE  TInv' /\ LeftAsAsked
<1>1. Shape(drv, session) /\ IsDriver(drv)
  BY SoundIs DEF Shape
<1>2. ASSUME Sound', drv.call = None \/ drv'.phase = drv.phase
      PROVE  TInv' /\ LeftAsAsked
  <2>1. Shape(drv', session')
    BY <1>2 DEF Sound
  <2>2. Sane(drv')
    BY <2>1, ShapeSane
  <2>3. drv.call # None => drv.phase # "free"
    BY <1>1, ShapeSane
  <2>4. LeftAsAsked
    BY <1>2, <2>3 DEF LeftAsAsked, Returns
  <2> QED
    BY <1>2, <2>2, <2>4 DEF TInv
<1>3. CASE Calls_
  <2>1. /\ Sane(drv') /\ (Ended' \/ Sound')
        /\ \E v : v.facts = Facts(dm) /\ Leaves(v)
    BY <1>3, CallsKeep
  <2>2. LeftAsAsked
    <3>1. PICK v : v.facts = Facts(dm) /\ Leaves(v)
      BY <2>1
    <3>2. IsDm(dm)
      BY SoundIs
    <3>3. ASSUME NEW op, Returns(op) PROVE Needs(op, 0) \subseteq Facts(dm)
      BY <3>1, <3>3 DEF Leaves, Returns
    <3>4. Returns("halt") => dm.hart = "halted"
      BY <3>3 DEF Needs, Facts
    <3>5. Returns("resume") => dm.hart = "running"
      BY <3>3 DEF Needs, Facts
    <3>6. Returns("reset_soc") => dm.hart = "running"
      BY <3>3 DEF Needs, Facts
    <3> QED
      BY <3>4, <3>5, <3>6 DEF LeftAsAsked
  <2> QED
    BY <2>1, <2>2 DEF TInv
<1>4. CASE Pulse
  <2>1. drv'.phase = drv.phase
    BY <1>1, <1>4 DEF Pulse, pulse, IsDriver
  <2> QED
    BY <1>2, <1>4, <2>1, PulseKeeps
<1>5. CASE ClientSend
  <2>1. drv'.phase = drv.phase
    BY <1>1, <1>5 DEF ClientSend, IsDriver
  <2> QED
    BY <1>2, <1>5, <2>1, ClientSendKeeps
<1>6. CASE ClientReceive
  <2>1. drv'.phase = drv.phase
    BY <1>1, <1>6 DEF ClientReceive, IsDriver
  <2> QED
    BY <1>2, <1>6, <2>1, ClientReceiveKeeps
<1>7. CASE ClientReset
  BY <1>2, <1>7, ClientResetKeeps
<1>8. ~ClientEnd
  BY DEF ClientEnd
<1>9. CASE Server
  <2>1. drv' = drv
    BY <1>9 DEF Server, Accept, Receive, Command, send_all
  <2>2. Sound'
    BY <1>9, AcceptKeeps, ReceiveKeeps, CommandKeeps, SendAllKeeps DEF Server
  <2> QED
    BY <1>2, <2>1, <2>2
<1>10. CASE Port
  <2>1. drv' = drv
    BY <1>10 DEF Port
  <2> QED
    BY <1>2, <1>10, <2>1, PortKeeps
<1>11. ~Over
  BY DEF Over
<1> QED
  BY <1>3, <1>4, <1>5, <1>6, <1>7, <1>8, <1>9, <1>10, <1>11 DEF Next, Client

LEMMA TInvNext == TInv /\ [Next]_vars => TInv' /\ (LeftAsAsked \/ UNCHANGED vars)
<1> SUFFICES ASSUME TInv, [Next]_vars PROVE TInv' /\ (LeftAsAsked \/ UNCHANGED vars)
  OBVIOUS
<1>1. CASE UNCHANGED vars
  <2>1. UNCHANGED <<tap, dm, session, drv, transport, net>>
    BY <1>1 DEF vars
  <2>2. Sane(drv') /\ (Ended \/ Sound => Ended' \/ Sound')
    BY <1>1, <2>1, StillKeeps DEF TInv, Ended
  <2>3. TInv'
    BY <2>2 DEF TInv
  <2> QED
    BY <1>1, <2>3
<1>2. CASE Ended /\ Next
  <2>1. Sane(drv)
    BY DEF TInv
  <2>2. /\ Sane(drv') /\ Ended'
        /\ drv.call # None => drv'.phase # "free" \/ drv'.error # None
    BY <1>2, <2>1, EndedStays
  <2>3. TInv'
    BY <2>2 DEF TInv
  <2>4. LeftAsAsked
    BY <2>2 DEF LeftAsAsked, Returns
  <2> QED
    BY <2>3, <2>4
<1>3. CASE ~Ended /\ Next
  BY <1>3, SoundNext DEF TInv
<1> QED
  BY <1>1, <1>2, <1>3

LEMMA TInvInStep == TInv => InStep
<1> SUFFICES ASSUME TInv, drv.phase \in Walking, drv.path = <<>>,
                    net.toServer = <<>>, net.chunk = <<>>
             PROVE  /\ tap.state = "idle"
                    /\ tap.ir = IF drv.phase = "access" THEN IR_DMI ELSE IR_DTMCS
  BY DEF InStep, Walking
<1> DEFINE g == Here(tap, net, dm, drv)
           v == View(g)
<1>1. Sound
  BY DEF TInv, Ended, Walking
<1>2. Stream(net) = <<>>
  <2>1. <<>> \o <<>> = <<>>
    BY EmptyIs, Joins
  <2> QED
    BY <2>1 DEF Stream
<1>3. Clean(g) /\ Track(g, <<>>, drv, session)
  BY <1>1, <1>2 DEF Sound
<1>4. g.tap = tap /\ IsTap(tap)
  BY <1>1, SoundIs, HereIs
<1> HIDE DEF g
<1>5. g.trst = FALSE /\ Aims(drv, session, v)
  <2>1. Leads(<<>>, g, g)
    BY <1>3, LeadsNone, WaitsNot
  <2> QED
    BY <1>3, <2>1 DEF Track
<1>6. v.tap = IF g.tck = 1 THEN Fall(tap) ELSE tap
  BY <1>4 DEF View, Point
<1>7. Ready(v)
  BY <1>3, <1>5, ViewReady
<1> HIDE DEF v
<1>8. Goal(drv, session, v, v.out)
  <2>1. Leads(<<>>, v, v)
    BY <1>7, LeadsNone, WaitsNot DEF Ready
  <2> QED
    BY <1>5, <2>1 DEF Aims
<1>9. /\ v.tap.state = "idle"
      /\ v.tap.ir = IF drv.phase = "access" THEN IR_DMI ELSE IR_DTMCS
  BY <1>8 DEF Goal, Pauses, Walking
<1>10. v.tap = tap
  <2>1. /\ Fall(tap).state = tap.state
        /\ tap.state = "idle" => Fall(tap) = tap
    BY <1>4, FallIs
  <2>2. Fall(tap) = tap
    BY <1>6, <1>9, <2>1
  <2> QED
    BY <1>6, <2>2
<1> QED
  BY <1>9, <1>10

LEMMA TInvNeverMistaken == TInv => NeverMistaken
BY DEF TInv, Sane, NeverMistaken

LEMMA AlwaysTInv == Spec => []TInv
<1>1. TInv /\ [Next]_vars => TInv'
  BY TInvNext
<1> QED
  BY <1>1, TInvInit, PTL DEF Spec, SafeSpec

-----------------------------------------------------------------------------
\* jtag.cpp:124. At the end of a path the TAP is idle with the register the path
\* selected, wherever it was before the first call; over the socket, once the
\* server has done what it was sent.
THEOREM StaysInStep == Spec => []InStep
BY AlwaysTInv, TInvInStep, PTL

\* jtag.cpp:137, remote_bitbang.cpp:189. Every scan brings back the register it
\* scanned, a field for a field: no call fails because the debug port was mistaken,
\* however often an access is tried again and however the commands and their
\* answers are cut into chunks.
THEOREM MistakesNothing == Spec => []NeverMistaken
BY AlwaysTInv, TInvNeverMistaken, PTL

\* jtag.cpp:218. A call that returns leaves the hart halted after halt, running
\* after resume and reset_soc: no access of it is lost, and none is done again
\* that would undo it.
THEOREM LeavesTheHart == Spec => HartAsAsked
<1>1. TInv /\ [Next]_vars => LeftAsAsked \/ UNCHANGED vars
  BY TInvNext
<1>2. TInv /\ [Next]_vars =>
        [/\ Returns("halt") => dm.hart = "halted"
         /\ Returns("resume") \/ Returns("reset_soc") => dm.hart = "running"]_vars
  BY <1>1 DEF LeftAsAsked
<1> QED
  BY <1>2, AlwaysTInv, PTL DEF Spec, SafeSpec, HartAsAsked
=============================================================================

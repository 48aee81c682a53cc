---------------------------- MODULE FloppyProofs ----------------------------
(***************************************************************************)
(* Proofs about Floppy, for any number of processes and attempts, any      *)
(* geometry of the disk, and requests of any number of sectors.            *)
(*                                                                         *)
(* The steps a process has left are a program; the proofs go through it    *)
(* with a label for each place between two steps, which says what holds of *)
(* the lock, the controller and the buffer when the process is there.      *)
(***************************************************************************)
EXTENDS Floppy, ListLemmas

-----------------------------------------------------------------------------
(***************************************************************************)
(* Labels                                                                  *)
(***************************************************************************)
Commands ==
    [op : {"sense", "specify"}] \cup [op : {"seek", "calibrate"}, cyl : Int]
        \cup [op : {"read"}, chs : {Chs(l) : l \in Nat}]

Steps ==
    [op : {"acquire", "release", "sleep", "wait", "sense", "copy"}]
        \cup [op : {"dor"}, value : {"off", "on", "motor"}]
        \cup [op : {"send"}, cmd : Commands]
        \cup [op : {"test"}, cyl : Int, name : {"seek", "calibrate"}, left : Nat]
        \cup [op : {"dma"}, place : Nat]
        \cup [op : {"result"}, turn : Nat]

Mode == {"idle", "off", "reset", "move", "read", "answer"}

\* held: how often the process has the lock; dor: what the DOR is set to;
\* mode: what the controller does; on: the cylinder of the head, and place:
\* that of the DMA channel in the buffer, -1 if the driver does not know;
\* done: the turns of the loop that have read their sector.
Label ==
    [held : Nat, dor : {"off", "on", "motor"}, mode : Mode,
     on : Int, place : Int, done : Nat]

AtRest ==
    [held |-> 0, dor |-> "on", mode |-> "idle", on |-> -1, place |-> -1, done |-> 0]

\* What a step needs, in the request r.
May(r, x, a) ==
    /\ x.op # "acquire" => a.held > 0
    /\ x.op = "release" /\ a.held = 1 => a.dor = "on" /\ a.mode = "idle"
    /\ x.op = "dor" => a.mode = IF a.dor = "off" THEN "off" ELSE "idle"
    /\ x.op = "send" => a.mode = "idle"
    /\ x.op = "send" /\ x.cmd.op = "read" =>
           /\ a.dor = "motor" /\ a.done < r.count /\ a.place = a.done
           /\ x.cmd.chs = Chs(LbaAt(r.lba, a.done)) /\ a.on = x.cmd.chs.cyl
    /\ x.op = "wait" => a.mode \in {"reset", "move", "read"}
    /\ x.op = "sense" => a.mode = "answer"
    /\ x.op \in {"test", "dma"} => a.mode = "idle"
    /\ x.op = "result" => /\ a.mode = "answer" /\ a.dor = "motor"
                          /\ a.done = x.turn + 1 /\ a.done <= r.count
    /\ x.op = "copy" => a.done = r.count

\* Where a command leads.
Sent(c, a) ==
    IF c.op = "specify" THEN a
    ELSE IF c.op = "sense" THEN [a EXCEPT !.mode = "answer"]
    ELSE IF c.op = "read" THEN [a EXCEPT !.mode = "read"]
    ELSE [a EXCEPT !.mode = "move", !.on = -1]

\* Where a step leads.  A test, or a turn of the loop, that is repeated puts in
\* front of it what leads to the same label.
After(r, x, a) ==
    CASE x.op = "acquire" -> [a EXCEPT !.held = @ + 1]
      [] x.op = "release" -> IF a.held = 1 THEN AtRest ELSE [a EXCEPT !.held = @ - 1]
      [] x.op = "dor" -> [a EXCEPT !.dor = x.value,
                                   !.mode = IF x.value = "off" THEN "off"
                                            ELSE IF a.dor = "off" THEN "reset" ELSE @]
      [] x.op = "send" -> Sent(x.cmd, a)
      [] x.op = "wait" -> IF a.mode = "read" THEN [a EXCEPT !.mode = "answer", !.done = @ + 1]
                          ELSE [a EXCEPT !.mode = "idle"]
      [] x.op = "sense" -> [a EXCEPT !.mode = "idle"]
      [] x.op = "test" -> [a EXCEPT !.on = x.cyl]
      [] x.op = "dma" -> [a EXCEPT !.place = x.place]
      [] x.op = "result" -> [a EXCEPT !.mode = "idle", !.on = -1, !.place = -1,
                                      !.done = r.count]
      [] OTHER -> a

\* Each place of the program t has a label, the first a and the last b.
Leads(r, t, a, b) ==
    /\ t \in Seq(Steps)
    /\ \E f \in [1 .. Len(t) + 1 -> Label] :
           /\ f[1] = a /\ f[Len(t) + 1] = b
           /\ \A i \in 1 .. Len(t) : May(r, t[i], f[i]) /\ f[i + 1] = After(r, t[i], f[i])

-----------------------------------------------------------------------------
(***************************************************************************)
(* The inductive invariant                                                 *)
(***************************************************************************)
Held(p) == IF holder = p THEN depth + 1 ELSE IF p \in ToSet(queue) THEN 1 ELSE 0

\* The process whose label speaks of the controller; of a controller at rest,
\* that of every process does, once FDC_initialize is through.
Owns(p) == holder = p \/ (holder = nobody /\ (p = starter \/ Started))

Executes(ops) == phase = "exec" /\ cmd.op \in ops /\ ~irq /\ ~fired

\* A command is through, and its interrupt on the way.
Finished(next) == phase = next /\ (irq \/ fired) /\ ~(irq /\ fired)

\* The controller does what a label says.
Tracks(r, a) ==
    /\ a.mode = "idle" => phase = "command" /\ ~irq /\ ~fired
    /\ a.mode = "off" => phase = "off" /\ ~irq /\ ~fired
    /\ a.mode = "answer" => phase = "result" /\ ~irq /\ ~fired
    /\ a.mode = "reset" => Executes({"reset"}) \/ Finished("command")
    /\ a.mode = "move" => /\ a.on = -1
                          /\ Executes({"seek", "calibrate"}) \/ Finished("command")
    /\ a.mode = "read" =>
           /\ a.dor = "motor" /\ a.done < r.count /\ a.place = a.done
           /\ a.on = Chs(LbaAt(r.lba, a.done)).cyl
           /\ \/ Executes({"read"}) /\ cmd.chs = Chs(LbaAt(r.lba, a.done))
              \/ Finished("result") /\ buffer[a.done] = LbaAt(r.lba, a.done)
    /\ a.on # -1 => cyl = a.on
    /\ a.place # -1 => dma = a.place
    /\ \A k \in 0 .. a.done - 1 : buffer[k] = LbaAt(r.lba, k)

Fits(p, a) ==
    /\ a.held = Held(p)
    /\ Owns(p) => a.dor = dor /\ (~astray => Tracks(asked[p], a))
    /\ holder # p /\ (p # starter \/ Started) => a = [AtRest EXCEPT !.held = Held(p)]

Fitting(p) == \E a \in Label : Leads(asked[p], todo[p], a, AtRest) /\ Fits(p, a)

LockOK ==
    /\ holder \in Client \cup {nobody} /\ depth \in Nat
    /\ queue \in Seq(Client) /\ IsInjective(queue) /\ holder \notin ToSet(queue)
    /\ holder = nobody => queue = <<>> /\ depth = 0

FloppyTypeOK ==
    /\ irq \in BOOLEAN /\ fired \in BOOLEAN /\ astray \in BOOLEAN
    /\ DOMAIN todo = Client /\ DOMAIN asked = Client
    /\ \A p \in Client :
           asked[p] = NoRequest \/ (asked[p] \in Requests /\ asked[p].count <= MAXCOUNT)
    /\ DOMAIN buffer = 0 .. MAXCOUNT - 1

FloppyInv ==
    /\ LockOK
    /\ FloppyTypeOK
    /\ ~Started => \A p \in Client \ {starter} : todo[p] = <<>>
    /\ \A p \in Client : Fitting(p)
-----------------------------------------------------------------------------
(***************************************************************************)
(* Programs one after the other                                            *)
(***************************************************************************)

\* A program without steps.
LEMMA LeadsNowhere ==
    ASSUME NEW r, NEW a \in Label
    PROVE  Leads(r, <<>>, a, a) /\ \A b : Leads(r, <<>>, a, b) => b = a
<1>1. <<>> \in Seq(Steps) /\ Len(<<>>) = 0
  BY EmptySeq
<1>2. Leads(r, <<>>, a, a)
  <2> DEFINE f == [i \in 1 .. Len(<<>>) + 1 |-> a]
  <2>1. f \in [1 .. Len(<<>>) + 1 -> Label] /\ f[1] = a /\ f[Len(<<>>) + 1] = a
    BY <1>1
  <2>2. 1 .. Len(<<>>) = {}
    BY <1>1
  <2> HIDE DEF f
  <2> QED BY <1>1, <2>1, <2>2 DEF Leads
<1>3. ASSUME NEW b, Leads(r, <<>>, a, b) PROVE b = a
  BY <1>1, <1>3 DEF Leads
<1> QED BY <1>2, <1>3

\* A program of one step.
LEMMA LeadsOne ==
    ASSUME NEW r, NEW x \in Steps, NEW a \in Label, May(r, x, a), After(r, x, a) \in Label
    PROVE  Leads(r, <<x>>, a, After(r, x, a))
<1> DEFINE b == After(r, x, a)
           t == <<x>>
           f == [i \in 1 .. 2 |-> IF i = 1 THEN a ELSE b]
<1>1. t \in Seq(Steps) /\ Len(t) = 1 /\ t[1] = x
  OBVIOUS
<1>2. f \in [1 .. 2 -> Label] /\ f[1] = a /\ f[2] = b
  OBVIOUS
<1> HIDE DEF t, f
<1>3. ASSUME NEW i \in 1 .. Len(t) PROVE May(r, t[i], f[i]) /\ f[i + 1] = After(r, t[i], f[i])
  <2>1. i = 1
    BY <1>1
  <2> QED BY <1>1, <1>2, <2>1
<1> HIDE DEF b
<1>4. Leads(r, t, a, b)
  BY <1>1, <1>2, <1>3 DEF Leads
<1> QED BY <1>4 DEF t, b

\* A program that goes on where another ends.
LEMMA LeadsThen ==
    ASSUME NEW r, NEW s, NEW t, NEW a, NEW b, NEW c, Leads(r, s, a, b), Leads(r, t, b, c)
    PROVE  Leads(r, s \o t, a, c)
<1> DEFINE u == s \o t
<1>1. /\ s \in Seq(Steps) /\ t \in Seq(Steps) /\ u \in Seq(Steps)
      /\ Len(u) = Len(s) + Len(t) /\ Len(s) \in Nat /\ Len(t) \in Nat
      /\ \A i \in 1 .. Len(s) : u[i] = s[i]
      /\ \A i \in 1 .. Len(t) : u[Len(s) + i] = t[i]
  BY ConcatProperties, LenProperties DEF Leads
<1>2. PICK f \in [1 .. Len(s) + 1 -> Label] :
          /\ f[1] = a /\ f[Len(s) + 1] = b
          /\ \A i \in 1 .. Len(s) : May(r, s[i], f[i]) /\ f[i + 1] = After(r, s[i], f[i])
  BY DEF Leads
<1>3. PICK g \in [1 .. Len(t) + 1 -> Label] :
          /\ g[1] = b /\ g[Len(t) + 1] = c
          /\ \A i \in 1 .. Len(t) : May(r, t[i], g[i]) /\ g[i + 1] = After(r, t[i], g[i])
  BY DEF Leads
<1> HIDE DEF u
<1> DEFINE m == Len(s)
           n == Len(t)
           h == [i \in 1 .. m + n + 1 |-> IF i <= m THEN f[i] ELSE g[i - m]]
<1>4. /\ h \in [1 .. m + n + 1 -> Label]
      /\ \A i \in 1 .. m : h[i] = f[i]
      /\ \A i \in 1 .. n + 1 : h[m + i] = g[i]
  <2>1. ASSUME NEW i \in 1 .. m + n + 1
        PROVE  h[i] \in Label /\ (i <= m => h[i] = f[i]) /\ (i > m => h[i] = g[i - m])
    <3>1. CASE i <= m
      BY <1>1, <1>2, <3>1
    <3>2. CASE i > m
      <4>1. i - m \in 1 .. n + 1 /\ ~(i <= m)
        BY <1>1, <3>2
      <4>2. h[i] = g[i - m]
        BY <4>1
      <4>3. g[i - m] \in Label
        BY <1>3, <4>1
      <4> HIDE DEF h
      <4> QED BY <4>1, <4>2, <4>3
    <3> QED BY <1>1, <3>1, <3>2
  <2> HIDE DEF h
  <2>2. ASSUME NEW i \in 1 .. n + 1 PROVE h[m + i] = g[i]
    <3>1. m + i \in 1 .. m + n + 1 /\ m + i > m /\ (m + i) - m = i
      BY <1>1
    <3> QED BY <2>1, <3>1
  <2>3. ASSUME NEW i \in 1 .. m PROVE h[i] = f[i]
    <3>1. i \in 1 .. m + n + 1 /\ i <= m
      BY <1>1
    <3> QED BY <2>1, <3>1
  <2>4. h \in [1 .. m + n + 1 -> Label]
    BY <2>1 DEF h
  <2> QED BY <2>2, <2>3, <2>4
<1> HIDE DEF h
<1>5. h[m + 1] = b
  BY <1>1, <1>3, <1>4
<1>6. h[1] = a
  <2>1. CASE m = 0
    <3>1. m + 1 = 1
      BY <2>1
    <3> QED BY <1>2, <1>5, <3>1
  <2>2. CASE m # 0
    <3>1. 1 \in 1 .. m
      BY <1>1, <2>2
    <3> QED BY <1>2, <1>4, <3>1
  <2> QED BY <2>1, <2>2
<1>7. h[m + n + 1] = c
  <2>1. m + (n + 1) = m + n + 1 /\ n + 1 \in 1 .. n + 1
    BY <1>1
  <2> QED BY <1>3, <1>4, <2>1
<1>8. ASSUME NEW i \in 1 .. m + n
      PROVE  May(r, u[i], h[i]) /\ h[i + 1] = After(r, u[i], h[i])
  <2>1. CASE i <= m
    <3>1. i \in 1 .. m /\ u[i] = s[i] /\ h[i] = f[i]
      BY <1>1, <1>4, <2>1
    <3>2. h[i + 1] = f[i + 1]
      <4>1. CASE i = m
        <5>1. i + 1 = m + 1
          BY <4>1
        <5> QED BY <1>2, <1>5, <5>1
      <4>2. CASE i # m
        <5>1. i + 1 \in 1 .. m
          BY <1>1, <2>1, <4>2
        <5> QED BY <1>4, <5>1
      <4> QED BY <4>1, <4>2
    <3> QED BY <1>2, <3>1, <3>2
  <2>2. CASE i > m
    <3> DEFINE j == i - m
    <3>1. /\ j \in 1 .. n /\ j + 1 \in 1 .. n + 1 /\ j \in 1 .. n + 1
          /\ m + j = i /\ m + (j + 1) = i + 1
      BY <1>1, <2>2
    <3> HIDE DEF j
    <3>2. u[i] = t[j] /\ h[i] = g[j] /\ h[i + 1] = g[j + 1]
      BY <1>1, <1>4, <3>1
    <3> QED BY <1>3, <3>1, <3>2
  <2> QED BY <1>1, <2>1, <2>2
<1>9. Leads(r, u, a, c)
  <2>1. Len(u) = m + n /\ u \in Seq(Steps) /\ h \in [1 .. Len(u) + 1 -> Label]
    BY <1>1, <1>4
  <2>2. h[1] = a /\ h[Len(u) + 1] = c
    BY <1>6, <1>7, <2>1
  <2>3. \A i \in 1 .. Len(u) : May(r, u[i], h[i]) /\ h[i + 1] = After(r, u[i], h[i])
    BY <1>8, <2>1
  <2> HIDE DEF m, n
  <2> QED BY <2>1, <2>2, <2>3 DEF Leads
<1> QED BY <1>9 DEF u

\* The first step of a program, and the rest of it.
LEMMA LeadsOn ==
    ASSUME NEW r, NEW t, NEW a, NEW c, Leads(r, t, a, c), t # <<>>
    PROVE  /\ a \in Label /\ After(r, Head(t), a) \in Label
           /\ Head(t) \in Steps /\ May(r, Head(t), a)
           /\ Leads(r, Tail(t), After(r, Head(t), a), c)
<1>1. t \in Seq(Steps)
  BY DEF Leads
<1>2. /\ Head(t) = t[1] /\ Head(t) \in Steps /\ Tail(t) \in Seq(Steps)
      /\ Len(t) \in Nat \ {0} /\ Len(Tail(t)) = Len(t) - 1
      /\ \A i \in 1 .. Len(Tail(t)) : Tail(t)[i] = t[i + 1]
  BY <1>1, HeadTailProperties, EmptySeq, LenProperties
<1>3. PICK f \in [1 .. Len(t) + 1 -> Label] :
          /\ f[1] = a /\ f[Len(t) + 1] = c
          /\ \A i \in 1 .. Len(t) : May(r, t[i], f[i]) /\ f[i + 1] = After(r, t[i], f[i])
  BY DEF Leads
<1> DEFINE n == Len(Tail(t))
           g == [i \in 1 .. n + 1 |-> f[i + 1]]
<1>4. n \in Nat /\ Len(t) = n + 1
  BY <1>2
<1>5. a \in Label /\ f[2] = After(r, Head(t), a) /\ f[2] \in Label /\ May(r, Head(t), a)
  BY <1>2, <1>3, <1>4
<1>6. /\ g \in [1 .. n + 1 -> Label]
      /\ \A i \in 1 .. n + 1 : g[i] = f[i + 1]
  BY <1>3, <1>4
<1> HIDE DEF g
<1>7. g[1] = f[2] /\ g[n + 1] = c
  BY <1>3, <1>4, <1>6
<1>8. ASSUME NEW i \in 1 .. n
      PROVE  May(r, Tail(t)[i], g[i]) /\ g[i + 1] = After(r, Tail(t)[i], g[i])
  <2>1. /\ i + 1 \in 1 .. Len(t) /\ i \in 1 .. n + 1 /\ i + 1 \in 1 .. n + 1
        /\ Tail(t)[i] = t[i + 1]
    BY <1>2, <1>4
  <2>2. g[i] = f[i + 1] /\ g[i + 1] = f[(i + 1) + 1]
    BY <1>6, <2>1
  <2> QED BY <1>3, <2>1, <2>2
<1>9. Leads(r, Tail(t), f[2], c)
  BY <1>2, <1>6, <1>7, <1>8 DEF Leads
<1> QED BY <1>2, <1>5, <1>9

-----------------------------------------------------------------------------
(***************************************************************************)
(* Sectors                                                                 *)
(***************************************************************************)

\* Half of a product of two numbers that follow one another.
LEMMA LbaIsNat ==
    ASSUME NEW l \in Nat, NEW i \in Nat
    PROVE  LbaAt(l, i) \in Nat
<1>1. i * (i + 1) \in Nat
  OBVIOUS
<1> DEFINE n == i * (i + 1)
<1>2. n \in Nat
  BY <1>1
<1> HIDE DEF n
<1>3. n \div 2 \in Nat
  BY <1>2
<1> QED BY <1>3 DEF LbaAt, n

\* fdc_lba2chs gives every sector the place it is at.
LEMMA ChsFacts ==
    ASSUME NEW l \in Nat
    PROVE  /\ Chs(l).cyl \in Nat
           /\ SectorAt(Chs(l).cyl, Chs(l)) = l
<1> DEFINE t == l \div SPT
           s == l % SPT
           c == t \div HEADS
           h == t % HEADS
<1>1. SPT \in Nat \ {0} /\ HEADS \in Nat \ {0}
  BY FloppyAssumption
<1>2. t \in Nat /\ s \in 0 .. SPT - 1 /\ l = SPT * t + s
  BY <1>1
<1>3. Chs(l) = [sector |-> s + 1, cyl |-> t \div HEADS, head |-> t % HEADS]
  BY DEF Chs
<1> HIDE DEF t, s
<1>4. c \in Nat /\ h \in 0 .. HEADS - 1 /\ t = HEADS * c + h
  BY <1>1, <1>2
<1>5. Chs(l).sector = s + 1 /\ Chs(l).cyl = c /\ Chs(l).head = h
  BY <1>3
<1> HIDE DEF c, h
<1>6. Chs(l).sector \in 1 .. SPT
  BY <1>1, <1>2, <1>5
<1>7. SectorAt(c, Chs(l)) = (c * HEADS + h) * SPT + (s + 1) - 1
  BY <1>5, <1>6 DEF SectorAt
<1>8. c * HEADS + h = t
  BY <1>1, <1>4
<1>9. SectorAt(c, Chs(l)) = t * SPT + (s + 1) - 1
  BY <1>7, <1>8
<1>10. t * SPT = SPT * t /\ SPT * t \in Nat
  BY <1>1, <1>2
<1>11. t * SPT + (s + 1) - 1 = l
  BY <1>2, <1>10
<1> QED BY <1>4, <1>5, <1>9, <1>11

\* Other values in a label.
LEMMA Relabelled ==
    ASSUME NEW a \in Label
    PROVE  /\ \A h \in Nat : [a EXCEPT !.held = h] \in Label
           /\ \A o \in Int : [a EXCEPT !.on = o] \in Label
           /\ \A q \in Int : [a EXCEPT !.place = q] \in Label
           /\ \A n \in Nat : [a EXCEPT !.done = n] \in Label
           /\ \A d \in {"off", "on", "motor"} : [a EXCEPT !.dor = d] \in Label
           /\ \A m \in Mode : [a EXCEPT !.mode = m] \in Label
           /\ \A m \in Mode, d \in {"off", "on", "motor"} :
                  [a EXCEPT !.dor = d, !.mode = m] \in Label
           /\ \A m \in Mode, o \in Int : [a EXCEPT !.mode = m, !.on = o] \in Label
           /\ \A m \in Mode, n \in Nat : [a EXCEPT !.mode = m, !.done = n] \in Label
           /\ \A m \in Mode, o \in Int, q \in Int, n \in Nat :
                  [a EXCEPT !.mode = m, !.on = o, !.place = q, !.done = n] \in Label
BY DEF Label

\* A program has labels at both ends.
LEMMA LeadsLabels ==
    ASSUME NEW r, NEW t, NEW a, NEW b, Leads(r, t, a, b)
    PROVE  a \in Label /\ b \in Label
<1>1. Len(t) \in Nat
  BY LenProperties DEF Leads
<1>2. 1 \in 1 .. Len(t) + 1 /\ Len(t) + 1 \in 1 .. Len(t) + 1
  BY <1>1
<1> QED BY <1>2 DEF Leads

-----------------------------------------------------------------------------
(***************************************************************************)
(* The functions of the driver                                             *)
(***************************************************************************)
LEMMA AcquireLeads ==
    ASSUME NEW r, NEW a \in Label
    PROVE  Leads(r, Acquire, a, [a EXCEPT !.held = @ + 1])
<1> DEFINE x == [op |-> "acquire"]
<1>1. x \in Steps /\ May(r, x, a)
  BY DEF Steps, May
<1>2. After(r, x, a) = [a EXCEPT !.held = @ + 1] /\ After(r, x, a) \in Label
  BY DEF After, Label
<1> HIDE DEF x
<1> QED BY <1>1, <1>2, LeadsOne DEF Acquire, Step, x

LEMMA ReleaseLeads ==
    ASSUME NEW r, NEW a \in Label, a.held > 0,
           a.held = 1 => a.dor = "on" /\ a.mode = "idle"
    PROVE  /\ a.held = 1 => Leads(r, Release, a, AtRest)
           /\ a.held # 1 => Leads(r, Release, a, [a EXCEPT !.held = @ - 1])
<1> DEFINE x == [op |-> "release"]
<1>1. x \in Steps /\ May(r, x, a)
  BY DEF Steps, May
<1>2. CASE a.held = 1
  <2>1. After(r, x, a) = AtRest /\ AtRest \in Label
    BY <1>2 DEF After, Label, Mode, AtRest
  <2> HIDE DEF x
  <2> QED BY <1>1, <1>2, <2>1, LeadsOne DEF Release, Step, x
<1>3. CASE a.held # 1
  <2>1. After(r, x, a) = [a EXCEPT !.held = @ - 1]
    BY <1>3 DEF After
  <2>2. [a EXCEPT !.held = @ - 1] \in Label
    BY <1>3 DEF Label
  <2> HIDE DEF x
  <2> QED BY <1>1, <1>3, <2>1, <2>2, LeadsOne DEF Release, Step, x
<1> QED BY <1>2, <1>3

\* A function that takes the lock again.
LEMMA NestedLeads ==
    ASSUME NEW r, NEW t, NEW a \in Label, a.held > 0, NEW b,
           Leads(r, t, [a EXCEPT !.held = @ + 1], b), b.held = a.held + 1
    PROVE  Leads(r, Acquire \o t \o Release, a, [b EXCEPT !.held = a.held])
<1>1. b \in Label /\ a.held \in Nat
  BY LeadsLabels DEF Label
<1>2. Leads(r, Acquire \o t, a, b)
  BY AcquireLeads, LeadsThen
<1>3. b.held > 0 /\ b.held # 1 /\ b.held - 1 = a.held
  BY <1>1
<1>4. Leads(r, Release, b, [b EXCEPT !.held = @ - 1])
  BY <1>1, <1>3, ReleaseLeads
<1>5. [b EXCEPT !.held = @ - 1] = [b EXCEPT !.held = a.held]
  BY <1>3
<1> QED BY <1>2, <1>4, <1>5, LeadsThen

\* One that takes it first, and leaves the disk at rest.
LEMMA LockedLeads ==
    ASSUME NEW r, NEW t, NEW a \in Label, a.held = 0, NEW b,
           Leads(r, t, [a EXCEPT !.held = 1], b), b.held = 1,
           b.dor = "on" /\ b.mode = "idle"
    PROVE  Leads(r, Acquire \o t \o Release, a, AtRest)
<1>1. b \in Label
  BY LeadsLabels
<1>2. [a EXCEPT !.held = @ + 1] = [a EXCEPT !.held = 1]
  BY DEF Label, Mode
<1>3. Leads(r, Acquire \o t, a, b)
  BY <1>2, AcquireLeads, LeadsThen
<1>4. b.held > 0
  OBVIOUS
<1>5. Leads(r, Release, b, AtRest)
  BY <1>1, <1>4, ReleaseLeads
<1> QED BY <1>3, <1>5, LeadsThen

LEMMA DorLeads ==
    ASSUME NEW r, NEW a \in Label, a.held > 0, NEW v \in {"off", "on", "motor"},
           a.mode = IF a.dor = "off" THEN "off" ELSE "idle"
    PROVE  Leads(r, Dor(v), a,
                 [a EXCEPT !.dor = v, !.mode = IF v = "off" THEN "off"
                                               ELSE IF a.dor = "off" THEN "reset" ELSE @])
<1> DEFINE x == [op |-> "dor", value |-> v]
           b == [a EXCEPT !.dor = v, !.mode = IF v = "off" THEN "off"
                                              ELSE IF a.dor = "off" THEN "reset" ELSE @]
<1>1. x \in Steps /\ May(r, x, a)
  BY DEF Steps, May
<1>2. After(r, x, a) = b
  BY DEF After
<1>3. b \in Label
  BY DEF Label, Mode
<1> HIDE DEF x, b
<1>4. Leads(r, <<x>>, a, b)
  BY <1>1, <1>2, <1>3, LeadsOne
<1> QED BY <1>4 DEF Dor, x, b

LEMMA SleepLeads ==
    ASSUME NEW r, NEW a \in Label, a.held > 0
    PROVE  Leads(r, Step("sleep"), a, a)
<1> DEFINE x == [op |-> "sleep"]
<1>1. x \in Steps /\ May(r, x, a)
  BY DEF Steps, May
<1>2. After(r, x, a) = a
  BY DEF After
<1> HIDE DEF x
<1>3. Leads(r, <<x>>, a, a)
  BY <1>1, <1>2, LeadsOne
<1> QED BY <1>3 DEF Step, x

LEMMA WaitLeads ==
    ASSUME NEW r, NEW a \in Label, a.held > 0, a.mode \in {"reset", "move", "read"}
    PROVE  /\ a.mode = "read" =>
                  Leads(r, Wait, a, [a EXCEPT !.mode = "answer", !.done = @ + 1])
           /\ a.mode # "read" => Leads(r, Wait, a, [a EXCEPT !.mode = "idle"])
<1> DEFINE x == [op |-> "wait"]
<1>1. x \in Steps /\ May(r, x, a)
  BY DEF Steps, May
<1>2. CASE a.mode = "read"
  <2> DEFINE b == [a EXCEPT !.mode = "answer", !.done = @ + 1]
  <2>1. After(r, x, a) = b
    BY <1>2 DEF After
  <2>2. a.done + 1 \in Nat
    BY DEF Label, Mode
  <2>3. b \in Label
    BY <2>2, Relabelled DEF Mode
  <2> HIDE DEF x, b
  <2>4. Leads(r, <<x>>, a, b)
    BY <1>1, <2>1, <2>3, LeadsOne
  <2> QED BY <1>2, <2>4 DEF Wait, Step, x, b
<1>3. CASE a.mode # "read"
  <2> DEFINE b == [a EXCEPT !.mode = "idle"]
  <2>1. After(r, x, a) = b
    BY <1>3 DEF After
  <2>2. b \in Label
    BY DEF Label, Mode
  <2> HIDE DEF x, b
  <2>3. Leads(r, <<x>>, a, b)
    BY <1>1, <2>1, <2>2, LeadsOne
  <2> QED BY <1>3, <2>3 DEF Wait, Step, x, b
<1> QED BY <1>2, <1>3

LEMMA SenseLeads ==
    ASSUME NEW r, NEW a \in Label, a.held > 0, a.mode = "idle"
    PROVE  Leads(r, Sense, a, a)
<1> DEFINE x == [op |-> "send", cmd |-> [op |-> "sense"]]
           y == [op |-> "sense"]
           b == [a EXCEPT !.mode = "answer"]
<1>1. x \in Steps /\ May(r, x, a) /\ After(r, x, a) = b
  BY DEF Steps, Commands, May, After, Sent
<1>2. b \in Label /\ b.held > 0 /\ b.mode = "answer"
  BY DEF Label, Mode
<1>3. y \in Steps /\ May(r, y, b) /\ After(r, y, b) = [b EXCEPT !.mode = "idle"]
  BY <1>2 DEF Steps, May, After
<1>4. [b EXCEPT !.mode = "idle"] = a
  BY DEF Label, Mode
<1> HIDE DEF x, y, b
<1>5. Leads(r, <<x>>, a, b) /\ Leads(r, <<y>>, b, a)
  BY <1>1, <1>2, <1>3, <1>4, LeadsOne
<1> QED BY <1>5, LeadsThen DEF Sense, Send, Step, x, y

\* A command that moves the head, until it is where it was sent.
LEMMA AttemptLeads ==
    ASSUME NEW r, NEW a \in Label, a.held > 0, a.mode = "idle",
           NEW c \in Int, NEW name \in {"seek", "calibrate"}, NEW n \in Nat \ {0}
    PROVE  Leads(r, Attempt(c, name, n), a, [a EXCEPT !.on = c])
<1> DEFINE x == [op |-> "send", cmd |-> [op |-> name, cyl |-> c]]
           y == [op |-> "test", cyl |-> c, name |-> name, left |-> n - 1]
           b == [a EXCEPT !.mode = "move", !.on = -1]
           d == [b EXCEPT !.mode = "idle"]
           e == [d EXCEPT !.on = c]
<1>1. x \in Steps /\ May(r, x, a)
  BY DEF Steps, Commands, May
<1>2. After(r, x, a) = b
  <2>1. x.op = "send" /\ x.cmd.op \in {"seek", "calibrate"}
    OBVIOUS
  <2> HIDE DEF x
  <2> QED BY <2>1 DEF After, Sent
<1>3. b \in Label
  <2>1. -1 \in Int /\ "move" \in Mode
    BY DEF Mode
  <2> QED BY <2>1, Relabelled
<1>4. b.held > 0 /\ b.mode = "move" /\ d.held > 0 /\ d.mode = "idle"
  <2>1. b.held = a.held /\ b.mode = "move"
    BY DEF Label, Mode
  <2> HIDE DEF b
  <2>2. d.held = b.held /\ d.mode = "idle"
    BY <1>3 DEF Label
  <2> QED BY <2>1, <2>2
<1>5. d \in Label
  BY <1>3, Relabelled DEF Mode
<1>6. y \in Steps /\ May(r, y, d)
  BY <1>4 DEF Steps, May
<1>7. After(r, y, d) = e
  BY DEF After
<1>8. e \in Label
  BY <1>5, Relabelled
<1>9. e = [a EXCEPT !.on = c]
  BY DEF Label, Mode
<1> HIDE DEF x, y
<1>10. Leads(r, <<x>>, a, b)
  BY <1>1, <1>2, <1>3, LeadsOne
<1>11. Leads(r, Wait, b, d)
  BY <1>3, <1>4, WaitLeads
<1>12. Leads(r, Sense, d, d)
  BY <1>4, <1>5, SenseLeads
<1>13. Leads(r, <<y>>, d, e)
  BY <1>5, <1>6, <1>7, <1>8, LeadsOne
<1> HIDE DEF b, d, e
<1>14. Leads(r, <<x>> \o Wait \o Sense \o <<y>>, a, e)
  BY <1>10, <1>11, <1>12, <1>13, LeadsThen
<1> QED BY <1>9, <1>14 DEF Attempt, Send, x, y, e

LEMMA SendLeads ==
    ASSUME NEW r, NEW a \in Label, a.held > 0, a.mode = "idle"
    PROVE  /\ Leads(r, Send([op |-> "specify"]), a, a)
           /\ \A l \in Nat : /\ a.dor = "motor" /\ a.done < r.count /\ a.place = a.done
                             /\ l = LbaAt(r.lba, a.done) /\ a.on = Chs(l).cyl
                  => Leads(r, Send([op |-> "read", chs |-> Chs(l)]), a, [a EXCEPT !.mode = "read"])
<1>1. Leads(r, Send([op |-> "specify"]), a, a)
  <2> DEFINE x == [op |-> "send", cmd |-> [op |-> "specify"]]
  <2>1. x \in Steps /\ May(r, x, a) /\ After(r, x, a) = a
    BY DEF Steps, Commands, May, After, Sent
  <2> HIDE DEF x
  <2>2. Leads(r, <<x>>, a, a)
    BY <2>1, LeadsOne
  <2> QED BY <2>2 DEF Send, x
<1>2. ASSUME NEW l \in Nat, a.dor = "motor", a.done < r.count, a.place = a.done,
             l = LbaAt(r.lba, a.done), a.on = Chs(l).cyl
      PROVE  Leads(r, Send([op |-> "read", chs |-> Chs(l)]), a, [a EXCEPT !.mode = "read"])
  <2> DEFINE c == [op |-> "read", chs |-> Chs(l)]
             x == [op |-> "send", cmd |-> c]
             b == [a EXCEPT !.mode = "read"]
  <2>1. c \in Commands /\ c.op = "read" /\ c.chs = Chs(l)
    BY DEF Commands
  <2> HIDE DEF c
  <2>2. x \in Steps /\ x.op = "send" /\ x.cmd = c
    BY <2>1 DEF Steps
  <2> HIDE DEF x
  <2>3. May(r, x, a)
    BY <1>2, <2>1, <2>2 DEF May
  <2>4. After(r, x, a) = b
    BY <2>1, <2>2 DEF After, Sent
  <2>5. b \in Label
    BY Relabelled DEF Mode
  <2> HIDE DEF b
  <2>6. Leads(r, <<x>>, a, b)
    BY <2>2, <2>3, <2>4, <2>5, LeadsOne
  <2> QED BY <2>6 DEF Send, x, c, b
<1> QED BY <1>1, <1>2

LEMMA DmaLeads ==
    ASSUME NEW r, NEW a \in Label, a.held > 0, a.mode = "idle", NEW i \in Nat
    PROVE  Leads(r, <<[op |-> "dma", place |-> i]>>, a, [a EXCEPT !.place = i])
<1> DEFINE x == [op |-> "dma", place |-> i]
           b == [a EXCEPT !.place = i]
<1>1. x \in Steps /\ May(r, x, a)
  BY DEF Steps, May
<1>2. After(r, x, a) = b
  <2>1. x.op = "dma" /\ x.place = i
    OBVIOUS
  <2> HIDE DEF x
  <2> QED BY <2>1 DEF After
<1>3. b \in Label
  <2>1. i \in Int
    OBVIOUS
  <2> QED BY <2>1, Relabelled
<1> HIDE DEF x, b
<1>4. Leads(r, <<x>>, a, b)
  BY <1>1, <1>2, <1>3, LeadsOne
<1> QED BY <1>4 DEF x, b

LEMMA ResultLeads ==
    ASSUME NEW r, r.count \in Nat, NEW a \in Label, a.held > 0, a.mode = "answer",
           a.dor = "motor", NEW i \in Nat, a.done = i + 1, a.done <= r.count
    PROVE  Leads(r, <<[op |-> "result", turn |-> i]>>, a,
                 [a EXCEPT !.mode = "idle", !.on = -1, !.place = -1, !.done = r.count])
<1> DEFINE x == [op |-> "result", turn |-> i]
           b == [a EXCEPT !.mode = "idle", !.on = -1, !.place = -1, !.done = r.count]
<1>1. x \in Steps /\ May(r, x, a)
  BY DEF Steps, May
<1>2. After(r, x, a) = b
  BY DEF After
<1>3. b \in Label
  <2>1. -1 \in Int /\ "idle" \in Mode
    BY DEF Mode
  <2> QED BY <2>1, Relabelled
<1> HIDE DEF x, b
<1>4. Leads(r, <<x>>, a, b)
  BY <1>1, <1>2, <1>3, LeadsOne
<1> QED BY <1>4 DEF x, b

LEMMA CopyLeads ==
    ASSUME NEW r, NEW a \in Label, a.held > 0, a.done = r.count
    PROVE  Leads(r, Step("copy"), a, a)
<1> DEFINE x == [op |-> "copy"]
<1>1. x \in Steps /\ May(r, x, a)
  BY DEF Steps, May
<1>2. After(r, x, a) = a
  BY DEF After
<1> HIDE DEF x
<1>3. Leads(r, <<x>>, a, a)
  BY <1>1, <1>2, LeadsOne
<1> QED BY <1>3 DEF Step, x

\* FDC_controlMotor.
LEMMA MotorLeads ==
    ASSUME NEW r, NEW a \in Label, a.held > 0, a.mode = "idle", a.dor # "off"
    PROVE  /\ Leads(r, ControlMotor(TRUE), a, [a EXCEPT !.dor = "motor"])
           /\ Leads(r, ControlMotor(FALSE), a, [a EXCEPT !.dor = "on"])
<1>1. ASSUME NEW v \in {"on", "motor"}
      PROVE  Leads(r, Dor(v) \o Step("sleep"), a, [a EXCEPT !.dor = v])
  <2> DEFINE b == [a EXCEPT !.dor = v]
  <2>1. [a EXCEPT !.dor = v, !.mode = IF v = "off" THEN "off"
                                      ELSE IF a.dor = "off" THEN "reset" ELSE @] = b
    BY DEF Label, Mode
  <2>2. Leads(r, Dor(v), a, b)
    BY <2>1, DorLeads
  <2>3. b \in Label
    BY Relabelled
  <2>4. b.held > 0
    BY DEF Label
  <2> HIDE DEF b
  <2>5. Leads(r, Step("sleep"), b, b)
    BY <2>3, <2>4, SleepLeads
  <2>6. Leads(r, Dor(v) \o Step("sleep"), a, b)
    BY <2>2, <2>5, LeadsThen
  <2> QED BY <2>6 DEF b
<1>2. /\ ControlMotor(TRUE) = Dor("motor") \o Step("sleep")
      /\ ControlMotor(FALSE) = Dor("on") \o Step("sleep")
  BY DEF ControlMotor
<1> QED BY <1>1, <1>2

\* FDC_seek.
LEMMA SeekLeads ==
    ASSUME NEW r, NEW a \in Label, a.held > 0, a.mode = "idle", NEW c \in Int
    PROVE  Leads(r, Seek(c), a, [a EXCEPT !.on = c])
<1> DEFINE a1 == [a EXCEPT !.held = @ + 1]
           b == [a1 EXCEPT !.on = c]
<1>1. a.held + 1 \in Nat
  BY DEF Label, Mode
<1>2. a1 \in Label
  BY <1>1, Relabelled
<1>3. a1.held = a.held + 1 /\ a1.held > 0 /\ a1.mode = "idle"
  BY DEF Label, Mode
<1> HIDE DEF a1
<1>4. Leads(r, Attempt(c, "seek", TRIES), a1, b)
  BY <1>2, <1>3, FloppyAssumption, AttemptLeads
<1>5. b.held = a.held + 1
  BY <1>2, <1>3 DEF Label, Mode
<1> HIDE DEF b
<1>6. Leads(r, Acquire \o Attempt(c, "seek", TRIES) \o Release, a, [b EXCEPT !.held = a.held])
  BY <1>4, <1>5, NestedLeads DEF a1
<1>7. [b EXCEPT !.held = a.held] = [a EXCEPT !.on = c]
  BY <1>2 DEF Label, Mode, a1, b
<1> QED BY <1>6, <1>7 DEF Seek

\* One turn of the loop of FDC_readSectors, and those it leads to.
LEMMA TurnLeads ==
    ASSUME NEW r, r.count \in Nat, r.count > 0 => r.lba \in Nat, NEW i \in 0 .. r.count,
           NEW a \in Label, a.held > 0, a.mode = "idle", a.dor = "motor",
           a.done = i, a.on = -1, a.place = -1
    PROVE  Leads(r, Turn(r, i), a, [a EXCEPT !.done = r.count])
<1>1. CASE i = r.count
  <2>1. Turn(r, i) = <<>>
    BY <1>1 DEF Turn
  <2>2. [a EXCEPT !.done = r.count] = a
    BY <1>1 DEF Label, Mode
  <2> QED BY <2>1, <2>2, LeadsNowhere
<1>2. CASE i < r.count
  <2> DEFINE l == LbaAt(r.lba, i)
             c == Chs(l).cyl
             h == a.held
             Where(on, place, mode, done) ==
                 [held |-> h, dor |-> "motor", mode |-> mode, on |-> on, place |-> place,
                  done |-> done]
             a1 == [a EXCEPT !.on = c]
             a2 == [a1 EXCEPT !.place = i]
             a3 == [a2 EXCEPT !.mode = "read"]
             a4 == [a3 EXCEPT !.mode = "answer", !.done = @ + 1]
             a5 == [a4 EXCEPT !.mode = "idle", !.on = -1, !.place = -1, !.done = r.count]
             program == <<[op |-> "dma", place |-> i]>>
             send == Send([op |-> "read", chs |-> Chs(l)])
             result == <<[op |-> "result", turn |-> i]>>
  <2>1. Turn(r, i) = Seek(c) \o SectorRead(Chs(l), i)
    BY <1>2 DEF Turn
  <2>2. SectorRead(Chs(l), i) = program \o send \o Wait \o result
    BY DEF SectorRead
  <2> HIDE DEF program, send, result
  <2>3. i \in Nat /\ r.lba \in Nat
    BY <1>2
  <2>4. l \in Nat
    BY <2>3, LbaIsNat
  <2>5. c \in Nat
    BY <2>4, ChsFacts
  <2> HIDE DEF c
  <2>6. a = Where(-1, -1, "idle", i) /\ h > 0 /\ h \in Nat
    BY DEF Label, Mode
  <2>7. Leads(r, Seek(c), a, a1)
    BY <2>5, SeekLeads
  <2>8. a1 \in Label
    BY <2>7, LeadsLabels
  <2>9. a1 = Where(c, -1, "idle", i)
    BY <2>6
  <2> HIDE DEF h, a1
  <2>10. a1.held > 0 /\ a1.mode = "idle"
    BY <2>6, <2>9
  <2>11. Leads(r, program, a1, a2)
    BY <2>3, <2>8, <2>10, DmaLeads DEF program
  <2>12. a2 \in Label
    BY <2>11, LeadsLabels
  <2>13. a2 = Where(c, i, "idle", i)
    BY <2>9
  <2> HIDE DEF a2
  <2>14. /\ a2.held > 0 /\ a2.mode = "idle" /\ a2.dor = "motor" /\ a2.done < r.count
         /\ a2.place = a2.done /\ l = LbaAt(r.lba, a2.done) /\ a2.on = Chs(l).cyl
    BY <1>2, <2>6, <2>13 DEF c
  <2> HIDE DEF l
  <2>15. Leads(r, send, a2, a3)
    BY <2>4, <2>12, <2>14, SendLeads DEF send
  <2>16. a3 \in Label
    BY <2>15, LeadsLabels
  <2>17. a3 = Where(c, i, "read", i)
    BY <2>13
  <2> HIDE DEF a3
  <2>18. a3.held > 0 /\ a3.mode = "read"
    BY <2>6, <2>17
  <2>19. Leads(r, Wait, a3, a4)
    BY <2>16, <2>18, WaitLeads
  <2>20. a4 \in Label
    BY <2>19, LeadsLabels
  <2>21. a4 = Where(c, i, "answer", i + 1)
    <3>1. /\ a4.held = h /\ a4.dor = "motor" /\ a4.mode = "answer"
          /\ a4.on = c /\ a4.place = i /\ a4.done = i + 1
      BY <2>17
    <3> HIDE DEF a4
    <3> QED BY <2>20, <3>1 DEF Label
  <2> HIDE DEF a4
  <2>22. /\ a4.held > 0 /\ a4.mode = "answer" /\ a4.dor = "motor"
         /\ a4.done = i + 1 /\ a4.done <= r.count
    BY <1>2, <2>6, <2>21
  <2>23. Leads(r, result, a4, a5)
    BY <2>3, <2>20, <2>22, ResultLeads DEF result
  <2>24. a5 = Where(-1, -1, "idle", r.count)
    <3>1. /\ a5.held = h /\ a5.dor = "motor" /\ a5.mode = "idle"
          /\ a5.on = -1 /\ a5.place = -1 /\ a5.done = r.count
      BY <2>21
    <3>2. a5 \in Label
      BY <2>23, LeadsLabels
    <3> HIDE DEF a5
    <3> QED BY <3>1, <3>2 DEF Label
  <2> HIDE DEF a5
  <2>25. [a EXCEPT !.done = r.count] = a5
    BY <2>6, <2>24
  <2>26. Leads(r, program \o send \o Wait \o result, a1, a5)
    BY <2>11, <2>15, <2>19, <2>23, LeadsThen
  <2> QED BY <2>1, <2>2, <2>7, <2>25, <2>26, LeadsThen
<1> QED BY <1>1, <1>2

\* FDC_readSectors.
LEMMA ReadSectorsLeads ==
    ASSUME NEW r, r.count \in Nat, r.count > 0 => r.lba \in Nat
    PROVE  Leads(r, ReadSectors(r), AtRest, AtRest)
<1> DEFINE a1 == [AtRest EXCEPT !.held = @ + 1]
           a2 == [a1 EXCEPT !.dor = "motor"]
           a3 == [a2 EXCEPT !.done = r.count]
           a4 == [a3 EXCEPT !.dor = "on"]
<1>1. AtRest \in Label
  BY DEF Label, Mode, AtRest
<1>2. Leads(r, Acquire, AtRest, a1)
  BY <1>1, AcquireLeads
<1>3. a1 \in Label
  BY <1>2, LeadsLabels
<1>4. a1 = [held |-> 1, dor |-> "on", mode |-> "idle", on |-> -1, place |-> -1, done |-> 0]
  BY DEF AtRest
<1> HIDE DEF a1
<1>5. Leads(r, ControlMotor(TRUE), a1, a2)
  <2>1. a1.held > 0 /\ a1.mode = "idle" /\ a1.dor # "off"
    BY <1>4
  <2> QED BY <1>3, <2>1, MotorLeads
<1>6. a2 \in Label
  BY <1>5, LeadsLabels
<1>7. a2 = [held |-> 1, dor |-> "motor", mode |-> "idle", on |-> -1, place |-> -1, done |-> 0]
  BY <1>4
<1> HIDE DEF a2
<1>8. Leads(r, Turn(r, 0), a2, a3)
  <2>1. /\ a2.held > 0 /\ a2.mode = "idle" /\ a2.dor = "motor"
        /\ a2.done = 0 /\ a2.on = -1 /\ a2.place = -1 /\ 0 \in 0 .. r.count
    BY <1>7
  <2> QED BY <1>6, <2>1, TurnLeads
<1>9. a3 \in Label
  BY <1>8, LeadsLabels
<1>10. a3 = [held |-> 1, dor |-> "motor", mode |-> "idle", on |-> -1, place |-> -1,
             done |-> r.count]
  BY <1>7
<1> HIDE DEF a3
<1>11. Leads(r, ControlMotor(FALSE), a3, a4)
  <2>1. a3.held > 0 /\ a3.mode = "idle" /\ a3.dor # "off"
    BY <1>10
  <2> QED BY <1>9, <2>1, MotorLeads
<1>12. a4 \in Label
  BY <1>11, LeadsLabels
<1>13. a4.held = 1 /\ a4.dor = "on" /\ a4.mode = "idle" /\ a4.done = r.count
  BY <1>10
<1> HIDE DEF a4
<1>14. a4.held > 0
  BY <1>13
<1>15. Leads(r, Step("copy"), a4, a4) /\ Leads(r, Release, a4, AtRest)
  BY <1>12, <1>13, <1>14, CopyLeads, ReleaseLeads
<1> QED BY <1>2, <1>5, <1>8, <1>11, <1>15, LeadsThen DEF ReadSectors

\* FDC_calibrate, called with the lock.
LEMMA CalibrateLeads ==
    ASSUME NEW r, NEW a \in Label, a.held > 0, a.mode = "idle", a.dor = "on"
    PROVE  Leads(r, Calibrate, a, [a EXCEPT !.on = 0])
<1> DEFINE h == a.held
           Where(held, set, on) ==
               [held |-> held, dor |-> set, mode |-> "idle", on |-> on,
                place |-> a.place, done |-> a.done]
           a1 == [a EXCEPT !.held = @ + 1]
           a2 == [a1 EXCEPT !.dor = "motor"]
           a3 == [a2 EXCEPT !.on = 0]
           a4 == [a3 EXCEPT !.dor = "on"]
           a5 == [a4 EXCEPT !.held = @ - 1]
<1>1. a = Where(h, "on", a.on) /\ h \in Nat /\ h > 0
  BY DEF Label, Mode
<1>2. Leads(r, Acquire, a, a1)
  BY AcquireLeads
<1>3. a1 \in Label
  BY <1>2, LeadsLabels
<1>4. a1 = Where(h + 1, "on", a.on)
  BY <1>1
<1> HIDE DEF h, a1
<1>5. a1.held > 0 /\ a1.mode = "idle" /\ a1.dor # "off"
  BY <1>1, <1>4
<1>6. Leads(r, ControlMotor(TRUE), a1, a2)
  BY <1>3, <1>5, MotorLeads
<1>7. a2 \in Label
  BY <1>6, LeadsLabels
<1>8. a2 = Where(h + 1, "motor", a.on)
  BY <1>4
<1> HIDE DEF a2
<1>9. a2.held > 0 /\ a2.mode = "idle" /\ 0 \in Int /\ TRIES \in Nat \ {0}
  BY <1>1, <1>8, FloppyAssumption
<1>10. Leads(r, Attempt(0, "calibrate", TRIES), a2, a3)
  BY <1>7, <1>9, AttemptLeads
<1>11. a3 \in Label
  BY <1>10, LeadsLabels
<1>12. a3 = Where(h + 1, "motor", 0)
  BY <1>8
<1> HIDE DEF a3
<1>13. a3.held > 0 /\ a3.mode = "idle" /\ a3.dor # "off"
  BY <1>1, <1>12
<1>14. Leads(r, ControlMotor(FALSE), a3, a4)
  BY <1>11, <1>13, MotorLeads
<1>15. a4 \in Label
  BY <1>14, LeadsLabels
<1>16. a4 = Where(h + 1, "on", 0)
  BY <1>12
<1> HIDE DEF a4
<1>17. a4.held > 0 /\ a4.held # 1
  BY <1>1, <1>16
<1>18. Leads(r, Release, a4, a5)
  BY <1>15, <1>17, ReleaseLeads
<1>19. a5 = Where(h, "on", 0)
  BY <1>1, <1>16
<1>20. [a EXCEPT !.on = 0] = a5
  BY <1>1, <1>19
<1> HIDE DEF a5
<1>21. Leads(r, Calibrate, a, a5)
  BY <1>2, <1>6, <1>10, <1>14, <1>18, LeadsThen DEF Calibrate
<1> QED BY <1>20, <1>21

\* FDC_setCurrentDrive.
LEMMA SetCurrentDriveLeads ==
    ASSUME NEW r, NEW d \in {"on", "motor"}
    PROVE  Leads(r, SetCurrentDrive, [AtRest EXCEPT !.dor = d], AtRest)
<1> DEFINE Where(held, set) ==
               [held |-> held, dor |-> set, mode |-> "idle", on |-> -1, place |-> -1, done |-> 0]
           a == [AtRest EXCEPT !.dor = d]
           a1 == [a EXCEPT !.held = 1]
           b == [a1 EXCEPT !.dor = "on", !.mode = IF "on" = "off" THEN "off"
                                                  ELSE IF a1.dor = "off" THEN "reset" ELSE @]
<1>1. a = Where(0, d)
  BY DEF AtRest
<1>2. a \in Label
  BY <1>1 DEF Label, Mode
<1> HIDE DEF a
<1>3. a1 = Where(1, d)
  BY <1>1
<1>4. a1 \in Label
  BY <1>3 DEF Label, Mode
<1> HIDE DEF a1
<1>5. a1.held > 0 /\ a1.dor # "off" /\ a1.mode = "idle"
  BY <1>3
<1>6. Leads(r, Dor("on"), a1, b)
  BY <1>4, <1>5, DorLeads
<1>7. b.held = 1 /\ b.dor = "on" /\ b.mode = "idle"
  BY <1>3
<1> HIDE DEF b
<1>8. a.held = 0
  BY <1>1
<1>9. Leads(r, Acquire \o Dor("on") \o Release, a, AtRest)
  BY <1>2, <1>6, <1>7, <1>8, LockedLeads DEF a1
<1> QED BY <1>9 DEF SetCurrentDrive, a

\* A nested write of the DOR.
LEMMA NestedDorLeads ==
    ASSUME NEW r, NEW a \in Label, a.held > 0, NEW v \in {"off", "on"},
           a.mode = IF a.dor = "off" THEN "off" ELSE "idle"
    PROVE  Leads(r, Acquire \o Dor(v) \o Release, a,
                 [a EXCEPT !.dor = v, !.mode = IF v = "off" THEN "off"
                                               ELSE IF a.dor = "off" THEN "reset" ELSE @])
<1> DEFINE a1 == [a EXCEPT !.held = @ + 1]
           b == [a1 EXCEPT !.dor = v, !.mode = IF v = "off" THEN "off"
                                               ELSE IF a1.dor = "off" THEN "reset" ELSE @]
           c == [a EXCEPT !.dor = v, !.mode = IF v = "off" THEN "off"
                                              ELSE IF a.dor = "off" THEN "reset" ELSE @]
<1>1. a.held + 1 \in Nat
  BY DEF Label
<1>2. a1 \in Label
  BY <1>1, Relabelled
<1>3. a1.held = a.held + 1 /\ a1.held > 0 /\ a1.mode = a.mode /\ a1.dor = a.dor
      /\ a1.on = a.on /\ a1.place = a.place /\ a1.done = a.done
  BY DEF Label, Mode
<1>4. c \in Label
  BY DEF Label, Mode
<1> HIDE DEF a1
<1>5. Leads(r, Dor(v), a1, b)
  BY <1>2, <1>3, DorLeads
<1>6. b \in Label
  BY <1>5, LeadsLabels
<1>7. b.held = a.held + 1
  BY <1>2, <1>3 DEF Label
<1>8. [b EXCEPT !.held = a.held] = c
  <2> DEFINE e == [b EXCEPT !.held = a.held]
  <2>1. e \in Label
    BY <1>6 DEF Label
  <2>2. /\ c.held = a.held /\ c.dor = v /\ c.on = a.on /\ c.place = a.place /\ c.done = a.done
        /\ c.mode = IF v = "off" THEN "off" ELSE IF a.dor = "off" THEN "reset" ELSE a.mode
    BY DEF Label
  <2>3. /\ b.dor = v /\ b.on = a.on /\ b.place = a.place /\ b.done = a.done
        /\ b.mode = IF v = "off" THEN "off" ELSE IF a.dor = "off" THEN "reset" ELSE a.mode
    BY <1>2, <1>3 DEF Label
  <2> HIDE DEF b, c
  <2>4. e.held = a.held /\ e.dor = b.dor /\ e.on = b.on /\ e.place = b.place
        /\ e.done = b.done /\ e.mode = b.mode
    BY <1>6 DEF Label
  <2> HIDE DEF e
  <2>5. e = c
    BY <1>4, <2>1, <2>2, <2>3, <2>4 DEF Label
  <2> QED BY <2>5 DEF e
<1> HIDE DEF b, c
<1>9. Leads(r, Acquire \o Dor(v) \o Release, a, [b EXCEPT !.held = a.held])
  BY <1>5, <1>7, NestedLeads DEF a1
<1> QED BY <1>8, <1>9 DEF c

\* FDC_resetController.
LEMMA ResetControllerLeads ==
    ASSUME NEW r
    PROVE  Leads(r, ResetController, AtRest, AtRest)
<1> DEFINE Where(set, mode, on) ==
               [held |-> 1, dor |-> set, mode |-> mode, on |-> on, place |-> -1, done |-> 0]
           Set(a, v) == [a EXCEPT !.dor = v, !.mode = IF v = "off" THEN "off"
                                                      ELSE IF a.dor = "off" THEN "reset" ELSE @]
           a1 == [AtRest EXCEPT !.held = @ + 1]
           a2 == Set(a1, "off")
           a3 == Set(a2, "on")
           a4 == [a3 EXCEPT !.mode = "idle"]
           a5 == [a4 EXCEPT !.on = 0]
           off == Acquire \o Dor("off") \o Release
           on == Acquire \o Dor("on") \o Release
<1>1. AtRest \in Label
  BY DEF Label, Mode, AtRest
<1>2. Leads(r, Acquire, AtRest, a1)
  BY <1>1, AcquireLeads
<1>3. a1 = Where("on", "idle", -1)
  BY DEF AtRest
<1>4. a1 \in Label
  BY <1>2, LeadsLabels
<1> HIDE DEF a1
<1>5. a1.held > 0 /\ a1.dor = "on" /\ a1.mode = "idle"
  BY <1>3
<1>6. Leads(r, off, a1, a2)
  BY <1>4, <1>5, NestedDorLeads
<1>7. a2 \in Label
  BY <1>6, LeadsLabels
<1>8. a2 = Where("off", "off", -1)
  <2>1. /\ a2.held = 1 /\ a2.dor = "off" /\ a2.mode = "off"
        /\ a2.on = -1 /\ a2.place = -1 /\ a2.done = 0
    BY <1>3
  <2> HIDE DEF a2
  <2> QED BY <1>7, <2>1 DEF Label
<1> HIDE DEF a2
<1>9. a2.held > 0 /\ a2.dor = "off" /\ a2.mode = "off"
  BY <1>8
<1>10. Leads(r, on, a2, a3)
  BY <1>7, <1>9, NestedDorLeads
<1>11. a3 \in Label
  BY <1>10, LeadsLabels
<1>12. a3 = Where("on", "reset", -1)
  <2>1. /\ a3.held = 1 /\ a3.dor = "on" /\ a3.mode = "reset"
        /\ a3.on = -1 /\ a3.place = -1 /\ a3.done = 0
    BY <1>8
  <2> HIDE DEF a3
  <2> QED BY <1>11, <2>1 DEF Label
<1> HIDE DEF a3
<1>13. a3.held > 0 /\ a3.mode = "reset"
  BY <1>12
<1>14. Leads(r, Wait, a3, a4)
  BY <1>11, <1>13, WaitLeads
<1>15. a4 \in Label
  BY <1>14, LeadsLabels
<1>16. a4 = Where("on", "idle", -1)
  BY <1>12
<1> HIDE DEF a4
<1>17. a4.held > 0 /\ a4.mode = "idle" /\ a4.dor = "on"
  BY <1>16
<1>18. Leads(r, Sense, a4, a4) /\ Leads(r, Send([op |-> "specify"]), a4, a4)
  BY <1>15, <1>17, SenseLeads, SendLeads
<1>19. Leads(r, Calibrate, a4, a5)
  BY <1>15, <1>17, CalibrateLeads
<1>20. a5 \in Label
  BY <1>19, LeadsLabels
<1>21. a5 = Where("on", "idle", 0)
  BY <1>16
<1> HIDE DEF a5
<1>22. a5.held = 1 /\ a5.held > 0 /\ a5.dor = "on" /\ a5.mode = "idle"
  BY <1>21
<1>23. Leads(r, Release, a5, AtRest)
  BY <1>20, <1>22, ReleaseLeads
<1> HIDE DEF off, on
<1>24. Leads(r, Acquire \o off \o on \o Wait, AtRest, a4)
  BY <1>2, <1>6, <1>10, <1>14, LeadsThen
<1>25. Leads(r, Acquire \o off \o on \o Wait \o Sense \o Sense \o Sense \o Sense, AtRest, a4)
  BY <1>18, <1>24, LeadsThen
<1>26. Leads(r, Acquire \o off \o on \o Wait \o Sense \o Sense \o Sense \o Sense
                    \o Send([op |-> "specify"]) \o Calibrate \o Release, AtRest, AtRest)
  BY <1>18, <1>19, <1>23, <1>25, LeadsThen
<1> QED BY <1>26 DEF ResetController, off, on

\* FDC_initialize.
LEMMA InitializeLeads ==
    ASSUME NEW r, NEW d \in {"on", "motor"}
    PROVE  Leads(r, Initialize, [AtRest EXCEPT !.dor = d], AtRest)
BY SetCurrentDriveLeads, ResetControllerLeads, LeadsThen DEF Initialize


-----------------------------------------------------------------------------
(***************************************************************************)
(* The steps of a process                                                  *)
(***************************************************************************)

\* Before FDC_initialize is through, nobody else has the lock.
LEMMA HolderBusy ==
    ASSUME FloppyInv, holder # nobody, NEW p \in Client, holder # p
    PROVE  p # starter \/ Started
<1> SUFFICES ASSUME p = starter, ~Started
             PROVE  FALSE
  OBVIOUS
<1>1. holder \in Client \ {starter} /\ depth \in Nat
  BY DEF FloppyInv, LockOK
<1>2. todo[holder] = <<>>
  BY <1>1 DEF FloppyInv
<1>3. PICK a \in Label : Leads(asked[holder], todo[holder], a, AtRest) /\ Fits(holder, a)
  BY <1>1 DEF FloppyInv, Fitting
<1>4. a = AtRest
  <2>1. Leads(asked[holder], <<>>, a, AtRest)
    BY <1>2, <1>3
  <2> QED BY <2>1, LeadsNowhere
<1>5. a.held = depth + 1
  BY <1>3 DEF Fits, Held
<1> QED BY <1>1, <1>4, <1>5 DEF AtRest

\* Who does not have the lock is at rest, or in its queue.
LEMMA Waiting ==
    ASSUME FloppyInv, NEW p \in Client, holder # nobody, holder # p, NEW a, Fits(p, a)
    PROVE  a = [AtRest EXCEPT !.held = Held(p)]
BY HolderBusy DEF Fits

\* What is known of a process that goes past its step x.
LEMMA Running ==
    ASSUME FloppyInv, NEW p \in Client, todo[p] # <<>>, p \notin ToSet(queue)
    PROVE  \E a \in Label :
              /\ Leads(asked[p], todo[p], a, AtRest) /\ Fits(p, a)
              /\ Now(p) \in Steps /\ May(asked[p], Now(p), a)
              /\ Leads(asked[p], Tail(todo[p]), After(asked[p], Now(p), a), AtRest)
              /\ Now(p).op # "acquire" => holder = p
<1>1. PICK a \in Label : Leads(asked[p], todo[p], a, AtRest) /\ Fits(p, a)
  BY DEF FloppyInv, Fitting
<1>2. /\ Now(p) \in Steps /\ May(asked[p], Now(p), a)
      /\ Leads(asked[p], Tail(todo[p]), After(asked[p], Now(p), a), AtRest)
  BY <1>1, LeadsOn DEF Now
<1>3. Now(p).op # "acquire" => holder = p
  BY <1>1, <1>2 DEF May, Fits, Held
<1> QED BY <1>1, <1>2, <1>3

\* A step of the process that has the lock, and keeps it, which puts `more` in
\* front of its program.
LEMMA OwnStep ==
    ASSUME FloppyAssumption, FloppyInv, NEW p \in Client, holder = p, todo[p] # <<>>,
           NEW more, todo' = [todo EXCEPT ![p] = more \o Tail(@)],
           UNCHANGED <<asked, lockVars>>,
           NEW a, NEW b, Leads(asked[p], more, a, b),
           Leads(asked[p], Tail(todo[p]), b, AtRest),
           a.held = Held(p), a.dor = dor', ~astray' => Tracks(asked[p], a)',
           irq' \in BOOLEAN, fired' \in BOOLEAN, astray' \in BOOLEAN,
           DOMAIN buffer' = DOMAIN buffer
    PROVE  FloppyInv'
<1>1. holder # nobody
  BY DEF FloppyAssumption
<1>2. UNCHANGED <<asked, holder, depth, queue>> /\ todo'[p] = more \o Tail(todo[p])
      /\ (\A q \in Client \ {p} : todo'[q] = todo[q]) /\ DOMAIN todo' = Client
  BY DEF lockVars, FloppyInv, FloppyTypeOK
<1>3. Started => Started'
  BY <1>2 DEF Started
<1>4. Started' => Started \/ p = starter
  BY <1>2, FloppyAssumption DEF Started, FloppyAssumption
<1>5. Started \/ p = starter
  BY DEF FloppyInv
<1>6. \A q \in Client : Held(q)' = Held(q)
  BY <1>2 DEF Held
<1>7. LockOK'
  BY <1>2 DEF LockOK, FloppyInv
<1>8. FloppyTypeOK'
  BY <1>2 DEF FloppyTypeOK, FloppyInv
<1>9. ~Started' => \A q \in Client \ {starter} : todo'[q] = <<>>
  BY <1>2, <1>3, <1>5 DEF FloppyInv
<1>10. Fitting(p)'
  <2>1. Leads(asked[p], more \o Tail(todo[p]), a, AtRest)
    BY LeadsThen
  <2>2. a \in Label
    BY LeadsLabels
  <2>3. Fits(p, a)'
    BY <1>1, <1>2, <1>6 DEF Fits
  <2> QED BY <1>2, <2>1, <2>2, <2>3 DEF Fitting
<1>11. ASSUME NEW q \in Client \ {p}
       PROVE  Fitting(q)'
  <2>1. PICK c \in Label : Leads(asked[q], todo[q], c, AtRest) /\ Fits(q, c)
    BY DEF FloppyInv, Fitting
  <2>2. c = [AtRest EXCEPT !.held = Held(q)]
    BY <1>1, <2>1, Waiting
  <2>3. ~Owns(q)'
    BY <1>1, <1>2 DEF Owns
  <2>4. Fits(q, c)'
    BY <1>6, <2>1, <2>2, <2>3 DEF Fits
  <2> QED BY <1>2, <2>1, <2>4 DEF Fitting
<1> QED BY <1>7, <1>8, <1>9, <1>10, <1>11 DEF FloppyInv

\* The steps that put nothing in front of the program.
LEMMA PlainStep ==
    ASSUME FloppyAssumption, FloppyInv, NEW p \in Client, todo[p] # <<>>, holder = p,
           GoOn(p, <<>>), UNCHANGED <<asked, lockVars>>,
           NEW a \in Label, NEW b, Fits(p, a),
           Leads(asked[p], Tail(todo[p]), b, AtRest),
           b.held = a.held, b.dor = dor', ~astray' => Tracks(asked[p], b)',
           irq' \in BOOLEAN, fired' \in BOOLEAN, astray' \in BOOLEAN,
           DOMAIN buffer' = DOMAIN buffer
    PROVE  FloppyInv'
<1>1. b \in Label
  BY LeadsLabels
<1>2. Leads(asked[p], <<>>, b, b)
  BY <1>1, LeadsNowhere
<1>3. todo' = [todo EXCEPT ![p] = <<>> \o Tail(@)]
  BY DEF GoOn
<1>4. b.held = Held(p)
  BY DEF Fits
<1> QED BY <1>2, <1>3, <1>4, OwnStep

\* What its step finds.
LEMMA Finds ==
    ASSUME FloppyInv, NEW p \in Client, NEW op, op # "acquire", At(p, op)
    PROVE  \E a \in Label, x \in Steps :
              /\ Fits(p, a) /\ holder = p /\ todo[p] # <<>>
              /\ x = Now(p) /\ x.op = op /\ May(asked[p], x, a)
              /\ Leads(asked[p], Tail(todo[p]), After(asked[p], x, a), AtRest)
              /\ a.dor = dor /\ (~astray => Tracks(asked[p], a))
              /\ After(asked[p], x, a) \in Label
<1>1. PICK a \in Label :
              /\ Leads(asked[p], todo[p], a, AtRest) /\ Fits(p, a)
              /\ Now(p) \in Steps /\ May(asked[p], Now(p), a)
              /\ Leads(asked[p], Tail(todo[p]), After(asked[p], Now(p), a), AtRest)
              /\ Now(p).op # "acquire" => holder = p
  BY Running DEF At
<1>2. Now(p).op = op /\ todo[p] # <<>>
  BY DEF At, Now
<1>3. holder = p
  BY <1>1, <1>2
<1>4. a.dor = dor /\ (~astray => Tracks(asked[p], a))
  BY <1>1, <1>3 DEF Fits, Owns
<1>5. After(asked[p], Now(p), a) \in Label
  BY <1>1, LeadsLabels
<1> QED BY <1>1, <1>2, <1>3, <1>4, <1>5

\* A sleep, or the copy, leaves everything as it is.
LEMMA IdleStep ==
    ASSUME FloppyAssumption, FloppyInv, NEW p \in Client, Sleep(p) \/ Copy(p)
    PROVE  FloppyInv'
<1>1. PICK op \in {"sleep", "copy"} : At(p, op)
  BY DEF Sleep, Copy
<1>2. /\ GoOn(p, <<>>)
      /\ UNCHANGED <<asked, lockVars>>
      /\ UNCHANGED <<fired, dor, phase, cmd, cyl, irq, dma, buffer, astray>>
  BY DEF Sleep, Copy, fdcVars
<1>3. PICK a \in Label, x \in Steps :
              /\ Fits(p, a) /\ holder = p /\ todo[p] # <<>>
              /\ x = Now(p) /\ x.op = op /\ May(asked[p], x, a)
              /\ Leads(asked[p], Tail(todo[p]), After(asked[p], x, a), AtRest)
              /\ a.dor = dor /\ (~astray => Tracks(asked[p], a))
              /\ After(asked[p], x, a) \in Label
  BY <1>1, Finds
<1>4. After(asked[p], x, a) = a
  BY <1>3 DEF After
<1>5. ~astray' => Tracks(asked[p], a)'
  BY <1>2, <1>3 DEF Tracks, Executes, Finished
<1>6. irq' \in BOOLEAN /\ fired' \in BOOLEAN /\ astray' \in BOOLEAN
  BY <1>2 DEF FloppyInv, FloppyTypeOK
<1> QED BY <1>2, <1>3, <1>4, <1>5, <1>6, PlainStep

LEMMA WriteDorStep ==
    ASSUME FloppyAssumption, FloppyInv, NEW p \in Client, WriteDor(p)
    PROVE  FloppyInv'
<1>1. At(p, "dor") /\ GoOn(p, <<>>) /\ dor' = Now(p).value
      /\ UNCHANGED <<asked, lockVars>> /\ UNCHANGED <<fired, cyl, irq, dma, buffer, astray>>
  BY DEF WriteDor
<1>2. PICK a \in Label, x \in Steps :
              /\ Fits(p, a) /\ holder = p /\ todo[p] # <<>>
              /\ x = Now(p) /\ x.op = "dor" /\ May(asked[p], x, a)
              /\ Leads(asked[p], Tail(todo[p]), After(asked[p], x, a), AtRest)
              /\ a.dor = dor /\ (~astray => Tracks(asked[p], a))
              /\ After(asked[p], x, a) \in Label
  BY <1>1, Finds
<1> DEFINE v == x.value
           m == IF v = "off" THEN "off" ELSE IF a.dor = "off" THEN "reset" ELSE a.mode
           b == [a EXCEPT !.dor = v, !.mode = m]
<1>3. After(asked[p], x, a) = b
  BY <1>2 DEF After
<1>4. /\ b.held = a.held /\ b.dor = v /\ b.mode = m
      /\ b.on = a.on /\ b.place = a.place /\ b.done = a.done
  BY DEF Label
<1>5. a.mode = IF a.dor = "off" THEN "off" ELSE "idle"
  BY <1>2 DEF May
<1>6. ~astray' => Tracks(asked[p], b)'
  <2> SUFFICES ASSUME ~astray
               PROVE  Tracks(asked[p], b)'
    BY <1>1
  <2>1. Tracks(asked[p], a)
    BY <1>2
  <2>2. ~irq /\ ~fired /\ (dor # "off" => phase = "command")
    <3>1. CASE dor = "off"
      <4>1. a.mode = "off"
        BY <1>2, <1>5, <3>1
      <4> QED BY <2>1, <3>1, <4>1 DEF Tracks
    <3>2. CASE dor # "off"
      <4>1. a.mode = "idle"
        BY <1>2, <1>5, <3>2
      <4> QED BY <2>1, <4>1 DEF Tracks
    <3> QED BY <3>1, <3>2
  <2>3. CASE v = "off"
    <3>1. phase' = "off" /\ m = "off"
      BY <1>2, <2>3 DEF WriteDor
    <3> HIDE DEF v, m, b
    <3> QED BY <1>1, <1>4, <2>1, <2>2, <3>1 DEF Tracks
  <2>4. CASE v # "off" /\ dor = "off"
    <3>1. phase' = "exec" /\ cmd'.op = "reset" /\ m = "reset"
      BY <1>1, <1>2, <2>4 DEF WriteDor
    <3> HIDE DEF v, m, b
    <3> QED BY <1>1, <1>4, <2>1, <2>2, <3>1 DEF Tracks, Executes
  <2>5. CASE v # "off" /\ dor # "off"
    <3>1. phase' = phase /\ m = "idle"
      BY <1>1, <1>2, <1>5, <2>5 DEF WriteDor
    <3> HIDE DEF v, m, b
    <3> QED BY <1>1, <1>4, <2>1, <2>2, <2>5, <3>1 DEF Tracks
  <2> QED BY <2>3, <2>4, <2>5
<1>7. irq' \in BOOLEAN /\ fired' \in BOOLEAN /\ astray' \in BOOLEAN
  BY <1>1 DEF FloppyInv, FloppyTypeOK
<1> HIDE DEF b
<1> QED BY <1>1, <1>2, <1>3, <1>4, <1>6, <1>7, PlainStep

LEMMA ProgramDmaStep ==
    ASSUME FloppyAssumption, FloppyInv, NEW p \in Client, ProgramDma(p)
    PROVE  FloppyInv'
<1>1. At(p, "dma") /\ GoOn(p, <<>>) /\ dma' = Now(p).place
      /\ UNCHANGED <<asked, lockVars>>
      /\ UNCHANGED <<fired, dor, phase, cmd, cyl, irq, buffer, astray>>
  BY DEF ProgramDma
<1>2. PICK a \in Label, x \in Steps :
              /\ Fits(p, a) /\ holder = p /\ todo[p] # <<>>
              /\ x = Now(p) /\ x.op = "dma" /\ May(asked[p], x, a)
              /\ Leads(asked[p], Tail(todo[p]), After(asked[p], x, a), AtRest)
              /\ a.dor = dor /\ (~astray => Tracks(asked[p], a))
              /\ After(asked[p], x, a) \in Label
  BY <1>1, Finds
<1> DEFINE b == [a EXCEPT !.place = x.place]
<1>3. After(asked[p], x, a) = b
  BY <1>2 DEF After
<1>4. /\ b.held = a.held /\ b.dor = a.dor /\ b.mode = a.mode
      /\ b.on = a.on /\ b.place = x.place /\ b.done = a.done
  BY DEF Label
<1>5. a.mode = "idle"
  BY <1>2 DEF May
<1> HIDE DEF b
<1>6. ~astray' => Tracks(asked[p], b)'
  BY <1>1, <1>2, <1>4, <1>5 DEF Tracks
<1>7. irq' \in BOOLEAN /\ fired' \in BOOLEAN /\ astray' \in BOOLEAN
  BY <1>1 DEF FloppyInv, FloppyTypeOK
<1> QED BY <1>1, <1>2, <1>3, <1>4, <1>6, <1>7, PlainStep

LEMMA SendCommandStep ==
    ASSUME FloppyAssumption, FloppyInv, NEW p \in Client, SendCommand(p)
    PROVE  FloppyInv'
<1>1. At(p, "send") /\ GoOn(p, <<>>) /\ UNCHANGED <<asked, lockVars>>
      /\ UNCHANGED <<fired, dor, cyl, irq, dma, buffer>>
  BY DEF SendCommand
<1>2. PICK a \in Label, x \in Steps :
              /\ Fits(p, a) /\ holder = p /\ todo[p] # <<>>
              /\ x = Now(p) /\ x.op = "send" /\ May(asked[p], x, a)
              /\ Leads(asked[p], Tail(todo[p]), After(asked[p], x, a), AtRest)
              /\ a.dor = dor /\ (~astray => Tracks(asked[p], a))
              /\ After(asked[p], x, a) \in Label
  BY <1>1, Finds
<1> DEFINE c == x.cmd
           b == Sent(c, a)
<1>3. After(asked[p], x, a) = b
  BY <1>2 DEF After
<1>4. c \in Commands
  BY <1>2 DEF Steps
<1>5. c.op \in {"sense", "specify", "read", "seek", "calibrate"}
  BY <1>4 DEF Commands
<1>6. a.mode = "idle"
  BY <1>2 DEF May
<1>7. c.op = "read" =>
           /\ a.dor = "motor" /\ a.done < asked[p].count /\ a.place = a.done
           /\ c.chs = Chs(LbaAt(asked[p].lba, a.done)) /\ a.on = c.chs.cyl
  BY <1>2 DEF May
<1>8. /\ phase = "command" =>
             /\ cmd' = c
             /\ c.op = "sense" => phase' = "result"
             /\ c.op = "specify" => phase' = "command"
             /\ c.op \in {"read", "seek", "calibrate"} => phase' = "exec"
      /\ phase = "command" => astray' = astray
      /\ phase # "command" => astray' = TRUE
  BY <1>2, <1>5 DEF SendCommand
<1> HIDE DEF c
<1>9. b.held = a.held /\ b.dor = a.dor /\ b.place = a.place /\ b.done = a.done
  BY DEF Sent, Label
<1>10. /\ c.op = "specify" => b = a
       /\ c.op = "sense" => b.mode = "answer" /\ b.on = a.on
       /\ c.op = "read" => b.mode = "read" /\ b.on = a.on
       /\ c.op \in {"seek", "calibrate"} => b.mode = "move" /\ b.on = -1
  BY DEF Sent, Label
<1> HIDE DEF b
<1>11. ~astray' => Tracks(asked[p], b)'
  <2> SUFFICES ASSUME ~astray'
               PROVE  Tracks(asked[p], b)'
    OBVIOUS
  <2>1. phase = "command" /\ ~astray
    BY <1>8
  <2>2. Tracks(asked[p], a) /\ ~irq /\ ~fired
    BY <1>2, <1>6, <2>1 DEF Tracks
  <2>3. CASE c.op = "specify"
    BY <1>1, <1>6, <1>8, <1>10, <2>1, <2>2, <2>3 DEF Tracks
  <2>4. CASE c.op = "sense"
    BY <1>1, <1>8, <1>9, <1>10, <2>1, <2>2, <2>4 DEF Tracks
  <2>5. CASE c.op = "read"
    BY <1>1, <1>7, <1>8, <1>9, <1>10, <2>1, <2>2, <2>5 DEF Tracks, Executes
  <2>6. CASE c.op \in {"seek", "calibrate"}
    BY <1>1, <1>8, <1>9, <1>10, <2>1, <2>2, <2>6 DEF Tracks, Executes
  <2> QED BY <1>5, <2>3, <2>4, <2>5, <2>6
<1>12. irq' \in BOOLEAN /\ fired' \in BOOLEAN
  BY <1>1 DEF FloppyInv, FloppyTypeOK
<1>13. astray' \in BOOLEAN
  BY <1>8 DEF FloppyInv, FloppyTypeOK
<1> QED BY <1>1, <1>2, <1>3, <1>9, <1>11, <1>12, <1>13, PlainStep

LEMMA WaitIrqStep ==
    ASSUME FloppyAssumption, FloppyInv, NEW p \in Client, WaitIrq(p)
    PROVE  FloppyInv'
<1>1. At(p, "wait") /\ GoOn(p, <<>>) /\ fired /\ fired' = FALSE
      /\ UNCHANGED <<asked, lockVars>>
      /\ UNCHANGED <<dor, phase, cmd, cyl, irq, dma, buffer, astray>>
  BY DEF WaitIrq, FlagReset, fdcVars
<1>2. PICK a \in Label, x \in Steps :
              /\ Fits(p, a) /\ holder = p /\ todo[p] # <<>>
              /\ x = Now(p) /\ x.op = "wait" /\ May(asked[p], x, a)
              /\ Leads(asked[p], Tail(todo[p]), After(asked[p], x, a), AtRest)
              /\ a.dor = dor /\ (~astray => Tracks(asked[p], a))
              /\ After(asked[p], x, a) \in Label
  BY <1>1, Finds
<1> DEFINE b == IF a.mode = "read" THEN [a EXCEPT !.mode = "answer", !.done = @ + 1]
                ELSE [a EXCEPT !.mode = "idle"]
<1>3. After(asked[p], x, a) = b
  BY <1>2 DEF After
<1>4. a.mode \in {"reset", "move", "read"}
  BY <1>2 DEF May
<1>5. b.held = a.held /\ b.dor = a.dor /\ b.place = a.place /\ b.on = a.on
  BY DEF Label
<1>6. /\ a.mode = "read" => b.mode = "answer" /\ b.done = a.done + 1
      /\ a.mode # "read" => b.mode = "idle" /\ b.done = a.done
  BY DEF Label
<1>7. a.done \in Nat
  BY DEF Label
<1> HIDE DEF b
<1>8. ~astray' => Tracks(asked[p], b)'
  <2> SUFFICES ASSUME ~astray
               PROVE  Tracks(asked[p], b)'
    BY <1>1
  <2>1. Tracks(asked[p], a)
    BY <1>2
  <2>2. CASE a.mode = "read"
    <3>1. phase = "result" /\ ~irq /\ buffer[a.done] = LbaAt(asked[p].lba, a.done)
      BY <1>1, <2>1, <2>2 DEF Tracks, Executes, Finished
    <3>2. \A k \in 0 .. a.done - 1 : buffer[k] = LbaAt(asked[p].lba, k)
      BY <2>1 DEF Tracks
    <3>3. \A k \in 0 .. b.done - 1 : buffer[k] = LbaAt(asked[p].lba, k)
      <4> SUFFICES ASSUME NEW k \in 0 .. b.done - 1
                   PROVE  buffer[k] = LbaAt(asked[p].lba, k)
        OBVIOUS
      <4>1. k = a.done \/ k \in 0 .. a.done - 1
        BY <1>6, <1>7, <2>2
      <4> QED BY <3>1, <3>2, <4>1
    <3>4. (a.on # -1 => cyl = a.on) /\ (a.place # -1 => dma = a.place)
      BY <2>1 DEF Tracks
    <3> QED BY <1>1, <1>5, <1>6, <2>2, <3>1, <3>3, <3>4 DEF Tracks
  <2>3. CASE a.mode # "read"
    <3>1. phase = "command" /\ ~irq
      BY <1>1, <1>4, <2>1, <2>3 DEF Tracks, Executes, Finished
    <3> QED BY <1>1, <1>5, <1>6, <2>1, <2>3, <3>1 DEF Tracks
  <2> QED BY <2>2, <2>3
<1>9. irq' \in BOOLEAN /\ fired' \in BOOLEAN /\ astray' \in BOOLEAN
  BY <1>1 DEF FloppyInv, FloppyTypeOK
<1> QED BY <1>1, <1>2, <1>3, <1>5, <1>8, <1>9, PlainStep

LEMMA WaitTimesOutStep ==
    ASSUME FloppyAssumption, FloppyInv, NEW p \in Client, WaitTimesOut(p)
    PROVE  FloppyInv'
<1>1. At(p, "wait") /\ GoOn(p, <<>>) /\ fired' \in {FALSE, fired} /\ astray' = TRUE
      /\ UNCHANGED <<asked, lockVars>> /\ UNCHANGED <<dor, irq, buffer>>
  BY DEF WaitTimesOut, fdcVars
<1>2. PICK a \in Label, x \in Steps :
              /\ Fits(p, a) /\ holder = p /\ todo[p] # <<>>
              /\ x = Now(p) /\ x.op = "wait" /\ May(asked[p], x, a)
              /\ Leads(asked[p], Tail(todo[p]), After(asked[p], x, a), AtRest)
              /\ a.dor = dor /\ (~astray => Tracks(asked[p], a))
              /\ After(asked[p], x, a) \in Label
  BY <1>1, Finds
<1> DEFINE b == IF a.mode = "read" THEN [a EXCEPT !.mode = "answer", !.done = @ + 1]
                ELSE [a EXCEPT !.mode = "idle"]
<1>3. After(asked[p], x, a) = b
  BY <1>2 DEF After
<1>4. b.held = a.held /\ b.dor = a.dor
  BY DEF Label
<1> HIDE DEF b
<1>5. irq' \in BOOLEAN /\ fired' \in BOOLEAN /\ astray' \in BOOLEAN
  BY <1>1 DEF FloppyInv, FloppyTypeOK
<1> QED BY <1>1, <1>2, <1>3, <1>4, <1>5, PlainStep

LEMMA ReadStatusStep ==
    ASSUME FloppyAssumption, FloppyInv, NEW p \in Client, ReadStatus(p)
    PROVE  FloppyInv'
<1>1. At(p, "sense") /\ GoOn(p, <<>>) /\ phase' = "command"
      /\ astray' = (astray \/ phase # "result")
      /\ UNCHANGED <<asked, lockVars>> /\ UNCHANGED <<fired, dor, cmd, cyl, irq, dma, buffer>>
  BY DEF ReadStatus
<1>2. PICK a \in Label, x \in Steps :
              /\ Fits(p, a) /\ holder = p /\ todo[p] # <<>>
              /\ x = Now(p) /\ x.op = "sense" /\ May(asked[p], x, a)
              /\ Leads(asked[p], Tail(todo[p]), After(asked[p], x, a), AtRest)
              /\ a.dor = dor /\ (~astray => Tracks(asked[p], a))
              /\ After(asked[p], x, a) \in Label
  BY <1>1, Finds
<1> DEFINE b == [a EXCEPT !.mode = "idle"]
<1>3. After(asked[p], x, a) = b
  BY <1>2 DEF After
<1>4. /\ b.held = a.held /\ b.dor = a.dor /\ b.mode = "idle"
      /\ b.on = a.on /\ b.place = a.place /\ b.done = a.done
  BY DEF Label
<1>5. a.mode = "answer"
  BY <1>2 DEF May
<1> HIDE DEF b
<1>6. ~astray' => ~astray
  BY <1>1
<1>7. ~astray' => Tracks(asked[p], b)'
  BY <1>1, <1>2, <1>4, <1>5, <1>6 DEF Tracks
<1>8. astray' \in BOOLEAN
  BY <1>1, Zenon DEF FloppyInv, FloppyTypeOK
<1>9. irq' \in BOOLEAN /\ fired' \in BOOLEAN
  BY <1>1 DEF FloppyInv, FloppyTypeOK
<1> QED BY <1>1, <1>2, <1>3, <1>4, <1>7, <1>8, <1>9, PlainStep

\* The head is on the cylinder, or the command is sent again, or given up.
LEMMA TestCylinderStep ==
    ASSUME FloppyAssumption, FloppyInv, NEW p \in Client, TestCylinder(p)
    PROVE  FloppyInv'
<1>1. At(p, "test") /\ UNCHANGED <<asked, lockVars>>
      /\ UNCHANGED <<fired, dor, phase, cmd, cyl, irq, dma, buffer>>
  BY DEF TestCylinder, fdcVars
<1>2. PICK a \in Label, x \in Steps :
              /\ Fits(p, a) /\ holder = p /\ todo[p] # <<>>
              /\ x = Now(p) /\ x.op = "test" /\ May(asked[p], x, a)
              /\ Leads(asked[p], Tail(todo[p]), After(asked[p], x, a), AtRest)
              /\ a.dor = dor /\ (~astray => Tracks(asked[p], a))
              /\ After(asked[p], x, a) \in Label
  BY <1>1, Finds
<1>3. PICK seen \in IF astray THEN Cylinder ELSE {cyl} :
          IF seen = Now(p).cyl THEN GoOn(p, <<>>) /\ UNCHANGED astray
          ELSE IF Now(p).left = 0 THEN GoOn(p, <<>>) /\ astray' = TRUE
          ELSE GoOn(p, Attempt(Now(p).cyl, Now(p).name, Now(p).left)) /\ UNCHANGED astray
  BY DEF TestCylinder
<1> DEFINE b == [a EXCEPT !.on = x.cyl]
<1>4. After(asked[p], x, a) = b
  BY <1>2 DEF After
<1>5. /\ b.held = a.held /\ b.dor = a.dor /\ b.mode = a.mode
      /\ b.on = x.cyl /\ b.place = a.place /\ b.done = a.done
  BY DEF Label
<1>6. a.mode = "idle" /\ a.held > 0
  BY <1>2 DEF May
<1>7. x.cyl \in Int /\ x.name \in {"seek", "calibrate"} /\ x.left \in Nat
  BY <1>2 DEF Steps
<1>8. irq' \in BOOLEAN /\ fired' \in BOOLEAN /\ astray \in BOOLEAN
  BY <1>1 DEF FloppyInv, FloppyTypeOK
<1>9. CASE seen = x.cyl
  <2>1. GoOn(p, <<>>) /\ UNCHANGED astray
    BY <1>2, <1>3, <1>9
  <2>2. ~astray => cyl = x.cyl
    BY <1>3, <1>9
  <2> HIDE DEF b
  <2>3. ~astray' => Tracks(asked[p], b)'
    BY <1>1, <1>2, <1>5, <1>6, <2>1, <2>2 DEF Tracks
  <2>4. astray' \in BOOLEAN
    BY <1>8, <2>1
  <2> QED BY <1>1, <1>2, <1>4, <1>5, <1>8, <2>1, <2>3, <2>4, PlainStep
<1>10. CASE seen # x.cyl /\ x.left = 0
  <2>1. GoOn(p, <<>>) /\ astray' = TRUE
    BY <1>2, <1>3, <1>10
  <2> HIDE DEF b
  <2> QED BY <1>1, <1>2, <1>4, <1>5, <1>8, <2>1, PlainStep
<1>11. CASE seen # x.cyl /\ x.left # 0
  <2>1. GoOn(p, Attempt(x.cyl, x.name, x.left)) /\ UNCHANGED astray
    BY <1>2, <1>3, <1>11
  <2>2. Leads(asked[p], Attempt(x.cyl, x.name, x.left), a, b)
    <3>1. x.left \in Nat \ {0}
      BY <1>7, <1>11
    <3> QED BY <1>6, <1>7, <3>1, AttemptLeads
  <2> HIDE DEF b
  <2>3. ~astray' => Tracks(asked[p], a)'
    BY <1>1, <1>2, <1>6, <2>1 DEF Tracks
  <2>4. astray' \in BOOLEAN
    BY <1>8, <2>1
  <2>5. a.held = Held(p)
    BY <1>2 DEF Fits
  <2>6. todo' = [todo EXCEPT ![p] = Attempt(x.cyl, x.name, x.left) \o Tail(@)]
    BY <2>1 DEF GoOn
  <2> QED BY <1>1, <1>2, <1>4, <1>8, <2>2, <2>3, <2>4, <2>5, <2>6, OwnStep
<1> QED BY <1>9, <1>10, <1>11

\* The read is through, and the loop turns.
LEMMA ReadResultStep ==
    ASSUME FloppyAssumption, FloppyInv, NEW p \in Client, ReadResult(p)
    PROVE  FloppyInv'
<1>1. At(p, "result") /\ GoOn(p, Turn(asked[p], Now(p).turn + 1))
      /\ phase' = (IF phase = "result" THEN "command" ELSE phase)
      /\ astray' = (astray \/ phase # "result")
      /\ UNCHANGED <<asked, lockVars>> /\ UNCHANGED <<fired, dor, cmd, cyl, irq, dma, buffer>>
  BY DEF ReadResult
<1>2. PICK a \in Label, x \in Steps :
              /\ Fits(p, a) /\ holder = p /\ todo[p] # <<>>
              /\ x = Now(p) /\ x.op = "result" /\ May(asked[p], x, a)
              /\ Leads(asked[p], Tail(todo[p]), After(asked[p], x, a), AtRest)
              /\ a.dor = dor /\ (~astray => Tracks(asked[p], a))
              /\ After(asked[p], x, a) \in Label
  BY <1>1, Finds
<1>3. PICK r : r = asked[p]
  OBVIOUS
<1> DEFINE t == [a EXCEPT !.mode = "idle", !.on = -1]
           s == [t EXCEPT !.place = -1]
           b == [a EXCEPT !.mode = "idle", !.on = -1, !.place = -1, !.done = r.count]
           i == x.turn + 1
<1>4. After(asked[p], x, a) = b
  BY <1>2, <1>3 DEF After
<1>5. r.count \in Nat /\ (r.count > 0 => r.lba \in Nat)
  BY <1>3, FloppyAssumption DEF FloppyInv, FloppyTypeOK, FloppyAssumption, NoRequest
<1>6. a.mode = "answer" /\ a.dor = "motor" /\ a.done = i /\ i <= r.count /\ a.held > 0
  BY <1>2, <1>3 DEF May
<1>7. i \in 0 .. r.count
  <2>1. x.turn \in Nat
    BY <1>2 DEF Steps
  <2> QED BY <1>5, <1>6, <2>1
<1>8. /\ s.held = a.held /\ s.dor = a.dor /\ s.mode = "idle"
      /\ s.on = -1 /\ s.place = -1 /\ s.done = a.done
  BY DEF Label
<1>9. [s EXCEPT !.done = r.count] = b
  BY DEF Label
<1>10. s \in Label
  <2>1. "idle" \in Mode /\ -1 \in Int
    BY DEF Mode
  <2>2. t \in Label
    BY <2>1, Relabelled
  <2> HIDE DEF t
  <2> QED BY <2>1, <2>2, Relabelled
<1> HIDE DEF s, b, i
<1>11. Leads(r, Turn(r, i), s, [s EXCEPT !.done = r.count])
  BY <1>5, <1>6, <1>7, <1>8, <1>10, TurnLeads
<1>12. todo' = [todo EXCEPT ![p] = Turn(r, i) \o Tail(@)]
  BY <1>1, <1>2, <1>3 DEF GoOn, i
<1>13. s.held = Held(p) /\ s.dor = dor'
  BY <1>1, <1>2, <1>8 DEF Fits
<1>14. ~astray' => Tracks(asked[p], s)'
  <2> SUFFICES ASSUME ~astray'
               PROVE  Tracks(asked[p], s)'
    OBVIOUS
  <2>1. phase' = "command" /\ ~astray
    BY <1>1
  <2> QED BY <1>1, <1>2, <1>6, <1>8, <2>1 DEF Tracks
<1>15. astray' \in BOOLEAN
  BY <1>1, Zenon DEF FloppyInv, FloppyTypeOK
<1>16. irq' \in BOOLEAN /\ fired' \in BOOLEAN
  BY <1>1 DEF FloppyInv, FloppyTypeOK
<1>17. Leads(asked[p], Tail(todo[p]), b, AtRest) /\ Leads(asked[p], Turn(r, i), s, b)
  BY <1>2, <1>3, <1>4, <1>9, <1>11
<1> QED BY <1>1, <1>2, <1>12, <1>13, <1>14, <1>15, <1>16, <1>17, OwnStep

\* What changes the controller only.
LEMMA WorldStep ==
    ASSUME FloppyInv, UNCHANGED <<todo, asked, lockVars, dor, astray>>,
           \A p \in Client, a \in Label :
               Owns(p) /\ a.dor = dor /\ Tracks(asked[p], a) => Tracks(asked[p], a)',
           irq' \in BOOLEAN, fired' \in BOOLEAN, DOMAIN buffer' = DOMAIN buffer
    PROVE  FloppyInv'
<1>1. UNCHANGED <<todo, asked, holder, depth, queue, dor, astray>>
  BY DEF lockVars
<1>2. Started' = Started /\ \A p \in Client : Held(p)' = Held(p) /\ Owns(p)' = Owns(p)
  BY <1>1 DEF Started, Held, Owns
<1>3. LockOK' /\ FloppyTypeOK'
  BY <1>1 DEF FloppyInv, LockOK, FloppyTypeOK
<1>4. ASSUME NEW p \in Client
      PROVE  Fitting(p)'
  <2>1. PICK a \in Label : Leads(asked[p], todo[p], a, AtRest) /\ Fits(p, a)
    BY DEF FloppyInv, Fitting
  <2>2. a.held = Held(p)'
    BY <1>2, <2>1 DEF Fits
  <2>3. Owns(p)' => a.dor = dor' /\ (~astray' => Tracks(asked[p], a)')
    BY <1>1, <1>2, <2>1 DEF Fits
  <2>4. holder' # p /\ (p # starter \/ Started') => a = [AtRest EXCEPT !.held = Held(p)']
    BY <1>1, <1>2, <2>1 DEF Fits
  <2>5. Fits(p, a)'
    BY <2>2, <2>3, <2>4 DEF Fits
  <2> QED BY <1>1, <2>1, <2>5 DEF Fitting
<1> QED BY <1>1, <1>2, <1>3, <1>4 DEF FloppyInv

LEMMA MoveHeadStep ==
    ASSUME FloppyInv, MoveHead, UNCHANGED <<todo, asked, lockVars, fired, astray>>
    PROVE  FloppyInv'
<1>1. /\ phase = "exec" /\ cmd.op \in {"seek", "calibrate"}
      /\ phase' = "command" /\ irq' = TRUE
      /\ UNCHANGED <<todo, asked, fired, astray, dor, cmd, dma, buffer>>
  BY DEF MoveHead
<1>2. ASSUME NEW p \in Client, NEW a \in Label, Tracks(asked[p], a)
      PROVE  Tracks(asked[p], a)'
  <2>1. a.mode \in {"idle", "off", "answer", "reset", "move", "read"}
    BY DEF Label, Mode
  <2>2. a.mode \notin {"idle", "off", "answer", "reset", "read"}
    BY <1>1, <1>2 DEF Tracks, Executes, Finished
  <2>3. a.mode = "move" /\ a.on = -1 /\ ~fired
    BY <1>1, <1>2, <2>1, <2>2 DEF Tracks, Executes, Finished
  <2> QED BY <1>1, <1>2, <2>3 DEF Tracks, Finished
<1>3. irq' \in BOOLEAN /\ fired' \in BOOLEAN
  BY <1>1 DEF FloppyInv, FloppyTypeOK
<1> QED BY <1>1, <1>2, <1>3, WorldStep

LEMMA RestartStep ==
    ASSUME FloppyInv, Restart, UNCHANGED <<todo, asked, lockVars, fired, astray>>
    PROVE  FloppyInv'
<1>1. /\ phase = "exec" /\ cmd.op = "reset"
      /\ phase' = "command" /\ irq' = TRUE
      /\ UNCHANGED <<todo, asked, fired, astray, dor, cmd, cyl, dma, buffer>>
  BY DEF Restart
<1>2. ASSUME NEW p \in Client, NEW a \in Label, Tracks(asked[p], a)
      PROVE  Tracks(asked[p], a)'
  <2>1. a.mode \in {"idle", "off", "answer", "reset", "move", "read"}
    BY DEF Label, Mode
  <2>2. a.mode \notin {"idle", "off", "answer", "move", "read"}
    BY <1>1, <1>2 DEF Tracks, Executes, Finished
  <2>3. a.mode = "reset" /\ ~fired
    BY <1>1, <1>2, <2>1, <2>2 DEF Tracks, Executes, Finished
  <2> QED BY <1>1, <1>2, <2>3 DEF Tracks, Finished
<1>3. irq' \in BOOLEAN /\ fired' \in BOOLEAN
  BY <1>1 DEF FloppyInv, FloppyTypeOK
<1> QED BY <1>1, <1>2, <1>3, WorldStep

\* The sector goes to its place in the buffer.
LEMMA TransferStep ==
    ASSUME FloppyAssumption, FloppyInv, Transfer,
           UNCHANGED <<todo, asked, lockVars, fired, astray>>
    PROVE  FloppyInv'
<1>1. /\ phase = "exec" /\ cmd.op = "read"
      /\ phase' = "result" /\ irq' = TRUE
      /\ UNCHANGED <<todo, asked, fired, astray, dor, cmd, cyl, dma>>
      /\ buffer' = IF dor = "motor" /\ SectorAt(cyl, cmd.chs) # -1
                   THEN [buffer EXCEPT ![dma] = SectorAt(cyl, cmd.chs)] ELSE buffer
  BY DEF Transfer
<1>2. DOMAIN buffer = 0 .. MAXCOUNT - 1 /\ DOMAIN buffer' = DOMAIN buffer
  BY <1>1 DEF FloppyInv, FloppyTypeOK
<1>3. ASSUME NEW p \in Client, NEW a \in Label, a.dor = dor, Tracks(asked[p], a)
      PROVE  Tracks(asked[p], a)'
  <2>1. a.mode \in {"idle", "off", "answer", "reset", "move", "read"} /\ a.done \in Nat
    BY DEF Label, Mode
  <2>2. a.mode \notin {"idle", "off", "answer", "reset", "move"}
    BY <1>1, <1>3 DEF Tracks, Executes, Finished
  <2>3. PICK l : l = LbaAt(asked[p].lba, a.done)
    OBVIOUS
  <2>4. /\ a.mode = "read" /\ a.dor = "motor" /\ a.done < asked[p].count /\ a.place = a.done
        /\ a.on = Chs(l).cyl /\ cmd.chs = Chs(l) /\ ~fired
    BY <1>1, <1>3, <2>1, <2>2, <2>3 DEF Tracks, Executes, Finished
  <2>5. asked[p].lba \in Nat /\ asked[p].count <= MAXCOUNT /\ asked[p].count \in Nat
    BY <2>1, <2>4, FloppyAssumption DEF FloppyInv, FloppyTypeOK, FloppyAssumption, NoRequest
  <2>6. l \in Nat
    BY <2>1, <2>3, <2>5, LbaIsNat
  <2>7. Chs(l).cyl \in Nat /\ SectorAt(Chs(l).cyl, Chs(l)) = l
    BY <2>6, FloppyAssumption, ChsFacts
  <2>8. cyl = Chs(l).cyl /\ dma = a.done
    <3>1. a.on # -1 /\ a.place # -1
      BY <2>1, <2>4, <2>7
    <3>2. (a.on # -1 => cyl = a.on) /\ (a.place # -1 => dma = a.place)
      BY <1>3 DEF Tracks
    <3> QED BY <2>4, <3>1, <3>2
  <2>9. buffer' = [buffer EXCEPT ![a.done] = l]
    <3>1. SectorAt(cyl, cmd.chs) = l
      BY <2>4, <2>7, <2>8
    <3>2. dor = "motor" /\ SectorAt(cyl, cmd.chs) # -1
      BY <1>3, <2>4, <2>6, <3>1
    <3> QED BY <1>1, <2>8, <3>1, <3>2
  <2>10. a.done \in 0 .. MAXCOUNT - 1
    BY <2>1, <2>4, <2>5, FloppyAssumption DEF FloppyAssumption
  <2>11. buffer'[a.done] = l /\ \A k \in 0 .. a.done - 1 : buffer'[k] = buffer[k]
    BY <1>2, <2>1, <2>9, <2>10
  <2>12. \A k \in 0 .. a.done - 1 : buffer'[k] = LbaAt(asked[p].lba, k)
    BY <1>3, <2>11 DEF Tracks
  <2> QED BY <1>1, <2>3, <2>4, <2>8, <2>11, <2>12 DEF Tracks, Finished
<1>4. irq' \in BOOLEAN /\ fired' \in BOOLEAN
  BY <1>1 DEF FloppyInv, FloppyTypeOK
<1> QED BY <1>1, <1>2, <1>3, <1>4, WorldStep

LEMMA InterruptStep ==
    ASSUME FloppyInv, Interrupt
    PROVE  FloppyInv'
<1>1. /\ irq /\ irq' = FALSE /\ fired' = TRUE
      /\ UNCHANGED <<todo, asked, lockVars, dor, phase, cmd, cyl, dma, buffer, astray>>
  BY DEF Interrupt
<1>2. ASSUME NEW p \in Client, NEW a \in Label, Tracks(asked[p], a)
      PROVE  Tracks(asked[p], a)'
  <2>1. a.mode \in {"idle", "off", "answer", "reset", "move", "read"}
    BY DEF Label, Mode
  <2>2. a.mode \notin {"idle", "off", "answer"}
    BY <1>1, <1>2 DEF Tracks
  <2>3. CASE a.mode = "reset"
    BY <1>1, <1>2, <2>3 DEF Tracks, Executes, Finished
  <2>4. CASE a.mode = "move"
    BY <1>1, <1>2, <2>4 DEF Tracks, Executes, Finished
  <2>5. CASE a.mode = "read"
    BY <1>1, <1>2, <2>5 DEF Tracks, Executes, Finished
  <2> QED BY <2>1, <2>2, <2>3, <2>4, <2>5
<1>3. irq' \in BOOLEAN /\ fired' \in BOOLEAN
  BY <1>1
<1> QED BY <1>1, <1>2, <1>3, WorldStep

-----------------------------------------------------------------------------
(***************************************************************************)
(* The calls, and the lock                                                 *)
(***************************************************************************)

\* The controller of a label at rest is idle.
LEMMA RestTracks ==
    ASSUME NEW r, NEW n, phase = "command", ~irq, ~fired
    PROVE  Tracks(r, [AtRest EXCEPT !.held = n])
BY DEF Tracks, AtRest

\* Labels of the processes that wait, or have nothing to do.
LEMMA RestLabel ==
    /\ AtRest \in Label /\ AtRest = [AtRest EXCEPT !.held = 0]
    /\ \A n \in Nat : [AtRest EXCEPT !.held = n] \in Label
    /\ \A n : /\ [AtRest EXCEPT !.held = n].dor = "on"
              /\ [AtRest EXCEPT !.held = n].mode = "idle"
              /\ [AtRest EXCEPT !.held = n].held = n
BY DEF AtRest, Label, Mode

LEMMA CallStep ==
    ASSUME FloppyAssumption, FloppyInv, NEW p \in Client, Call(p)
    PROVE  FloppyInv'
<1>1. todo[p] = <<>> /\ Started /\ UNCHANGED <<holder, depth, queue>>
      /\ UNCHANGED <<fired, dor, phase, cmd, cyl, irq, dma, buffer, astray>>
  BY DEF Call, lockVars, fdcVars
<1>2. PICK r \in Requests :
        /\ r.count <= MAXCOUNT
        /\ asked' = [asked EXCEPT ![p] = r]
        /\ todo' = [todo EXCEPT ![p] = ReadSectors(r)]
  BY DEF Call
<1>3. r.count \in Nat /\ r.lba \in Nat
  BY FloppyAssumption DEF FloppyAssumption
<1>4. /\ DOMAIN asked' = Client /\ asked'[p] = r
      /\ DOMAIN todo' = Client /\ todo'[p] = ReadSectors(r)
      /\ \A q \in Client \ {p} : asked'[q] = asked[q] /\ todo'[q] = todo[q]
  BY <1>2 DEF FloppyInv, FloppyTypeOK
<1>5. Started'
  <2>1. CASE p = starter
    BY <1>3, <1>4, <2>1 DEF Started, NoRequest
  <2>2. CASE p # starter
    BY <1>1, <1>4, <2>2, FloppyAssumption DEF Started, FloppyAssumption
  <2> QED BY <2>1, <2>2
<1>6. \A q \in Client : Held(q)' = Held(q) /\ Owns(q)' = Owns(q)
  BY <1>1, <1>5 DEF Held, Owns
<1>7. LockOK'
  BY <1>1 DEF FloppyInv, LockOK
<1>8. FloppyTypeOK'
  BY <1>1, <1>2, <1>4 DEF FloppyInv, FloppyTypeOK
<1>9. Fitting(p)'
  <2>1. PICK a \in Label : Leads(asked[p], todo[p], a, AtRest) /\ Fits(p, a)
    BY DEF FloppyInv, Fitting
  <2>2. a = AtRest
    <3>1. Leads(asked[p], <<>>, a, AtRest)
      BY <1>1, <2>1
    <3> QED BY <3>1, LeadsNowhere
  <2>3. Leads(r, ReadSectors(r), AtRest, AtRest)
    BY <1>3, ReadSectorsLeads
  <2>4. AtRest.held = Held(p)'
    BY <1>6, <2>1, <2>2 DEF Fits
  <2>5. Owns(p)' => AtRest.dor = dor' /\ (~astray' => Tracks(r, AtRest)')
    <3> SUFFICES ASSUME Owns(p)
                 PROVE  AtRest.dor = dor' /\ (~astray' => Tracks(r, AtRest)')
      BY <1>6
    <3>1. AtRest.dor = dor' /\ (~astray => Tracks(asked[p], AtRest))
      BY <1>1, <2>1, <2>2 DEF Fits
    <3>2. Tracks(asked[p], AtRest) => Tracks(r, AtRest)'
      BY <1>1 DEF Tracks, AtRest
    <3> QED BY <1>1, <3>1, <3>2
  <2>6. AtRest = [AtRest EXCEPT !.held = Held(p)']
    BY <2>4 DEF AtRest
  <2>7. Fits(p, AtRest)'
    BY <1>4, <2>4, <2>5, <2>6 DEF Fits
  <2> QED BY <1>4, <2>3, <2>7, RestLabel DEF Fitting
<1>10. ASSUME NEW q \in Client \ {p}
       PROVE  Fitting(q)'
  <2>1. PICK a \in Label : Leads(asked[q], todo[q], a, AtRest) /\ Fits(q, a)
    BY DEF FloppyInv, Fitting
  <2>2. Tracks(asked[q], a) => Tracks(asked[q], a)'
    BY <1>1, <1>4 DEF Tracks, Executes, Finished
  <2>3. a.held = Held(q)' /\ (Owns(q)' => a.dor = dor' /\ (~astray' => Tracks(asked[q], a)'))
    BY <1>1, <1>6, <2>1, <2>2 DEF Fits
  <2>4. holder' # q => a = [AtRest EXCEPT !.held = Held(q)']
    BY <1>1, <1>6, <2>1 DEF Fits
  <2>5. Fits(q, a)'
    BY <2>3, <2>4 DEF Fits
  <2> QED BY <1>4, <2>1, <2>5 DEF Fitting
<1> QED BY <1>5, <1>7, <1>8, <1>9, <1>10 DEF FloppyInv

\* A process that waits keeps its place when another one takes or gives the lock.
LEMMA OthersWait ==
    ASSUME FloppyAssumption, FloppyInv, NEW p \in Client, holder = p \/ holder' = p,
           UNCHANGED <<asked, dor, astray, phase, irq, fired>>,
           NEW q \in Client \ {p}, todo'[q] = todo[q],
           Started' = Started \/ q # starter,
           holder' # q, Held(q)' = Held(q), holder # q,
           holder = nobody => holder' = p,
           holder' = nobody => /\ dor = "on"
                               /\ ~astray => phase = "command" /\ ~irq /\ ~fired
    PROVE  Fitting(q)'
<1>1. PICK a \in Label : Leads(asked[q], todo[q], a, AtRest) /\ Fits(q, a)
  BY DEF FloppyInv, Fitting
<1>2. holder # nobody => a = [AtRest EXCEPT !.held = Held(q)]
  BY <1>1, Waiting
<1>3. q # starter \/ Started' => a = [AtRest EXCEPT !.held = Held(q)]
  BY <1>1, <1>2 DEF Fits
<1>4. Owns(q)' => /\ holder' = nobody /\ holder # nobody
  BY FloppyAssumption DEF Owns, FloppyAssumption
<1>5. Owns(q)' => a.dor = dor' /\ (~astray' => Tracks(asked[q], a)')
  <2> SUFFICES ASSUME Owns(q)'
               PROVE  a.dor = dor' /\ (~astray' => Tracks(asked[q], a)')
    OBVIOUS
  <2>1. a = [AtRest EXCEPT !.held = Held(q)] /\ dor = "on"
    BY <1>2, <1>4
  <2>2. a.dor = "on" /\ a.mode = "idle" /\ a.on = -1 /\ a.place = -1 /\ a.done = 0
    BY <2>1 DEF AtRest
  <2>3. ~astray => phase = "command" /\ ~irq /\ ~fired
    BY <1>4
  <2>4. ~astray' => Tracks(asked[q], a)'
    BY <2>2, <2>3 DEF Tracks
  <2> QED BY <2>1, <2>2, <2>4
<1>6. Fits(q, a)'
  BY <1>1, <1>3, <1>5 DEF Fits
<1> QED BY <1>1, <1>6 DEF Fitting

LEMMA TakeLockStep ==
    ASSUME FloppyAssumption, FloppyInv, NEW p \in Client, TakeLock(p)
    PROVE  FloppyInv'
<1>1. /\ At(p, "acquire") /\ Lock!Acquire(p) /\ todo' = [todo EXCEPT ![p] = <<>> \o Tail(@)]
      /\ UNCHANGED <<asked, fired, dor, phase, cmd, cyl, irq, dma, buffer, astray>>
  BY DEF TakeLock, GoOn, fdcVars
<1>2. todo[p] # <<>> /\ Now(p).op = "acquire" /\ p \notin ToSet(queue)
  BY <1>1 DEF At, Now
<1>3. PICK a \in Label :
              /\ Leads(asked[p], todo[p], a, AtRest) /\ Fits(p, a)
              /\ Now(p) \in Steps /\ May(asked[p], Now(p), a)
              /\ Leads(asked[p], Tail(todo[p]), After(asked[p], Now(p), a), AtRest)
  BY <1>2, Running
<1> DEFINE b == [a EXCEPT !.held = @ + 1]
<1>4. Leads(asked[p], Tail(todo[p]), b, AtRest)
  BY <1>2, <1>3 DEF After
<1>5. b \in Label
  BY <1>4, LeadsLabels
<1>6. /\ b.held = a.held + 1 /\ b.dor = a.dor /\ b.mode = a.mode
      /\ b.on = a.on /\ b.place = a.place /\ b.done = a.done /\ a.held = Held(p)
  BY <1>3 DEF Label, Fits
<1>7. Leads(asked[p], <<>> \o Tail(todo[p]), b, AtRest)
  <2>1. Leads(asked[p], <<>>, b, b)
    BY <1>5, LeadsNowhere
  <2> QED BY <1>4, <2>1, LeadsThen
<1>8. /\ DOMAIN todo' = Client /\ todo'[p] = <<>> \o Tail(todo[p])
      /\ \A q \in Client \ {p} : todo'[q] = todo[q]
  BY <1>1 DEF FloppyInv, FloppyTypeOK
<1>9. Started \/ p = starter
  BY <1>2 DEF FloppyInv
<1>10. /\ Started => Started'
       /\ p # starter => Started' = Started
  BY <1>1, <1>2, <1>8, FloppyAssumption DEF Started, FloppyAssumption
<1>11. ~Started' => \A q \in Client \ {starter} : todo'[q] = <<>>
  BY <1>8, <1>9, <1>10 DEF FloppyInv
<1>12. FloppyTypeOK'
  BY <1>1, <1>8 DEF FloppyInv, FloppyTypeOK
<1>13. LockOK
  BY DEF FloppyInv
<1>14. Tracks(asked[p], a) => Tracks(asked[p], b)'
  BY <1>1, <1>6 DEF Tracks, Executes, Finished
<1> HIDE DEF b
<1>15. CASE holder = nobody /\ holder' = p /\ UNCHANGED <<depth, queue>>
  <2>1. queue = <<>> /\ depth = 0 /\ ToSet(queue) = {}
    BY <1>13, <1>15 DEF LockOK, ToSet
  <2>2. LockOK'
    BY <1>15, <2>1, FloppyAssumption DEF LockOK, ToSet, IsInjective, FloppyAssumption
  <2>3. Held(p) = 0 /\ Held(p)' = 1
    BY <1>15, <2>1, FloppyAssumption DEF Held, FloppyAssumption, ToSet
  <2>4. Owns(p)
    BY <1>9, <1>15 DEF Owns
  <2>5. a.dor = dor /\ (~astray => Tracks(asked[p], a))
    BY <1>3, <2>4 DEF Fits
  <2>6. Fits(p, b)'
    BY <1>1, <1>6, <1>14, <1>15, <2>3, <2>5 DEF Fits
  <2>7. Fitting(p)'
    BY <1>1, <1>5, <1>7, <1>8, <2>6 DEF Fitting
  <2>8. ASSUME NEW q \in Client \ {p}
        PROVE  Fitting(q)'
    <3>1. Held(q)' = Held(q) /\ holder # q /\ holder' # q
      BY <1>15, FloppyAssumption DEF Held, FloppyAssumption
    <3>2. Started' = Started \/ q # starter
      BY <1>10
    <3> QED BY <1>1, <1>8, <1>15, <3>1, <3>2, FloppyAssumption, OthersWait DEF FloppyAssumption
  <2> QED BY <1>11, <1>12, <2>2, <2>7, <2>8 DEF FloppyInv
<1>16. CASE holder = p /\ depth' = depth + 1 /\ UNCHANGED <<holder, queue>>
  <2>1. LockOK'
    BY <1>13, <1>16, FloppyAssumption DEF LockOK, FloppyAssumption
  <2>2. Held(p)' = Held(p) + 1
    BY <1>13, <1>16 DEF Held, LockOK
  <2>3. a.dor = dor /\ (~astray => Tracks(asked[p], a))
    BY <1>3, <1>16 DEF Fits, Owns
  <2>4. Fits(p, b)'
    BY <1>1, <1>6, <1>14, <1>16, <2>2, <2>3 DEF Fits
  <2>5. Fitting(p)'
    BY <1>1, <1>5, <1>7, <1>8, <2>4 DEF Fitting
  <2>6. ASSUME NEW q \in Client \ {p}
        PROVE  Fitting(q)'
    <3>1. Held(q)' = Held(q) /\ holder # q /\ holder' # q /\ holder # nobody
      BY <1>16, FloppyAssumption DEF Held, FloppyAssumption
    <3>2. Started' = Started \/ q # starter
      BY <1>10
    <3> QED BY <1>1, <1>8, <1>16, <3>1, <3>2, OthersWait
  <2> QED BY <1>11, <1>12, <2>1, <2>5, <2>6 DEF FloppyInv
<1>17. CASE /\ holder \notin {nobody, p} /\ queue' = Append(queue, p)
            /\ UNCHANGED <<holder, depth>>
  <2>1. /\ queue' \in Seq(Client) /\ ToSet(queue') = ToSet(queue) \cup {p}
        /\ IsInjective(queue')
    BY <1>2, <1>13, <1>17, AppendFacts DEF LockOK
  <2>2. LockOK'
    BY <1>13, <1>17, <2>1 DEF LockOK
  <2>3. Held(p) = 0 /\ Held(p)' = 1
    BY <1>2, <1>17, <2>1 DEF Held
  <2>4. b = [AtRest EXCEPT !.held = 1]
    <3>1. a = AtRest
      BY <1>3, <1>17, <2>3, Waiting, RestLabel
    <3>2. AtRest.held + 1 = 1
      BY DEF AtRest
    <3>3. b = [AtRest EXCEPT !.held = AtRest.held + 1]
      BY <3>1 DEF AtRest, b
    <3> QED BY <3>2, <3>3
  <2>5. ~Owns(p)'
    BY <1>17 DEF Owns
  <2>6. Fits(p, b)'
    BY <1>1, <1>6, <2>3, <2>4, <2>5 DEF Fits
  <2>7. Fitting(p)'
    BY <1>1, <1>5, <1>7, <1>8, <2>6 DEF Fitting
  <2>8. ASSUME NEW q \in Client \ {p}
        PROVE  Fitting(q)'
    <3>1. PICK c \in Label : Leads(asked[q], todo[q], c, AtRest) /\ Fits(q, c)
      BY DEF FloppyInv, Fitting
    <3>2. Held(q)' = Held(q)
      BY <1>17, <2>1 DEF Held
    <3>3. holder # q => c = [AtRest EXCEPT !.held = Held(q)]
      BY <1>17, <3>1, Waiting
    <3>4. Owns(q)' => holder = q
      BY <1>17 DEF Owns
    <3>5. Tracks(asked[q], c) => Tracks(asked[q], c)'
      BY <1>1 DEF Tracks, Executes, Finished
    <3>6. Owns(q)' => c.dor = dor' /\ (~astray' => Tracks(asked[q], c)')
      BY <1>1, <3>1, <3>4, <3>5 DEF Fits, Owns
    <3>7. Fits(q, c)'
      BY <1>17, <3>1, <3>2, <3>3, <3>6 DEF Fits
    <3> QED BY <1>1, <1>8, <3>1, <3>7 DEF Fitting
  <2> QED BY <1>11, <1>12, <2>2, <2>7, <2>8 DEF FloppyInv
<1> QED BY <1>1, <1>15, <1>16, <1>17 DEF Lock!Acquire

LEMMA GiveLockStep ==
    ASSUME FloppyAssumption, FloppyInv, NEW p \in Client, GiveLock(p)
    PROVE  FloppyInv'
<1>1. /\ At(p, "release") /\ Lock!Release(p) /\ todo' = [todo EXCEPT ![p] = <<>> \o Tail(@)]
      /\ UNCHANGED <<asked, fired, dor, phase, cmd, cyl, irq, dma, buffer, astray>>
  BY DEF GiveLock, GoOn, fdcVars
<1>2. PICK a \in Label, x \in Steps :
              /\ Fits(p, a) /\ holder = p /\ todo[p] # <<>>
              /\ x = Now(p) /\ x.op = "release" /\ May(asked[p], x, a)
              /\ Leads(asked[p], Tail(todo[p]), After(asked[p], x, a), AtRest)
              /\ a.dor = dor /\ (~astray => Tracks(asked[p], a))
              /\ After(asked[p], x, a) \in Label
  BY <1>1, Finds
<1> DEFINE b == IF a.held = 1 THEN AtRest ELSE [a EXCEPT !.held = @ - 1]
<1>3. After(asked[p], x, a) = b
  BY <1>2 DEF After
<1>4. b \in Label /\ Leads(asked[p], Tail(todo[p]), b, AtRest)
  BY <1>2, <1>3
<1>5. a.held = depth + 1 /\ depth \in Nat /\ LockOK
  BY <1>2 DEF Fits, Held, FloppyInv, LockOK
<1>6. a.held = 1 => a.dor = "on" /\ a.mode = "idle"
  BY <1>2 DEF May
<1>7. /\ a.held = 1 => b = AtRest
      /\ a.held # 1 =>
             /\ b.held = a.held - 1 /\ b.dor = a.dor /\ b.mode = a.mode
             /\ b.on = a.on /\ b.place = a.place /\ b.done = a.done
  BY DEF Label
<1>8. Leads(asked[p], <<>> \o Tail(todo[p]), b, AtRest)
  <2>1. Leads(asked[p], <<>>, b, b)
    BY <1>4, LeadsNowhere
  <2> QED BY <1>4, <2>1, LeadsThen
<1>9. /\ DOMAIN todo' = Client /\ todo'[p] = <<>> \o Tail(todo[p])
      /\ \A q \in Client \ {p} : todo'[q] = todo[q]
  BY <1>1 DEF FloppyInv, FloppyTypeOK
<1>10. Started \/ p = starter
  BY <1>2 DEF FloppyInv
<1>11. /\ Started => Started'
       /\ p # starter => Started' = Started
  BY <1>1, <1>2, <1>9, FloppyAssumption DEF Started, FloppyAssumption
<1>12. ~Started' => \A q \in Client \ {starter} : todo'[q] = <<>>
  BY <1>9, <1>10, <1>11 DEF FloppyInv
<1>13. FloppyTypeOK'
  BY <1>1, <1>9 DEF FloppyInv, FloppyTypeOK
<1>14. holder # nobody
  BY <1>2, FloppyAssumption DEF FloppyAssumption
<1> HIDE DEF b
<1>15. CASE depth > 0 /\ depth' = depth - 1 /\ UNCHANGED <<holder, queue>>
  <2>1. LockOK'
    BY <1>2, <1>5, <1>14, <1>15 DEF LockOK
  <2>2. Held(p)' = b.held /\ a.held # 1
    BY <1>2, <1>5, <1>7, <1>15 DEF Held
  <2>3. Tracks(asked[p], a) => Tracks(asked[p], b)'
    BY <1>1, <1>7, <2>2 DEF Tracks, Executes, Finished
  <2>4. Fits(p, b)'
    BY <1>1, <1>2, <1>7, <1>15, <2>2, <2>3 DEF Fits
  <2>5. Fitting(p)'
    BY <1>1, <1>4, <1>8, <1>9, <2>4 DEF Fitting
  <2>6. ASSUME NEW q \in Client \ {p}
        PROVE  Fitting(q)'
    <3>1. Held(q)' = Held(q) /\ holder # q /\ holder' # q
      BY <1>2, <1>15 DEF Held
    <3>2. Started' = Started \/ q # starter
      BY <1>11
    <3> QED BY <1>1, <1>2, <1>9, <1>14, <1>15, <3>1, <3>2, OthersWait
  <2> QED BY <1>12, <1>13, <2>1, <2>5, <2>6 DEF FloppyInv
\* The lock leaves p, which gave back all it did with the controller.
<1>16. ASSUME depth = 0
       PROVE  /\ b = AtRest /\ dor = "on"
              /\ ~astray => phase = "command" /\ ~irq /\ ~fired
  <2>1. a.held = 1 /\ a.dor = "on" /\ a.mode = "idle"
    BY <1>5, <1>6, <1>16
  <2>2. ~astray => phase = "command" /\ ~irq /\ ~fired
    BY <1>2, <2>1 DEF Tracks
  <2> QED BY <1>2, <1>7, <2>1, <2>2
<1>17. CASE /\ depth = 0 /\ queue # <<>>
            /\ holder' = Head(queue) /\ queue' = Tail(queue) /\ UNCHANGED depth
  <2>1. PICK h : h = Head(queue)
    OBVIOUS
  <2>2. /\ h \in Client /\ h \in ToSet(queue) /\ ToSet(queue) = ToSet(queue') \cup {h}
        /\ queue' \in Seq(Client) /\ IsInjective(queue') /\ h \notin ToSet(queue')
    BY <1>5, <1>17, <2>1, TailFacts DEF LockOK
  <2>3. h # p /\ h # nobody /\ p \notin ToSet(queue)
    BY <1>2, <1>5, <2>2, FloppyAssumption DEF LockOK, FloppyAssumption
  <2>4. holder' = h /\ depth' = 0
    BY <1>17, <2>1
  <2>5. LockOK'
    BY <1>5, <2>2, <2>3, <2>4 DEF LockOK
  <2>6. Held(p)' = 0 /\ Held(h) = 1 /\ Held(h)' = 1
    BY <1>2, <2>2, <2>3, <2>4 DEF Held
  <2>7. Fitting(p)'
    <3>1. b = AtRest /\ AtRest.held = 0 /\ AtRest = [AtRest EXCEPT !.held = 0]
      BY <1>16, <1>17, RestLabel DEF AtRest
    <3>2. ~Owns(p)'
      BY <2>3, <2>4 DEF Owns
    <3>3. Fits(p, b)'
      BY <2>3, <2>4, <2>6, <3>1, <3>2 DEF Fits
    <3> QED BY <1>1, <1>4, <1>8, <1>9, <3>3 DEF Fitting
  <2>8. Fitting(h)'
    <3>1. PICK c \in Label : Leads(asked[h], todo[h], c, AtRest) /\ Fits(h, c)
      BY <2>2 DEF FloppyInv, Fitting
    <3>2. c = [AtRest EXCEPT !.held = 1]
      BY <1>2, <1>14, <2>2, <2>3, <2>6, <3>1, Waiting
    <3>3. /\ c.held = 1 /\ c.dor = "on" /\ c.mode = "idle"
          /\ c.on = -1 /\ c.place = -1 /\ c.done = 0
      BY <3>2 DEF AtRest
    <3>4. ~astray => phase = "command" /\ ~irq /\ ~fired
      BY <1>16, <1>17
    <3>5. ~astray' => Tracks(asked[h], c)'
      BY <1>1, <3>3, <3>4 DEF Tracks
    <3>6. Fits(h, c)'
      BY <1>1, <1>16, <1>17, <2>4, <2>6, <3>3, <3>5 DEF Fits
    <3> QED BY <1>1, <1>9, <2>2, <2>3, <3>1, <3>6 DEF Fitting
  <2>9. ASSUME NEW q \in Client \ {p, h}
        PROVE  Fitting(q)'
    <3>1. Held(q)' = Held(q) /\ holder # q /\ holder' # q
      BY <1>2, <2>2, <2>4 DEF Held
    <3>2. Started' = Started \/ q # starter
      BY <1>11
    <3> QED BY <1>1, <1>2, <1>9, <1>14, <2>3, <2>4, <3>1, <3>2, OthersWait
  <2> QED BY <1>12, <1>13, <2>5, <2>7, <2>8, <2>9 DEF FloppyInv
<1>18. CASE depth = 0 /\ queue = <<>> /\ holder' = nobody /\ UNCHANGED <<depth, queue>>
  <2>1. ToSet(queue) = {}
    BY <1>18 DEF ToSet
  <2>2. LockOK'
    BY <1>5, <1>18, <2>1 DEF LockOK
  <2>3. \A q \in Client : holder' # q /\ Held(q)' = 0
    BY <1>18, <2>1, FloppyAssumption DEF Held, FloppyAssumption
  <2>4. /\ b = AtRest /\ dor = "on"
        /\ ~astray => phase = "command" /\ ~irq /\ ~fired
    BY <1>16, <1>18
  <2>5. Fitting(p)'
    <3>1. AtRest.held = 0 /\ AtRest.dor = "on" /\ AtRest = [AtRest EXCEPT !.held = 0]
      BY RestLabel DEF AtRest
    <3>2. ~astray' => Tracks(asked[p], AtRest)'
      BY <1>1, <2>4 DEF Tracks, AtRest
    <3>3. Fits(p, AtRest)'
      BY <1>1, <2>3, <2>4, <3>1, <3>2 DEF Fits
    <3> QED BY <1>1, <1>4, <1>8, <1>9, <2>4, <3>3 DEF Fitting
  <2>6. ASSUME NEW q \in Client \ {p}
        PROVE  Fitting(q)'
    <3>1. Held(q)' = Held(q) /\ holder # q /\ holder' # q
      BY <1>2, <2>1, <2>3 DEF Held
    <3>2. Started' = Started \/ q # starter
      BY <1>11
    <3> QED BY <1>1, <1>2, <1>9, <1>14, <2>4, <3>1, <3>2, OthersWait
  <2> QED BY <1>12, <1>13, <2>2, <2>5, <2>6 DEF FloppyInv
<1> QED BY <1>1, <1>15, <1>17, <1>18 DEF Lock!Release

-----------------------------------------------------------------------------
(***************************************************************************)
(* The theorems                                                            *)
(***************************************************************************)
LEMMA FloppyInitInv ==
    ASSUME FloppyAssumption, FloppyInit
    PROVE  FloppyInv
<1>1. holder = nobody /\ depth = 0 /\ queue = <<>>
  BY DEF FloppyInit, Lock!Init
<1>2. ToSet(queue) = {}
  BY <1>1 DEF ToSet
<1>3. /\ irq = FALSE /\ fired = FALSE /\ astray = FALSE /\ phase = "command"
      /\ dor \in {"on", "motor"} /\ buffer = [k \in 0 .. MAXCOUNT - 1 |-> -1]
      /\ todo = [p \in Client |-> IF p = starter THEN Initialize ELSE <<>>]
      /\ asked = [p \in Client |-> NoRequest]
  BY DEF FloppyInit
<1>4. LockOK
  BY <1>1, <1>2 DEF LockOK, IsInjective
<1>5. FloppyTypeOK
  BY <1>3 DEF FloppyTypeOK
<1>6. \A p \in Client \ {starter} : todo[p] = <<>>
  BY <1>3
<1>7. starter \in Client /\ todo[starter] = Initialize
  BY <1>3, FloppyAssumption DEF FloppyAssumption
<1>8. \A p \in Client : holder # p /\ Held(p) = 0
  BY <1>1, <1>2, FloppyAssumption DEF Held, FloppyAssumption
<1>9. ~Started
  <2>1. asked[starter] = NoRequest
    BY <1>3, <1>7
  <2>2. todo[starter] # <<>>
    BY <1>7 DEF Initialize, SetCurrentDrive, ResetController, Acquire, Release, Step, Dor
  <2> QED BY <2>1, <2>2 DEF Started
<1>10. Fitting(starter)
  <2>1. PICK a : a = [AtRest EXCEPT !.dor = dor]
    OBVIOUS
  <2>2. Leads(asked[starter], todo[starter], a, AtRest)
    BY <1>3, <1>7, <2>1, InitializeLeads
  <2>3. /\ a.held = 0 /\ a.dor = dor /\ a.mode = "idle"
        /\ a.on = -1 /\ a.place = -1 /\ a.done = 0
    BY <2>1 DEF AtRest
  <2>4. Tracks(asked[starter], a)
    BY <1>3, <2>3 DEF Tracks
  <2>5. Fits(starter, a)
    BY <1>7, <1>8, <1>9, <2>3, <2>4 DEF Fits
  <2>6. a \in Label
    BY <2>2, LeadsLabels
  <2> QED BY <2>2, <2>5, <2>6 DEF Fitting
<1>11. ASSUME NEW p \in Client \ {starter}
       PROVE  Fitting(p)
  <2>1. Leads(asked[p], todo[p], AtRest, AtRest)
    BY <1>6, RestLabel, LeadsNowhere
  <2>2. AtRest.held = Held(p)
    BY <1>8 DEF AtRest
  <2>3. ~Owns(p)
    BY <1>8, <1>9 DEF Owns
  <2>4. Fits(p, AtRest)
    BY <1>8, <2>2, <2>3, RestLabel DEF Fits
  <2> QED BY <2>1, <2>4, RestLabel DEF Fitting
<1> QED BY <1>4, <1>5, <1>6, <1>10, <1>11 DEF FloppyInv

LEMMA FloppyStep ==
    ASSUME FloppyAssumption, FloppyInv, [FloppyNext]_floppyVars
    PROVE  FloppyInv'
<1>1. ASSUME NEW p \in Client, Call(p)
      PROVE  FloppyInv'
  BY <1>1, CallStep
<1>2. ASSUME NEW p \in Client, Drives(p)
      PROVE  FloppyInv'
  BY <1>2, TakeLockStep, GiveLockStep, IdleStep, WriteDorStep, ProgramDmaStep,
     SendCommandStep, WaitIrqStep, WaitTimesOutStep, ReadStatusStep,
     TestCylinderStep, ReadResultStep DEF Drives
<1>3. CASE Controller
  BY <1>3, MoveHeadStep, TransferStep, RestartStep DEF Controller
<1>4. CASE Interrupt
  BY <1>4, InterruptStep
<1>5. CASE UNCHANGED floppyVars
  <2>1. UNCHANGED <<todo, asked, lockVars, fired, dor, phase, cmd, cyl, irq, dma, buffer, astray>>
    BY <1>5 DEF floppyVars, fdcVars
  <2>2. \A p \in Client, a \in Label : Tracks(asked[p], a) => Tracks(asked[p], a)'
    BY <2>1 DEF Tracks, Executes, Finished
  <2>3. irq' \in BOOLEAN /\ fired' \in BOOLEAN
    BY <2>1 DEF FloppyInv, FloppyTypeOK
  <2> QED BY <2>1, <2>2, <2>3, WorldStep
<1> QED BY <1>1, <1>2, <1>3, <1>4, <1>5 DEF FloppyNext

\* In every reachable state each process is at a place of its program whose
\* label tells how often it has fdc_lock, and the process that has it what the
\* controller does.
THEOREM FloppyInvariance == FloppySpec => []FloppyInv
<1>1. FloppyInit => FloppyInv
  BY FloppyAssumption, FloppyInitInv
<1>2. FloppyInv /\ [FloppyNext]_floppyVars => FloppyInv'
  BY FloppyAssumption, FloppyStep
<1> QED BY <1>1, <1>2, PTL DEF FloppySpec

\* Driver and controller stay in step: every command is sent to a controller
\* that takes it, each wait is for the interrupt of its own command, and once all
\* calls have returned the lock is free and the motor off.
THEOREM DriverInStep == FloppySpec => []InStep
<1>1. ASSUME FloppyInv
      PROVE  InStep
  <2>1. ASSUME ~astray, NEW p \in Client
        PROVE  /\ At(p, "send") => phase = "command" /\ ~irq /\ ~fired
               /\ At(p, "wait") => phase = "exec" \/ irq \/ fired
               /\ At(p, "sense") \/ At(p, "result") => phase = "result"
    <3>1. ASSUME NEW op \in {"send", "wait", "sense", "result"}, At(p, op)
          PROVE  \E a \in Label :
                    /\ Tracks(asked[p], a)
                    /\ op = "send" => a.mode = "idle"
                    /\ op = "wait" => a.mode \in {"reset", "move", "read"}
                    /\ op \in {"sense", "result"} => a.mode = "answer"
      <4>1. PICK a \in Label, x \in Steps :
                    /\ x.op = op /\ May(asked[p], x, a)
                    /\ ~astray => Tracks(asked[p], a)
        BY <1>1, <3>1, Finds
      <4> QED BY <2>1, <4>1 DEF May
    <3>2. ASSUME At(p, "send")
          PROVE  phase = "command" /\ ~irq /\ ~fired
      BY <3>1, <3>2 DEF Tracks
    <3>3. ASSUME At(p, "wait")
          PROVE  phase = "exec" \/ irq \/ fired
      BY <3>1, <3>3 DEF Tracks, Executes, Finished
    <3>4. ASSUME At(p, "sense") \/ At(p, "result")
          PROVE  phase = "result"
      BY <3>1, <3>4 DEF Tracks
    <3> QED BY <3>2, <3>3, <3>4
  <2>2. ASSUME \A p \in Client : todo[p] = <<>>
        PROVE  /\ holder = nobody /\ depth = 0
               /\ dor = "on"
               /\ ~astray => phase = "command" /\ ~irq /\ ~fired
    <3>1. ASSUME NEW p \in Client
          PROVE  Fits(p, AtRest)
      <4>1. PICK a \in Label : Leads(asked[p], todo[p], a, AtRest) /\ Fits(p, a)
        BY <1>1 DEF FloppyInv, Fitting
      <4>2. Leads(asked[p], <<>>, a, AtRest)
        BY <2>2, <4>1
      <4>3. a = AtRest
        BY <4>2, LeadsNowhere
      <4> QED BY <4>1, <4>3
    <3>2. holder = nobody /\ depth = 0
      <4>1. LockOK
        BY <1>1 DEF FloppyInv
      <4>2. ASSUME holder \in Client
            PROVE  FALSE
        <5>1. AtRest.held = depth + 1
          BY <3>1, <4>2 DEF Fits, Held
        <5> QED BY <4>1, <5>1 DEF AtRest, LockOK
      <4> QED BY <4>1, <4>2 DEF LockOK
    <3>3. Owns(starter) /\ starter \in Client
      BY <3>2, FloppyAssumption DEF Owns, FloppyAssumption
    <3>4. AtRest.dor = dor /\ (~astray => Tracks(asked[starter], AtRest))
      BY <3>1, <3>3 DEF Fits
    <3>5. dor = "on" /\ (~astray => phase = "command" /\ ~irq /\ ~fired)
      BY <3>4 DEF Tracks, AtRest
    <3> QED BY <3>2, <3>5
  <2> QED BY <2>1, <2>2 DEF InStep
<1> QED BY <1>1, FloppyInvariance, PTL

\* What FDC_readSectors copies to its caller: the sectors its loop computes,
\* each where the caller looks for it.
CopiesWhatItRead ==
    \A p \in Client : At(p, "copy") /\ ~astray =>
        \A k \in 0 .. asked[p].count - 1 : buffer[k] = LbaAt(asked[p].lba, k)

\* A read is never torn: for requests of every length, whoever else reads, the
\* buffer that is copied holds the sectors of this loop and of no other call.
THEOREM ReadsAreWhole == FloppySpec => []CopiesWhatItRead
<1>1. ASSUME FloppyInv
      PROVE  CopiesWhatItRead
  <2> SUFFICES ASSUME NEW p \in Client, At(p, "copy"), ~astray
               PROVE  \A k \in 0 .. asked[p].count - 1 : buffer[k] = LbaAt(asked[p].lba, k)
    BY DEF CopiesWhatItRead
  <2>1. PICK a \in Label, x \in Steps :
              /\ x.op = "copy" /\ May(asked[p], x, a) /\ (~astray => Tracks(asked[p], a))
    BY <1>1, Finds
  <2>2. a.done = asked[p].count /\ Tracks(asked[p], a)
    BY <2>1 DEF May
  <2> QED BY <2>2 DEF Tracks
<1> QED BY <1>1, FloppyInvariance, PTL

\* As long as no request is for more than two sectors, they are the sectors that
\* were asked for; from the third sector on, the loop skips some.
THEOREM ShortReadsAreRight ==
    ASSUME \A r \in Requests : r.count <= 2
    PROVE  FloppySpec => []ReadsWhatWasAsked
<1>1. ASSUME FloppyInv, CopiesWhatItRead
      PROVE  ReadsWhatWasAsked
  <2> SUFFICES ASSUME NEW p \in Client, At(p, "copy"), ~astray,
                      NEW k \in 0 .. asked[p].count - 1
               PROVE  buffer[k] = asked[p].lba + k
    BY DEF ReadsWhatWasAsked
  <2>1. buffer[k] = LbaAt(asked[p].lba, k)
    BY <1>1 DEF CopiesWhatItRead
  <2>2. asked[p].count \in Nat /\ asked[p].count <= 2 /\ (asked[p].count > 0 => asked[p].lba \in Nat)
    BY <1>1, FloppyAssumption DEF FloppyInv, FloppyTypeOK, FloppyAssumption, NoRequest
  <2>3. k \in {0, 1} /\ asked[p].lba \in Nat
    BY <2>2
  <2>4. LbaAt(asked[p].lba, k) = asked[p].lba + k
    BY <2>3 DEF LbaAt
  <2> QED BY <2>1, <2>4
<1> QED BY <1>1, FloppyInvariance, ReadsAreWhole, PTL
=============================================================================

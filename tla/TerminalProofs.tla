--------------------------- MODULE TerminalProofs ---------------------------
(***************************************************************************)
(* Proofs about the Terminal, for any screen, any buffer of the shell, any *)
(* keys and any writers.                                                   *)
(***************************************************************************)
EXTENDS Terminal, ListLemmas

-----------------------------------------------------------------------------
(***************************************************************************)
(* The inductive invariant                                                 *)
(***************************************************************************)

\* The keys in flight are keys of the keyboard.
KeysKnown ==
    /\ code.kind = "char" => code.key \in Key
    /\ at = "convert" /\ key.kind = "char" => key.key \in Key
    /\ at = "use" => key.char \in KeyChar

\* A press stays counted as long as the driver, or getchar, has it.
PressesCounted ==
    /\ unread \in Nat
    /\ HasChar(code) => unread > 0
    /\ at = "convert" /\ HasChar(key) => unread > 0
    /\ at = "use" => unread > 0

\* The cursor of a screen is on it, or just behind the end of a line.
ScreenOK(s) ==
    /\ DOMAIN s = {"line", "column", "color", "cells"}
    /\ s.line \in 0 .. HEIGHT - 1
    /\ s.column \in 0 .. WIDTH
    /\ DOMAIN s.cells = 0 .. WIDTH * HEIGHT - 1

\* The last n characters in front of the cursor are the first n of a buffer.
InFront(s, buf, n) ==
    \A k \in 1 .. n : CursorAt(s) - k \in DOMAIN s.cells =>
        s.cells[CursorAt(s) - k] = [char |-> buf[n - k], color |-> default]

Reading ==
    at \in {"get", "convert", "use"} =>
        /\ DOMAIN prompt = 0 .. PROMPT - 1
        /\ position \in 0 .. PROMPT - 2
        /\ screen.color = default
        /\ ~tabbed => InFront(screen, prompt, position)

TInv ==
    /\ KeysKnown
    /\ PressesCounted
    /\ ScreenOK(screen)
    /\ at # "start" => AllPrinted
    /\ Reading

-----------------------------------------------------------------------------
(***************************************************************************)
(* What a character does to the screen                                     *)
(***************************************************************************)

\* A line is on the screen, and the next one starts where it ends.
LEMMA LineFacts ==
    ASSUME NEW n \in 0 .. HEIGHT - 1
    PROVE  /\ WIDTH \in Nat \ {0} /\ HEIGHT \in Nat \ {0} /\ WIDTH * HEIGHT \in Nat
           /\ n * WIDTH \in Nat
           /\ n * WIDTH + WIDTH <= WIDTH * HEIGHT
           /\ (n + 1) * WIDTH = n * WIDTH + WIDTH
           /\ (n - 1) * WIDTH = n * WIDTH - WIDTH
           /\ n > 0 => n * WIDTH >= WIDTH
<1>1. WIDTH \in Nat \ {0} /\ HEIGHT \in Nat \ {0}
  BY ScreenAssumption
<1>2. WIDTH * HEIGHT \in Nat /\ n * WIDTH \in Nat
  BY <1>1
<1>3. /\ (n + 1) * WIDTH = n * WIDTH + WIDTH
      /\ (n - 1) * WIDTH = n * WIDTH - WIDTH
  BY <1>1
<1> DEFINE m == HEIGHT - 1 - n
<1>4. m \in Nat
  BY <1>1
<1>5. m * WIDTH \in Nat
  BY <1>1, <1>4
<1>6. WIDTH * HEIGHT = m * WIDTH + n * WIDTH + WIDTH
  BY <1>1
<1> HIDE DEF m
<1>7. n * WIDTH + WIDTH <= WIDTH * HEIGHT
  BY <1>1, <1>2, <1>5, <1>6
<1>8. ASSUME n > 0 PROVE n * WIDTH >= WIDTH
  <2>1. n - 1 \in Nat
    BY <1>1, <1>8
  <2>2. (n - 1) * WIDTH \in Nat
    BY <1>1, <2>1
  <2> QED BY <1>1, <1>2, <1>3, <2>2
<1> QED BY <1>1, <1>2, <1>3, <1>7, <1>8

\* The place of the cursor in numbers.
LEMMA CursorFacts ==
    ASSUME NEW s, ScreenOK(s)
    PROVE  /\ WIDTH \in Nat \ {0} /\ WIDTH * HEIGHT \in Nat
           /\ CursorAt(s) \in 0 .. WIDTH * HEIGHT
           /\ s.column < WIDTH => CursorAt(s) \in DOMAIN s.cells
<1>1. s.line \in 0 .. HEIGHT - 1 /\ s.column \in 0 .. WIDTH
  BY DEF ScreenOK
<1>2. /\ WIDTH \in Nat \ {0} /\ WIDTH * HEIGHT \in Nat
      /\ s.line * WIDTH \in Nat
      /\ s.line * WIDTH + WIDTH <= WIDTH * HEIGHT
  BY <1>1, LineFacts
<1> DEFINE l == s.line * WIDTH
           c == WIDTH * HEIGHT
<1>3. CursorAt(s) = l + s.column /\ DOMAIN s.cells = 0 .. c - 1
  BY DEF CursorAt, ScreenOK
<1>4. l \in Nat /\ c \in Nat /\ l + WIDTH <= c
  BY <1>2
<1> HIDE DEF l, c
<1>5. CursorAt(s) \in 0 .. c /\ (s.column < WIDTH => CursorAt(s) \in DOMAIN s.cells)
  BY <1>1, <1>2, <1>3, <1>4
<1> QED BY <1>2, <1>5 DEF c

\* t shows what s shows, d cells further up, and the cursor moves along.
MovedUp(t, s, d) ==
    /\ CursorAt(t) = CursorAt(s) - d
    /\ \A i \in DOMAIN s.cells : i - d \in DOMAIN t.cells => t.cells[i - d] = s.cells[i]

\* newLine keeps the cursor on the screen; at the end of a full line it moves
\* nothing but what it scrolls.
LEMMA NewLineFacts ==
    ASSUME NEW s, ScreenOK(s)
    PROVE  LET t == NewLine(s)
           IN  /\ ScreenOK(t) /\ t.column = 0 /\ t.color = s.color
               /\ s.column = WIDTH => \E d \in Nat : MovedUp(t, s, d)
<1> DEFINE t == NewLine(s)
           c == WIDTH * HEIGHT
<1>1. /\ DOMAIN s = {"line", "column", "color", "cells"}
      /\ s.line \in 0 .. HEIGHT - 1 /\ s.column \in 0 .. WIDTH
      /\ DOMAIN s.cells = 0 .. c - 1
  BY DEF ScreenOK
<1>2. /\ WIDTH \in Nat \ {0} /\ HEIGHT \in Nat \ {0} /\ c \in Nat
      /\ s.line * WIDTH \in Nat
      /\ (s.line + 1) * WIDTH = s.line * WIDTH + WIDTH
  BY <1>1, LineFacts
<1> HIDE DEF c
<1>3. CASE s.line < HEIGHT - 1
  <2>1. t = [s EXCEPT !.line = @ + 1, !.column = 0]
    BY <1>3 DEF NewLine
  <2>2. /\ DOMAIN t = {"line", "column", "color", "cells"} /\ t.line = s.line + 1
        /\ t.column = 0 /\ t.color = s.color /\ t.cells = s.cells
    BY <1>1, <2>1
  <2> HIDE DEF t
  <2>3. ScreenOK(t)
    BY <1>1, <1>2, <1>3, <2>2 DEF ScreenOK, c
  <2>4. ASSUME s.column = WIDTH PROVE MovedUp(t, s, 0)
    <3>1. CursorAt(t) = (s.line + 1) * WIDTH + 0 /\ CursorAt(s) = s.line * WIDTH + WIDTH
      BY <2>2, <2>4 DEF CursorAt
    <3>2. CursorAt(t) = CursorAt(s) - 0
      BY <3>1, <1>2
    <3> QED BY <1>1, <1>2, <2>2, <3>2 DEF MovedUp
  <2> QED BY <2>2, <2>3, <2>4 DEF t
<1>4. CASE ~(s.line < HEIGHT - 1)
  <2>1. t = [ScrollUp(s) EXCEPT !.column = 0]
    BY <1>4 DEF NewLine
  <2>2. /\ DOMAIN t = {"line", "column", "color", "cells"} /\ t.line = s.line
        /\ t.column = 0 /\ t.color = s.color
        /\ t.cells = [i \in DOMAIN s.cells |->
               IF i + WIDTH \in DOMAIN s.cells THEN s.cells[i + WIDTH] ELSE Blank(s.color)]
    BY <1>1, <2>1 DEF ScrollUp
  <2> HIDE DEF t
  <2>3. ScreenOK(t)
    BY <1>1, <1>2, <1>4, <2>2 DEF ScreenOK, c
  <2>4. ASSUME s.column = WIDTH PROVE MovedUp(t, s, WIDTH)
    <3>1. CursorAt(t) = s.line * WIDTH + 0 /\ CursorAt(s) = s.line * WIDTH + WIDTH
      BY <2>2, <2>4 DEF CursorAt
    <3>2. CursorAt(t) = CursorAt(s) - WIDTH
      BY <3>1, <1>2
    <3>3. ASSUME NEW i \in DOMAIN s.cells, i - WIDTH \in DOMAIN t.cells
          PROVE  t.cells[i - WIDTH] = s.cells[i]
      <4>1. (i - WIDTH) + WIDTH = i /\ i - WIDTH \in DOMAIN s.cells
        BY <1>1, <1>2, <2>2, <3>3
      <4> QED BY <2>2, <3>3, <4>1
    <3> QED BY <3>2, <3>3 DEF MovedUp
  <2> QED BY <1>2, <2>2, <2>3, <2>4 DEF t
<1> QED BY <1>3, <1>4

\* A full line is left before the next character.
LEMMA WrappedFacts ==
    ASSUME NEW s, ScreenOK(s)
    PROVE  LET t == Wrapped(s)
           IN  /\ ScreenOK(t) /\ t.column < WIDTH /\ t.color = s.color
               /\ \E d \in Nat : MovedUp(t, s, d)
<1> DEFINE t == Wrapped(s)
<1>1. WIDTH \in Nat \ {0} /\ CursorAt(s) \in Int /\ s.column \in 0 .. WIDTH
      /\ DOMAIN s.cells \subseteq Int
  BY CursorFacts DEF ScreenOK
<1>2. CASE s.column = WIDTH
  <2>1. t = NewLine(s)
    BY <1>2 DEF Wrapped
  <2> HIDE DEF t
  <2> QED BY <1>1, <1>2, <2>1, NewLineFacts DEF t
<1>3. CASE s.column # WIDTH
  <2>1. t = s
    BY <1>3 DEF Wrapped
  <2> HIDE DEF t
  <2>2. MovedUp(t, s, 0)
    BY <1>1, <2>1 DEF MovedUp
  <2>3. t.column < WIDTH
    BY <1>1, <1>3, <2>1
  <2> QED BY <2>1, <2>2, <2>3 DEF t
<1> QED BY <1>2, <1>3

\* A character goes into the cell of the cursor, and the cursor on.
LEMMA PrintedFacts ==
    ASSUME NEW s, ScreenOK(s), s.column < WIDTH, NEW c
    PROVE  LET t == Printed(s, c)
           IN  /\ ScreenOK(t) /\ t.color = s.color
               /\ CursorAt(t) = CursorAt(s) + 1 /\ CursorAt(s) \in DOMAIN s.cells
               /\ DOMAIN t.cells = DOMAIN s.cells
               /\ \A i \in DOMAIN s.cells : t.cells[i] =
                      IF i = CursorAt(s) THEN [char |-> c, color |-> s.color]
                      ELSE s.cells[i]
<1> DEFINE t == Printed(s, c)
           cell == [char |-> c, color |-> s.color]
<1>1. /\ DOMAIN s = {"line", "column", "color", "cells"}
      /\ s.line \in 0 .. HEIGHT - 1 /\ s.column \in 0 .. WIDTH
      /\ WIDTH \in Nat \ {0} /\ s.line * WIDTH \in Nat
      /\ CursorAt(s) \in DOMAIN s.cells
  BY CursorFacts, LineFacts DEF ScreenOK
<1>2. t = [s EXCEPT !.column = @ + 1, !.cells[CursorAt(s)] = cell]
  BY DEF Printed
<1>3. /\ DOMAIN t = {"line", "column", "color", "cells"}
      /\ t.line = s.line /\ t.column = s.column + 1 /\ t.color = s.color
      /\ t.cells = [s.cells EXCEPT ![CursorAt(s)] = cell]
  BY <1>1, <1>2
<1> HIDE DEF t, cell
<1>4. ScreenOK(t)
  BY <1>1, <1>3 DEF ScreenOK
<1>5. CursorAt(t) = CursorAt(s) + 1
  BY <1>1, <1>3 DEF CursorAt
<1>6. /\ DOMAIN t.cells = DOMAIN s.cells
      /\ \A i \in DOMAIN s.cells : t.cells[i] = IF i = CursorAt(s) THEN cell ELSE s.cells[i]
  BY <1>1, <1>3
<1> QED BY <1>1, <1>3, <1>4, <1>5, <1>6 DEF t, cell

\* A backspace moves the cursor back by one, if it can, and blanks the cell.
LEMMA BackspaceFacts ==
    ASSUME NEW s, ScreenOK(s)
    PROVE  LET t == Backspace(s)
           IN  /\ ScreenOK(t) /\ t.color = s.color
               /\ CursorAt(t) = IF CursorAt(s) = 0 THEN 0 ELSE CursorAt(s) - 1
               /\ DOMAIN t.cells = DOMAIN s.cells
               /\ \A i \in DOMAIN s.cells : t.cells[i] =
                      IF i = CursorAt(t) THEN Blank(s.color) ELSE s.cells[i]
<1> DEFINE t == Backspace(s)
           b == IF s.column > 0 THEN [s EXCEPT !.column = @ - 1]
                ELSE IF s.line > 0 THEN [s EXCEPT !.line = @ - 1, !.column = WIDTH - 1]
                ELSE s
<1>1. /\ DOMAIN s = {"line", "column", "color", "cells"}
      /\ s.line \in 0 .. HEIGHT - 1 /\ s.column \in 0 .. WIDTH
      /\ WIDTH \in Nat \ {0} /\ s.line * WIDTH \in Nat /\ HEIGHT \in Nat
      /\ (s.line - 1) * WIDTH = s.line * WIDTH - WIDTH
      /\ s.line > 0 => s.line * WIDTH >= WIDTH
  BY LineFacts DEF ScreenOK
<1>2. t = [b EXCEPT !.cells[CursorAt(b)] = Blank(s.color)]
  BY DEF Backspace
<1>3. /\ DOMAIN b = {"line", "column", "color", "cells"}
      /\ b.line \in 0 .. HEIGHT - 1 /\ b.column \in 0 .. WIDTH
      /\ b.color = s.color /\ b.cells = s.cells
      /\ CursorAt(b) = IF CursorAt(s) = 0 THEN 0 ELSE CursorAt(s) - 1
  <2>1. CASE s.column > 0
    <3>1. /\ DOMAIN b = {"line", "column", "color", "cells"}
          /\ b.line = s.line /\ b.column = s.column - 1
          /\ b.color = s.color /\ b.cells = s.cells
      BY <1>1, <2>1
    <3> HIDE DEF b
    <3> QED BY <1>1, <2>1, <3>1 DEF CursorAt
  <2>2. CASE ~(s.column > 0) /\ s.line > 0
    <3>1. /\ DOMAIN b = {"line", "column", "color", "cells"}
          /\ b.line = s.line - 1 /\ b.column = WIDTH - 1
          /\ b.color = s.color /\ b.cells = s.cells
      BY <1>1, <2>2
    <3> HIDE DEF b
    <3>2. CursorAt(b) = (s.line - 1) * WIDTH + (WIDTH - 1) /\ CursorAt(s) = s.line * WIDTH
      BY <1>1, <2>2, <3>1 DEF CursorAt
    <3>3. CursorAt(b) = CursorAt(s) - 1 /\ CursorAt(s) # 0
      BY <1>1, <2>2, <3>2
    <3>4. b.line \in 0 .. HEIGHT - 1 /\ b.column \in 0 .. WIDTH
      BY <1>1, <2>2, <3>1
    <3> QED BY <3>1, <3>3, <3>4
  <2>3. CASE ~(s.column > 0) /\ ~(s.line > 0)
    <3>1. b = s /\ s.line = 0 /\ s.column = 0
      BY <1>1, <2>3
    <3> HIDE DEF b
    <3>2. CursorAt(s) = 0
      BY <1>1, <3>1 DEF CursorAt
    <3> QED BY <1>1, <3>1, <3>2
  <2> QED BY <2>1, <2>2, <2>3
<1> HIDE DEF b
<1>4. /\ DOMAIN t = {"line", "column", "color", "cells"}
      /\ t.line = b.line /\ t.column = b.column /\ t.color = s.color
      /\ t.cells = [s.cells EXCEPT ![CursorAt(b)] = Blank(s.color)]
  BY <1>2, <1>3
<1> HIDE DEF t
<1>5. ScreenOK(t) /\ CursorAt(t) = CursorAt(b)
  BY <1>3, <1>4 DEF ScreenOK, CursorAt
<1>6. /\ DOMAIN t.cells = DOMAIN s.cells
      /\ \A i \in DOMAIN s.cells : t.cells[i] =
             IF i = CursorAt(t) THEN Blank(s.color) ELSE s.cells[i]
  BY <1>4, <1>5
<1> QED BY <1>3, <1>4, <1>5, <1>6 DEF t

\* The next tabulator stop is not behind the end of the line.
LEMMA TabFacts ==
    ASSUME NEW n \in 0 .. WIDTH - 1
    PROVE  /\ TAB - (n % TAB) \in Nat
           /\ n + (TAB - (n % TAB)) \in 0 .. WIDTH
<1>1. WIDTH \in Nat \ {0} /\ TAB \in Nat \ {0} /\ WIDTH % TAB = 0
  BY ScreenAssumption
<1> DEFINE q == n \div TAB
           r == n % TAB
           w == WIDTH \div TAB
<1>2. /\ q \in Int /\ r \in 0 .. TAB - 1 /\ n = TAB * q + r
      /\ w \in Int /\ WIDTH = TAB * w
  <2>1. n \in Int
    BY <1>1
  <2>2. q \in Int /\ r \in 0 .. TAB - 1 /\ n = TAB * q + r
    BY <1>1, <2>1
  <2>3. w \in Int /\ WIDTH % TAB \in 0 .. TAB - 1 /\ WIDTH = TAB * w + (WIDTH % TAB)
    BY <1>1
  <2> HIDE DEF q, r, w
  <2> QED BY <1>1, <2>2, <2>3
<1> HIDE DEF q, r, w
<1>3. q < w
  <2>1. CASE w <= q
    <3>1. q - w \in Nat
      BY <1>2, <2>1
    <3>2. TAB * (q - w) \in Nat /\ TAB * (q - w) = TAB * q - TAB * w
      BY <1>1, <1>2, <3>1
    <3>3. n < WIDTH /\ TAB * q \in Int
      BY <1>1, <1>2
    <3> QED BY <1>1, <1>2, <3>2, <3>3
  <2> QED BY <1>2, <2>1
<1>4. TAB * q + TAB <= WIDTH
  <2>1. w - q - 1 \in Nat
    BY <1>2, <1>3
  <2>2. TAB * (w - q - 1) \in Nat /\ TAB * (w - q - 1) = TAB * w - TAB * q - TAB
    BY <1>1, <1>2, <2>1
  <2>3. TAB * q \in Int
    BY <1>1, <1>2
  <2> QED BY <1>1, <1>2, <2>2, <2>3
<1>5. TAB * q \in Int
  BY <1>1, <1>2
<1>6. n + (TAB - r) = TAB * q + TAB /\ n + (TAB - r) >= 0
  BY <1>1, <1>2, <1>5
<1> QED BY <1>1, <1>2, <1>4, <1>5, <1>6 DEF r

\* A tabulator blanks the rest of its column.
LEMMA TabulatedFacts ==
    ASSUME NEW s, ScreenOK(s), s.column < WIDTH
    PROVE  ScreenOK(Tabulated(s)) /\ Tabulated(s).color = s.color
<1> DEFINE n == TAB - (s.column % TAB)
           t == Tabulated(s)
<1>1. /\ DOMAIN s = {"line", "column", "color", "cells"}
      /\ s.line \in 0 .. HEIGHT - 1 /\ s.column \in 0 .. WIDTH - 1
      /\ DOMAIN s.cells = 0 .. WIDTH * HEIGHT - 1
  BY ScreenAssumption DEF ScreenOK
<1>2. s.column + n \in 0 .. WIDTH
  BY <1>1, TabFacts
<1>3. t = [s EXCEPT !.column = @ + n,
                    !.cells = [i \in DOMAIN @ |->
                        IF i \in CursorAt(s) .. CursorAt(s) + n - 1 THEN Blank(s.color)
                        ELSE @[i]]]
  BY DEF Tabulated
<1> HIDE DEF n, t
<1>4. /\ DOMAIN t = {"line", "column", "color", "cells"}
      /\ t.line = s.line /\ t.column = s.column + n /\ t.color = s.color
      /\ DOMAIN t.cells = DOMAIN s.cells
  BY <1>1, <1>3
<1> QED BY <1>1, <1>2, <1>4 DEF ScreenOK, t

\* No character moves the cursor off the screen.
LEMMA PutcFacts ==
    ASSUME NEW s, ScreenOK(s), NEW c
    PROVE  ScreenOK(Putc(s, c)) /\ Putc(s, c).color = s.color
<1>1. CASE c = "\n"
  <2>1. Putc(s, c) = NewLine(s)
    BY <1>1 DEF Putc, BS
  <2> QED BY <2>1, NewLineFacts
<1>2. CASE c = "\r"
  <2>1. Putc(s, c) = [s EXCEPT !.column = 0]
    BY <1>2 DEF Putc, BS
  <2> QED BY <2>1, ScreenAssumption DEF ScreenOK
<1>3. CASE c = BS
  BY <1>3, BackspaceFacts DEF Putc, BS
<1>4. CASE c = "\t"
  <2>1. Putc(s, c) = Tabulated(Wrapped(s))
    BY <1>4 DEF Putc, BS
  <2>2. ScreenOK(Wrapped(s)) /\ Wrapped(s).column < WIDTH /\ Wrapped(s).color = s.color
    BY WrappedFacts
  <2> QED BY <2>1, <2>2, TabulatedFacts
<1>5. CASE c \notin {"\n", "\r", BS, "\t"}
  <2>1. Putc(s, c) = Printed(Wrapped(s), c)
    BY <1>5 DEF Putc
  <2>2. ScreenOK(Wrapped(s)) /\ Wrapped(s).column < WIDTH /\ Wrapped(s).color = s.color
    BY WrappedFacts
  <2> DEFINE t == Printed(Wrapped(s), c)
  <2>3. ScreenOK(t) /\ t.color = Wrapped(s).color
    BY <2>2, PrintedFacts
  <2> HIDE DEF t
  <2> QED BY <2>1, <2>2, <2>3 DEF t
<1> QED BY <1>1, <1>2, <1>3, <1>4, <1>5

\* A character that is echoed is the last one of the line, on the screen as
\* in the buffer.
LEMMA EchoFacts ==
    ASSUME NEW s, ScreenOK(s), s.color = default, NEW buf, NEW n \in DOMAIN buf,
           n \in Nat, InFront(s, buf, n), NEW c, c \notin {"\n", "\r", BS, "\t"}
    PROVE  InFront(Putc(s, c), [buf EXCEPT ![n] = c], n + 1)
<1> DEFINE w == Wrapped(s)
           t == Putc(s, c)
           line == [buf EXCEPT ![n] = c]
<1>1. t = Printed(w, c)
  BY DEF Putc
<1>2. ScreenOK(w) /\ w.column < WIDTH /\ w.color = default
  BY WrappedFacts
<1>3. PICK d \in Nat : MovedUp(w, s, d)
  BY WrappedFacts
<1> HIDE DEF w
<1>4. /\ CursorAt(t) = CursorAt(w) + 1 /\ CursorAt(w) \in DOMAIN w.cells
      /\ DOMAIN t.cells = DOMAIN w.cells
      /\ \A i \in DOMAIN w.cells : t.cells[i] =
             IF i = CursorAt(w) THEN [char |-> c, color |-> default] ELSE w.cells[i]
  BY <1>1, <1>2, PrintedFacts
<1>5. line[n] = c /\ \A i \in DOMAIN buf : i # n => line[i] = buf[i]
  OBVIOUS
<1>6. /\ WIDTH * HEIGHT \in Nat
      /\ DOMAIN s.cells = 0 .. WIDTH * HEIGHT - 1 /\ DOMAIN w.cells = DOMAIN s.cells
      /\ CursorAt(s) \in 0 .. WIDTH * HEIGHT /\ CursorAt(w) \in Int
      /\ CursorAt(w) = CursorAt(s) - d
  BY <1>2, <1>3, CursorFacts DEF ScreenOK, MovedUp
<1> HIDE DEF t, line
<1> DEFINE size == WIDTH * HEIGHT
<1> HIDE DEF size
<1>7. /\ size \in Nat /\ DOMAIN s.cells = 0 .. size - 1 /\ DOMAIN w.cells = 0 .. size - 1
      /\ CursorAt(s) \in 0 .. size
  BY <1>6 DEF size
<1> SUFFICES ASSUME NEW k \in 1 .. n + 1, CursorAt(t) - k \in DOMAIN t.cells
             PROVE  t.cells[CursorAt(t) - k] = [char |-> line[n + 1 - k], color |-> default]
  BY DEF InFront, t, line
<1>8. CASE k = 1
  <2>1. CursorAt(t) - k = CursorAt(w) /\ n + 1 - k = n
    BY <1>4, <1>6, <1>8
  <2> QED BY <2>1, <1>4, <1>5
<1>9. CASE k # 1
  <2> DEFINE i == CursorAt(s) - (k - 1)
  <2>1. /\ CursorAt(t) - k = CursorAt(w) - (k - 1) /\ CursorAt(t) - k = i - d
        /\ CursorAt(t) - k # CursorAt(w) /\ k - 1 \in 1 .. n
    BY <1>4, <1>6, <1>9
  <2>2. i \in DOMAIN s.cells
    BY <1>3, <1>4, <1>7, <1>9, <2>1
  <2>3. t.cells[i - d] = w.cells[i - d] /\ w.cells[i - d] = s.cells[i]
    BY <1>3, <1>4, <2>1, <2>2 DEF MovedUp
  <2>4. s.cells[i] = [char |-> buf[n - (k - 1)], color |-> default]
    BY <2>1, <2>2 DEF InFront
  <2>5. line[n + 1 - k] = buf[n - (k - 1)]
    <3>1. n + 1 - k = n - (k - 1) /\ n - (k - 1) # n
      BY <1>9
    <3>2. line[n - (k - 1)] = buf[n - (k - 1)]
      BY <3>1 DEF line
    <3> QED BY <3>1, <3>2
  <2> HIDE DEF i
  <2> QED BY <2>1, <2>3, <2>4, <2>5
<1> QED BY <1>8, <1>9

\* A backspace takes the last character off the line, in both places.
LEMMA BackFacts ==
    ASSUME NEW s, ScreenOK(s), NEW buf, NEW n \in Nat \ {0}, InFront(s, buf, n)
    PROVE  InFront(Putc(s, BS), buf, n - 1)
<1> DEFINE t == Putc(s, BS)
<1>1. t = Backspace(s)
  BY DEF Putc, BS
<1> HIDE DEF t
<1>2. /\ CursorAt(t) = IF CursorAt(s) = 0 THEN 0 ELSE CursorAt(s) - 1
      /\ DOMAIN t.cells = DOMAIN s.cells
      /\ \A i \in DOMAIN s.cells : i # CursorAt(t) => t.cells[i] = s.cells[i]
  BY <1>1, BackspaceFacts
<1>3. /\ DOMAIN s.cells \subseteq Nat /\ CursorAt(s) \in Nat
  BY CursorFacts DEF ScreenOK
<1> SUFFICES ASSUME NEW k \in 1 .. n - 1, CursorAt(t) - k \in DOMAIN t.cells
             PROVE  t.cells[CursorAt(t) - k] = [char |-> buf[n - 1 - k], color |-> default]
  BY DEF InFront, t
<1>4. CursorAt(s) # 0 /\ CursorAt(t) - k = CursorAt(s) - (k + 1)
  BY <1>2, <1>3
<1>5. k + 1 \in 1 .. n /\ n - (k + 1) = n - 1 - k
  OBVIOUS
<1>6. s.cells[CursorAt(s) - (k + 1)] = [char |-> buf[n - (k + 1)], color |-> default]
  BY <1>2, <1>4, <1>5 DEF InFront
<1>7. CursorAt(t) - k # CursorAt(t)
  BY <1>2, <1>3
<1> QED BY <1>2, <1>4, <1>5, <1>6, <1>7
-----------------------------------------------------------------------------
(***************************************************************************)
(* The steps                                                               *)
(***************************************************************************)

\* A writer has something left to print: the shell has not started.
LEMMA WritingFacts ==
    ASSUME NEW w \in Writer, todo[w] # <<>>, TInv
    PROVE  at = "start"
BY DEF TInv, AllPrinted

LEMMA WritingStep ==
    ASSUME TInv, Writing, UNCHANGED <<keyboardVars, unread, shellVars>>
    PROVE  TInv'
<1>1. PICK w \in Writer : TakeLock(w) \/ GiveLock(w) \/ PutChar(w) \/ SetColor(w)
  BY DEF Writing
<1>2. todo[w] # <<>>
  BY <1>1 DEF TakeLock, GiveLock, PutChar, SetColor, At
<1>3. at = "start" /\ at' = "start"
  BY <1>2, WritingFacts DEF shellVars
<1>4. ScreenOK(screen')
  <2>1. CASE TakeLock(w) \/ GiveLock(w)
    BY <2>1 DEF TInv, TakeLock, GiveLock
  <2>2. CASE PutChar(w)
    BY <2>2, PutcFacts DEF TInv, PutChar
  <2>3. CASE SetColor(w)
    <3>1. screen' = [screen EXCEPT !.color = Head(todo[w]).color]
      BY <2>3 DEF SetColor
    <3> QED BY <3>1 DEF TInv, ScreenOK
  <2> QED BY <1>1, <2>1, <2>2, <2>3
<1>5. KeysKnown' /\ PressesCounted'
  BY <1>3 DEF TInv, KeysKnown, PressesCounted, HasChar, keyboardVars, shellVars
<1> QED BY <1>3, <1>4, <1>5 DEF TInv, Reading

\* A byte of the keyboard: a key is pressed, or none.
LEMMA ByteStep ==
    ASSUME TInv, Keyboard
    PROVE  TInv'
<1> DEFINE Known(b) == b.kind = "char" => b.key \in Key
<1>1. PICK b : Byte(b) /\ Known(b)
  <2>1. CASE PressChar
    <3>1. PICK k \in Key : Byte([kind |-> "char", key |-> k])
      BY <2>1 DEF PressChar
    <3>2. Known([kind |-> "char", key |-> k])
      OBVIOUS
    <3> QED BY <3>1, <3>2
  <2>2. CASE Byte([kind |-> "shift"]) \/ Byte([kind |-> "caps"])
             \/ Byte([kind |-> "other"]) \/ Byte([kind |-> "arrow"])
    <3>1. /\ Known([kind |-> "shift"]) /\ Known([kind |-> "caps"])
          /\ Known([kind |-> "other"]) /\ Known([kind |-> "arrow"])
      OBVIOUS
    <3> QED BY <2>2, <3>1
  <2> QED
    BY <2>1, <2>2 DEF Keyboard, PressShift, PressCaps, Release, ReleaseShift, Prefix, Arrow,
         FakeShift
<1>2. /\ code' = b /\ unread' = IF HasChar(b) THEN unread + 1 ELSE unread
      /\ UNCHANGED <<screen, todo, at, key, prompt, position, tabbed>>
  BY <1>1 DEF Byte, screenVars, shellVars
<1>3. KeysKnown'
  BY <1>1, <1>2 DEF TInv, KeysKnown
<1>4. PressesCounted'
  BY <1>2 DEF TInv, PressesCounted, HasChar
<1>5. ScreenOK(screen') /\ (at' # "start" => AllPrinted') /\ Reading'
  BY <1>2 DEF TInv, AllPrinted, Reading
<1> QED BY <1>3, <1>4, <1>5 DEF TInv

LEMMA StartReadStep ==
    ASSUME TInv, StartRead
    PROVE  TInv'
<1> DEFINE s == [screen EXCEPT !.color = promptColour]
           t == Putc(s, ">")
<1>1. /\ AllPrinted /\ at' = "get" /\ screen' = [t EXCEPT !.color = default]
      /\ prompt' = Emptied /\ position' = 0
      /\ UNCHANGED <<todo, code, unread, key>>
  BY DEF StartRead, keyboardVars
<1>2. ScreenOK(s)
  BY DEF TInv, ScreenOK
<1> HIDE DEF s
<1>3. ScreenOK(t)
  BY <1>2, PutcFacts
<1> HIDE DEF t
<1>4. ScreenOK(screen') /\ screen'.color = default
  BY <1>1, <1>3 DEF ScreenOK
<1>5. DOMAIN prompt' = 0 .. PROMPT - 1 /\ position' \in 0 .. PROMPT - 2
  BY <1>1, TerminalAssumption DEF Emptied
<1>6. InFront(screen', prompt', position')
  BY <1>1 DEF InFront
<1>7. KeysKnown' /\ PressesCounted'
  BY <1>1 DEF TInv, KeysKnown, PressesCounted, HasChar
<1> QED BY <1>1, <1>4, <1>5, <1>6, <1>7 DEF TInv, Reading, AllPrinted

\* What the shell reads of the keyboard is a character of a key.
LEMMA GetStep ==
    ASSUME TInv, GetLastKey \/ Convert
    PROVE  TInv'
<1>1. /\ at \in {"get", "convert"} /\ at' \in {"get", "convert", "use"}
      /\ UNCHANGED <<screen, todo, code, unread, prompt, position, tabbed>>
  BY DEF GetLastKey, Convert, screenVars, keyboardVars
<1>2. KeysKnown' /\ PressesCounted'
  <2>1. CASE GetLastKey
    BY <1>1, <2>1 DEF TInv, KeysKnown, PressesCounted, HasChar, GetLastKey
  <2>2. CASE Convert /\ Ascii(key) = NUL
    BY <1>1, <2>2 DEF TInv, KeysKnown, PressesCounted, HasChar, Convert
  <2>3. CASE Convert /\ Ascii(key) # NUL
    <3>1. at = "convert" /\ at' = "use" /\ key' = [kind |-> "read", char |-> Ascii(key)]
      BY <2>3 DEF Convert
    <3>2. HasChar(key)
      BY <2>3 DEF Ascii, HasChar
    <3>3. Ascii(key) \in KeyChar
      <4>1. CASE key.kind = "char"
        <5>1. key.key \in Key
          BY <3>1, <4>1 DEF TInv, KeysKnown
        <5>2. Ascii(key) = IF shift # caps THEN key.key.shifted ELSE key.key.plain
          BY <4>1 DEF Ascii
        <5> QED BY <5>1, <5>2 DEF KeyChar
      <4>2. CASE key.kind = "arrow"
        BY <4>2 DEF Ascii, KeyChar
      <4> QED BY <3>2, <4>1, <4>2 DEF HasChar
    <3>4. unread > 0
      BY <3>1, <3>2 DEF TInv, PressesCounted
    <3> QED BY <1>1, <3>1, <3>3, <3>4 DEF TInv, KeysKnown, PressesCounted, HasChar
  <2> QED BY <2>1, <2>2, <2>3
<1>3. ScreenOK(screen') /\ AllPrinted' /\ Reading'
  BY <1>1 DEF TInv, AllPrinted, Reading
<1> QED BY <1>2, <1>3 DEF TInv

\* A line that is parsed, and one that is executed.
LEMMA CommandStep ==
    ASSUME TInv, ShellParse \/ ShellExecute
    PROVE  TInv'
<1>1. /\ at \in {"parse", "execute"} /\ at' \in {"execute", "start"}
      /\ UNCHANGED <<todo, code, unread, key>>
  BY DEF ShellParse, ShellExecute, screenVars, keyboardVars
<1>2. ScreenOK(screen')
  BY PutcFacts DEF TInv, ShellParse, ShellExecute, screenVars
<1>3. KeysKnown' /\ PressesCounted'
  BY <1>1 DEF TInv, KeysKnown, PressesCounted, HasChar
<1> QED BY <1>1, <1>2, <1>3 DEF TInv, AllPrinted, Reading

LEMMA UseCharStep ==
    ASSUME TInv, UseChar
    PROVE  TInv'
<1> DEFINE c == key.char
           t == Putc(screen, c)
<1>1. /\ at = "use" /\ code' = NoCode /\ unread' = unread - 1 /\ UNCHANGED todo
  BY DEF UseChar, Discarded
<1>7. ~tabbed' => ~tabbed /\ c # "\t"
  <2>1. tabbed' = (tabbed \/ c = "\t")
    BY DEF UseChar
  <2> HIDE DEF c
  <2> QED BY <2>1, Zenon
<1>2. at' \in {"get", "parse"}
  BY DEF UseChar
<1>3. KeysKnown' /\ PressesCounted'
  BY <1>1, <1>2 DEF TInv, KeysKnown, PressesCounted, HasChar, NoCode
<1>4. /\ ScreenOK(screen) /\ screen.color = default
      /\ DOMAIN prompt = 0 .. PROMPT - 1 /\ position \in 0 .. PROMPT - 2
      /\ ~tabbed => InFront(screen, prompt, position)
      /\ PROMPT \in Nat
  BY <1>1, TerminalAssumption DEF TInv, Reading
<1>5. ScreenOK(t) /\ t.color = default
  BY <1>4, PutcFacts
<1>6. ScreenOK(screen') /\ Reading'
  <2>1. CASE c = BS /\ position = 0
    <3>1. at' = "get" /\ UNCHANGED <<screen, prompt, position>>
      BY <2>1 DEF UseChar, BS
    <3> QED BY <1>4, <1>7, <3>1 DEF Reading
  <2>2. CASE c = BS /\ position > 0
    <3>1. at' = "get" /\ screen' = t /\ position' = position - 1 /\ prompt' = prompt
      BY <2>2 DEF UseChar, Echoed, BS
    <3>2. ~tabbed' => InFront(t, prompt, position - 1)
      BY <1>4, <1>7, <2>2, BackFacts
    <3> HIDE DEF t
    <3> QED BY <1>4, <1>5, <2>2, <3>1, <3>2 DEF Reading
  <2>3. CASE c = "\n"
    <3>1. at' = "parse" /\ screen' = t
      BY <2>3 DEF UseChar, Echoed, BS
    <3> HIDE DEF t
    <3> QED BY <1>5, <3>1 DEF Reading
  <2>4. CASE c \notin {BS, "\n"}
    <3>1. /\ prompt' = [prompt EXCEPT ![position] = c]
          /\ position' = position + 1
          /\ IF position' < PROMPT - 1 THEN screen' = t /\ at' = "get"
             ELSE screen' = Putc(t, "\n") /\ at' = "parse"
      BY <2>4 DEF UseChar, Echoed
    <3>2. c \notin {"\n", "\r", BS}
      <4>1. c \in KeyChar
        BY <1>1 DEF TInv, KeysKnown
      <4>2. special # "\r"
        BY TerminalAssumption
      <4>3. ASSUME NEW k \in Key PROVE "\r" \notin {k.plain, k.shifted}
        BY TerminalAssumption
      <4> HIDE DEF c
      <4> QED BY <2>4, <4>1, <4>2, <4>3 DEF KeyChar
    <3>3. ~tabbed' => InFront(t, prompt', position')
      <4> SUFFICES ASSUME ~tabbed' PROVE InFront(t, prompt', position')
        OBVIOUS
      <4>1. position \in DOMAIN prompt /\ position \in Nat /\ ~tabbed /\ c # "\t"
        BY <1>4, <1>7
      <4>2. InFront(t, [prompt EXCEPT ![position] = c], position + 1)
        BY <1>4, <3>2, <4>1, EchoFacts
      <4> HIDE DEF t, c
      <4> QED BY <3>1, <4>2
    <3> HIDE DEF t
    <3>4. CASE position' < PROMPT - 1
      BY <1>4, <1>5, <3>1, <3>3, <3>4 DEF Reading
    <3>5. CASE ~(position' < PROMPT - 1)
      BY <1>5, <3>1, <3>5, PutcFacts DEF Reading
    <3> QED BY <3>4, <3>5
  <2> QED BY <1>4, <2>1, <2>2, <2>3, <2>4
<1> QED BY <1>1, <1>3, <1>6 DEF TInv, AllPrinted

-----------------------------------------------------------------------------
(***************************************************************************)
(* What a writer has left to do, with a label for each place between two   *)
(* steps                                                                   *)
(***************************************************************************)
HueOf(w) == IF Manner[w] = "colored" THEN Colour[w] ELSE default

Hue == {default} \cup {Colour[w] : w \in Writer}

Steps(w) ==
    [op : {"acquire", "release"}] \cup [op : {"putc"}, char : ToSet(Text[w])]
        \cup [op : {"color"}, color : Hue]

\* held: how often the writer has the lock; done: the characters it has
\* printed; hue: the colour it has set.
Label == [held : Nat, done : Nat, hue : Hue]

Mark(h, n, c) == [held |-> h, done |-> n, hue |-> c]

Start == Mark(0, 0, default)
End(w) == Mark(0, Len(Text[w]), default)

\* Inside of a string that is to stay together.
Between(w, a) == Manner[w] # "printf" /\ a.done \in 1 .. Len(Text[w]) - 1

\* What a step needs.
May(w, x, a) ==
    /\ x.op # "acquire" => a.held > 0
    /\ x.op = "release" /\ a.held = 1 => a.hue = default /\ ~Between(w, a)
    /\ x.op = "putc" => /\ a.done < Len(Text[w]) /\ x.char = Text[w][a.done + 1]
                        /\ a.hue = HueOf(w)

After(x, a) ==
    CASE x.op = "acquire" -> Mark(a.held + 1, a.done, a.hue)
      [] x.op = "release" -> Mark(a.held - 1, a.done, a.hue)
      [] x.op = "putc" -> Mark(a.held, a.done + 1, a.hue)
      [] OTHER -> Mark(a.held, a.done, x.color)

\* Each place of the program t has a label, the first a and the last b.
Leads(w, t, a, b) ==
    /\ t \in Seq(Steps(w))
    /\ \E f \in [1 .. Len(t) + 1 -> Label] :
           /\ f[1] = a /\ f[Len(t) + 1] = b
           /\ \A i \in 1 .. Len(t) : May(w, t[i], f[i]) /\ f[i + 1] = After(t[i], f[i])

\* A program without steps.
LEMMA LeadsNowhere ==
    ASSUME NEW w, NEW a \in Label
    PROVE  Leads(w, <<>>, a, a) /\ \A b : Leads(w, <<>>, a, b) => b = a
<1>1. <<>> \in Seq(Steps(w)) /\ Len(<<>>) = 0
  BY EmptySeq
<1>2. Leads(w, <<>>, a, a)
  <2> DEFINE f == [i \in 1 .. Len(<<>>) + 1 |-> a]
  <2>1. f \in [1 .. Len(<<>>) + 1 -> Label] /\ f[1] = a /\ f[Len(<<>>) + 1] = a
    BY <1>1
  <2>2. 1 .. Len(<<>>) = {}
    BY <1>1
  <2> HIDE DEF f
  <2> QED BY <1>1, <2>1, <2>2 DEF Leads
<1>3. ASSUME NEW b, Leads(w, <<>>, a, b) PROVE b = a
  BY <1>1, <1>3 DEF Leads
<1> QED BY <1>2, <1>3

\* A program of one step.
LEMMA LeadsOne ==
    ASSUME NEW w, NEW x \in Steps(w), NEW a \in Label, May(w, x, a), After(x, a) \in Label
    PROVE  Leads(w, <<x>>, a, After(x, a))
<1> DEFINE b == After(x, a)
           t == <<x>>
           f == [i \in 1 .. 2 |-> IF i = 1 THEN a ELSE b]
<1>1. t \in Seq(Steps(w)) /\ Len(t) = 1 /\ t[1] = x
  OBVIOUS
<1>2. f \in [1 .. 2 -> Label] /\ f[1] = a /\ f[2] = b
  OBVIOUS
<1> HIDE DEF t, f
<1>3. ASSUME NEW i \in 1 .. Len(t) PROVE May(w, t[i], f[i]) /\ f[i + 1] = After(t[i], f[i])
  <2>1. i = 1
    BY <1>1
  <2> QED BY <1>1, <1>2, <2>1
<1> HIDE DEF b
<1>4. Leads(w, t, a, b)
  BY <1>1, <1>2, <1>3 DEF Leads
<1> QED BY <1>4 DEF t, b

\* A program that goes on where another ends.
LEMMA LeadsThen ==
    ASSUME NEW w, NEW s, NEW t, NEW a, NEW b, NEW c, Leads(w, s, a, b), Leads(w, t, b, c)
    PROVE  Leads(w, s \o t, a, c)
<1> DEFINE u == s \o t
<1>1. /\ s \in Seq(Steps(w)) /\ t \in Seq(Steps(w)) /\ u \in Seq(Steps(w))
      /\ Len(u) = Len(s) + Len(t) /\ Len(s) \in Nat /\ Len(t) \in Nat
      /\ \A i \in 1 .. Len(s) : u[i] = s[i]
      /\ \A i \in 1 .. Len(t) : u[Len(s) + i] = t[i]
  BY ConcatProperties, LenProperties DEF Leads
<1>2. PICK f \in [1 .. Len(s) + 1 -> Label] :
          /\ f[1] = a /\ f[Len(s) + 1] = b
          /\ \A i \in 1 .. Len(s) : May(w, s[i], f[i]) /\ f[i + 1] = After(s[i], f[i])
  BY DEF Leads
<1>3. PICK g \in [1 .. Len(t) + 1 -> Label] :
          /\ g[1] = b /\ g[Len(t) + 1] = c
          /\ \A i \in 1 .. Len(t) : May(w, t[i], g[i]) /\ g[i + 1] = After(t[i], g[i])
  BY DEF Leads
<1> HIDE DEF u
<1> DEFINE m == Len(s)
           n == Len(t)
           h == [i \in 1 .. m + n + 1 |-> IF i <= m THEN f[i] ELSE g[i - m]]
<1>4. /\ h \in [1 .. m + n + 1 -> Label]
      /\ \A i \in 1 .. m : h[i] = f[i]
      /\ \A i \in 1 .. n + 1 : h[m + i] = g[i]
  <2>1. ASSUME NEW i \in 1 .. m + n + 1
        PROVE  h[i] \in Label /\ (i <= m => h[i] = f[i]) /\ (i > m => h[i] = g[i - m])
    <3>1. CASE i <= m
      BY <1>1, <1>2, <3>1
    <3>2. CASE i > m
      <4>1. i - m \in 1 .. n + 1 /\ ~(i <= m)
        BY <1>1, <3>2
      <4>2. h[i] = g[i - m]
        BY <4>1
      <4>3. g[i - m] \in Label
        BY <1>3, <4>1
      <4> HIDE DEF h
      <4> QED BY <4>1, <4>2, <4>3
    <3> QED BY <1>1, <3>1, <3>2
  <2> HIDE DEF h
  <2>2. ASSUME NEW i \in 1 .. n + 1 PROVE h[m + i] = g[i]
    <3>1. m + i \in 1 .. m + n + 1 /\ m + i > m /\ (m + i) - m = i
      BY <1>1
    <3> QED BY <2>1, <3>1
  <2>3. ASSUME NEW i \in 1 .. m PROVE h[i] = f[i]
    <3>1. i \in 1 .. m + n + 1 /\ i <= m
      BY <1>1
    <3> QED BY <2>1, <3>1
  <2>4. h \in [1 .. m + n + 1 -> Label]
    BY <2>1 DEF h
  <2> QED BY <2>2, <2>3, <2>4
<1> HIDE DEF h
<1>5. h[m + 1] = b
  BY <1>1, <1>3, <1>4
<1>6. h[1] = a
  <2>1. CASE m = 0
    <3>1. m + 1 = 1
      BY <2>1
    <3> QED BY <1>2, <1>5, <3>1
  <2>2. CASE m # 0
    <3>1. 1 \in 1 .. m
      BY <1>1, <2>2
    <3> QED BY <1>2, <1>4, <3>1
  <2> QED BY <2>1, <2>2
<1>7. h[m + n + 1] = c
  <2>1. m + (n + 1) = m + n + 1 /\ n + 1 \in 1 .. n + 1
    BY <1>1
  <2> QED BY <1>3, <1>4, <2>1
<1>8. ASSUME NEW i \in 1 .. m + n
      PROVE  May(w, u[i], h[i]) /\ h[i + 1] = After(u[i], h[i])
  <2>1. CASE i <= m
    <3>1. i \in 1 .. m /\ u[i] = s[i] /\ h[i] = f[i]
      BY <1>1, <1>4, <2>1
    <3>2. h[i + 1] = f[i + 1]
      <4>1. CASE i = m
        <5>1. i + 1 = m + 1
          BY <4>1
        <5> QED BY <1>2, <1>5, <5>1
      <4>2. CASE i # m
        <5>1. i + 1 \in 1 .. m
          BY <1>1, <2>1, <4>2
        <5> QED BY <1>4, <5>1
      <4> QED BY <4>1, <4>2
    <3> QED BY <1>2, <3>1, <3>2
  <2>2. CASE i > m
    <3> DEFINE j == i - m
    <3>1. /\ j \in 1 .. n /\ j + 1 \in 1 .. n + 1 /\ j \in 1 .. n + 1
          /\ m + j = i /\ m + (j + 1) = i + 1
      BY <1>1, <2>2
    <3> HIDE DEF j
    <3>2. u[i] = t[j] /\ h[i] = g[j] /\ h[i + 1] = g[j + 1]
      BY <1>1, <1>4, <3>1
    <3> QED BY <1>3, <3>1, <3>2
  <2> QED BY <1>1, <2>1, <2>2
<1>9. Leads(w, u, a, c)
  <2>1. Len(u) = m + n /\ u \in Seq(Steps(w)) /\ h \in [1 .. Len(u) + 1 -> Label]
    BY <1>1, <1>4
  <2>2. h[1] = a /\ h[Len(u) + 1] = c
    BY <1>6, <1>7, <2>1
  <2>3. \A i \in 1 .. Len(u) : May(w, u[i], h[i]) /\ h[i + 1] = After(u[i], h[i])
    BY <1>8, <2>1
  <2> HIDE DEF m, n
  <2> QED BY <2>1, <2>2, <2>3 DEF Leads
<1> QED BY <1>9 DEF u

\* The first step of a program, and the rest of it.
LEMMA LeadsOn ==
    ASSUME NEW w, NEW t, NEW a, NEW c, Leads(w, t, a, c), t # <<>>
    PROVE  /\ a \in Label /\ After(Head(t), a) \in Label
           /\ Head(t) \in Steps(w) /\ May(w, Head(t), a)
           /\ Leads(w, Tail(t), After(Head(t), a), c)
<1>1. t \in Seq(Steps(w))
  BY DEF Leads
<1>2. /\ Head(t) = t[1] /\ Head(t) \in Steps(w) /\ Tail(t) \in Seq(Steps(w))
      /\ Len(t) \in Nat \ {0} /\ Len(Tail(t)) = Len(t) - 1
      /\ \A i \in 1 .. Len(Tail(t)) : Tail(t)[i] = t[i + 1]
  BY <1>1, HeadTailProperties, EmptySeq, LenProperties
<1>3. PICK f \in [1 .. Len(t) + 1 -> Label] :
          /\ f[1] = a /\ f[Len(t) + 1] = c
          /\ \A i \in 1 .. Len(t) : May(w, t[i], f[i]) /\ f[i + 1] = After(t[i], f[i])
  BY DEF Leads
<1> DEFINE n == Len(Tail(t))
           g == [i \in 1 .. n + 1 |-> f[i + 1]]
<1>4. n \in Nat /\ Len(t) = n + 1
  BY <1>2
<1>5. a \in Label /\ f[2] = After(Head(t), a) /\ f[2] \in Label /\ May(w, Head(t), a)
  BY <1>2, <1>3, <1>4
<1>6. /\ g \in [1 .. n + 1 -> Label]
      /\ \A i \in 1 .. n + 1 : g[i] = f[i + 1]
  BY <1>3, <1>4
<1> HIDE DEF g
<1>7. g[1] = f[2] /\ g[n + 1] = c
  BY <1>3, <1>4, <1>6
<1>8. ASSUME NEW i \in 1 .. n
      PROVE  May(w, Tail(t)[i], g[i]) /\ g[i + 1] = After(Tail(t)[i], g[i])
  <2>1. /\ i + 1 \in 1 .. Len(t) /\ i \in 1 .. n + 1 /\ i + 1 \in 1 .. n + 1
        /\ Tail(t)[i] = t[i + 1]
    BY <1>2, <1>4
  <2>2. g[i] = f[i + 1] /\ g[i + 1] = f[(i + 1) + 1]
    BY <1>6, <2>1
  <2> QED BY <1>3, <2>1, <2>2
<1>9. Leads(w, Tail(t), f[2], c)
  BY <1>2, <1>6, <1>7, <1>8 DEF Leads
<1> QED BY <1>2, <1>5, <1>9

\* A program has labels at both ends.
LEMMA LeadsLabels ==
    ASSUME NEW w, NEW t, NEW a, NEW b, Leads(w, t, a, b)
    PROVE  a \in Label /\ b \in Label
<1>1. Len(t) \in Nat
  BY LenProperties DEF Leads
<1>2. 1 \in 1 .. Len(t) + 1 /\ Len(t) + 1 \in 1 .. Len(t) + 1
  BY <1>1
<1> QED BY <1>2 DEF Leads

-----------------------------------------------------------------------------
(***************************************************************************)
(* The functions that print                                                *)
(***************************************************************************)
\* A label is what it was made of.
LEMMA MarkFacts ==
    ASSUME NEW h \in Nat, NEW n \in Nat, NEW c \in Hue
    PROVE  /\ Mark(h, n, c) \in Label /\ Mark(h, n, c).held = h
           /\ Mark(h, n, c).done = n /\ Mark(h, n, c).hue = c
BY DEF Mark, Label

LEMMA LabelFacts ==
    ASSUME NEW a \in Label
    PROVE  /\ a.held \in Nat /\ a.done \in Nat /\ a.hue \in Hue
           /\ a = Mark(a.held, a.done, a.hue)
BY DEF Mark, Label

\* The two steps on the lock.
LEMMA AcquireLeads ==
    ASSUME NEW w, NEW h \in Nat, NEW n \in Nat, NEW c \in Hue
    PROVE  Leads(w, <<[op |-> "acquire"]>>, Mark(h, n, c), Mark(h + 1, n, c))
<1> DEFINE x == [op |-> "acquire"]
           a == Mark(h, n, c)
<1>1. a \in Label /\ a.held = h /\ a.done = n /\ a.hue = c
  BY MarkFacts
<1> HIDE DEF a
<1>2. x \in Steps(w) /\ May(w, x, a)
  BY DEF Steps, May
<1>3. After(x, a) = Mark(h + 1, n, c)
  BY <1>1 DEF After
<1>4. Mark(h + 1, n, c) \in Label
  BY MarkFacts
<1> HIDE DEF x
<1> QED BY <1>1, <1>2, <1>3, <1>4, LeadsOne DEF x, a

LEMMA ReleaseLeads ==
    ASSUME NEW w, NEW h \in Nat, NEW n \in Nat, NEW c \in Hue,
           h = 0 => c = default /\ ~(Manner[w] # "printf" /\ n \in 1 .. Len(Text[w]) - 1)
    PROVE  Leads(w, <<[op |-> "release"]>>, Mark(h + 1, n, c), Mark(h, n, c))
<1> DEFINE x == [op |-> "release"]
           a == Mark(h + 1, n, c)
<1>1. a \in Label /\ a.held = h + 1 /\ a.done = n /\ a.hue = c
  BY MarkFacts
<1> HIDE DEF a
<1>2. x \in Steps(w) /\ May(w, x, a)
  BY <1>1 DEF Steps, May, Between
<1>3. After(x, a) = Mark(h, n, c)
  <2>1. a.held - 1 = h
    BY <1>1
  <2> QED BY <1>1, <2>1 DEF After
<1>4. Mark(h, n, c) \in Label
  BY MarkFacts
<1> HIDE DEF x
<1> QED BY <1>1, <1>2, <1>3, <1>4, LeadsOne DEF x, a

\* Steps between an acquisition of vga_lock and its release.
LEMMA LockedLeads ==
    ASSUME NEW w, NEW t, NEW h \in Nat, NEW m \in Nat, NEW b \in Hue,
           NEW n \in Nat, NEW c \in Hue, Leads(w, t, Mark(h + 1, m, b), Mark(h + 1, n, c)),
           h = 0 => c = default /\ ~(Manner[w] # "printf" /\ n \in 1 .. Len(Text[w]) - 1)
    PROVE  Leads(w, Locked(t), Mark(h, m, b), Mark(h, n, c))
<1>1. Leads(w, <<[op |-> "acquire"]>>, Mark(h, m, b), Mark(h + 1, m, b))
  BY AcquireLeads
<1>2. Leads(w, <<[op |-> "acquire"]>> \o t, Mark(h, m, b), Mark(h + 1, n, c))
  BY <1>1, LeadsThen
<1>3. Leads(w, <<[op |-> "release"]>>, Mark(h + 1, n, c), Mark(h, n, c))
  BY ReleaseLeads
<1> QED BY <1>2, <1>3, LeadsThen DEF Locked

\* One character, and one colour, under the lock.
LEMMA PutcLeads ==
    ASSUME NEW w \in Writer, TextsAreReadable, NEW h \in Nat, NEW n \in Nat, NEW c \in Hue,
           n < Len(Text[w]), c = HueOf(w), h = 0 => Manner[w] = "printf"
    PROVE  Leads(w, VGA_putc(Text[w][n + 1]), Mark(h, n, c), Mark(h, n + 1, c))
<1> DEFINE x == [op |-> "putc", char |-> Text[w][n + 1]]
           a == Mark(h + 1, n, c)
<1>1. a \in Label /\ a.held = h + 1 /\ a.done = n /\ a.hue = c
  BY MarkFacts
<1> HIDE DEF a
<1>2. n + 1 \in DOMAIN Text[w]
  <2>1. Text[w] \in Seq(ToSet(Text[w]))
    BY DEF TextsAreReadable
  <2>2. DOMAIN Text[w] = 1 .. Len(Text[w]) /\ Len(Text[w]) \in Nat
    BY <2>1, LenProperties
  <2> QED BY <2>2
<1>3. x \in Steps(w)
  BY <1>2 DEF Steps, ToSet
<1>4. x.op = "putc" /\ x.char = Text[w][n + 1]
  OBVIOUS
<1> HIDE DEF x
<1>5. May(w, x, a)
  BY <1>1, <1>4 DEF May
<1>6. After(x, a) = Mark(h + 1, n + 1, c)
  BY <1>1, <1>4 DEF After
<1>7. Mark(h + 1, n + 1, c) \in Label
  BY MarkFacts
<1>8. Leads(w, <<x>>, a, Mark(h + 1, n + 1, c))
  BY <1>1, <1>3, <1>5, <1>6, <1>7, LeadsOne
<1>9. h = 0 => c = default
  BY DEF HueOf
<1>10. PICK m \in Nat : m = n + 1
  OBVIOUS
<1>11. PICK t : t = <<x>>
  OBVIOUS
<1>12. Leads(w, t, Mark(h + 1, n, c), Mark(h + 1, m, c))
  BY <1>8, <1>10, <1>11 DEF a
<1>13. Leads(w, Locked(t), Mark(h, n, c), Mark(h, m, c))
  BY <1>9, <1>12, LockedLeads
<1> QED BY <1>10, <1>11, <1>13 DEF VGA_putc, x

LEMMA ColorLeads ==
    ASSUME NEW w, NEW h \in Nat, h > 0, NEW n \in Nat, NEW b \in Hue, NEW c \in Hue
    PROVE  Leads(w, VGA_setCurrentColor(c), Mark(h, n, b), Mark(h, n, c))
<1> DEFINE x == [op |-> "color", color |-> c]
           a == Mark(h + 1, n, b)
<1>1. a \in Label /\ a.held = h + 1 /\ a.done = n /\ a.hue = b
  BY MarkFacts
<1> HIDE DEF a
<1>2. x \in Steps(w) /\ May(w, x, a)
  BY <1>1 DEF Steps, May
<1>3. After(x, a) = Mark(h + 1, n, c)
  BY <1>1 DEF After
<1>4. Mark(h + 1, n, c) \in Label
  BY MarkFacts
<1> HIDE DEF x
<1>5. Leads(w, <<x>>, a, Mark(h + 1, n, c))
  BY <1>1, <1>2, <1>3, <1>4, LeadsOne
<1>6. PICK t : t = <<x>>
  OBVIOUS
<1>7. Leads(w, t, Mark(h + 1, n, b), Mark(h + 1, n, c))
  BY <1>5, <1>6 DEF a
<1>8. Leads(w, Locked(t), Mark(h, n, b), Mark(h, n, c))
  <2>1. h # 0
    OBVIOUS
  <2> QED BY <1>7, <2>1, LockedLeads
<1> QED BY <1>6, <1>8 DEF VGA_setCurrentColor, x

\* Sequences one after the other, in turns.
LEMMA FlattenTurns ==
    ASSUME NEW seqs, NEW n \in Nat \ {0}, Len(seqs) = n
    PROVE  \E f : /\ f[1] = seqs[1] /\ f[n] = FlattenSeq(seqs)
                  /\ \A i \in 2 .. n : f[i] = f[i - 1] \o seqs[i]
<1> DEFINE L(f, k) == f = [i \in 1 .. k |-> IF i = 1 THEN seqs[i] ELSE f[i - 1] \o seqs[i]]
           I == {k \in 0 .. n : ~ \E f : L(f, k)}
<1>1. 0 \notin I
  <2> DEFINE f == [i \in 1 .. 0 |-> seqs[i]]
  <2>1. \A i \in 1 .. 0 : f[i] = IF i = 1 THEN seqs[i] ELSE f[i - 1] \o seqs[i]
    OBVIOUS
  <2>2. L(f, 0)
    <3> HIDE DEF f
    <3> SUFFICES f = [i \in 1 .. 0 |-> f[i]]
      BY <2>1
    <3> QED BY Zenon DEF f
  <2> HIDE DEF f, L
  <2> QED BY <2>2
<1>2. ASSUME NEW k \in 1 .. n, k - 1 \notin I PROVE k \notin I
  <2>1. PICK f : L(f, k - 1)
    <3>1. k - 1 \in 0 .. n
      OBVIOUS
    <3> HIDE DEF L
    <3> QED BY <1>2, <3>1
  <2> DEFINE g == [i \in 1 .. k |-> IF i = k THEN IF k = 1 THEN seqs[1] ELSE f[k - 1] \o seqs[k]
                                    ELSE f[i]]
  <2>2. ASSUME NEW i \in 1 .. k
        PROVE  g[i] = IF i = 1 THEN seqs[i] ELSE g[i - 1] \o seqs[i]
    <3>1. \A j \in 1 .. k - 1 : f[j] = IF j = 1 THEN seqs[j] ELSE f[j - 1] \o seqs[j]
      BY <2>1
    <3>2. CASE i = k
      BY <3>2
    <3>3. CASE i # k
      <4>1. i \in 1 .. k - 1 /\ (i # 1 => i - 1 \in 1 .. k - 1)
        BY <3>3
      <4>2. g[i] = f[i] /\ (i # 1 => g[i - 1] = f[i - 1])
        BY <3>3, <4>1
      <4> HIDE DEF g
      <4> QED BY <3>1, <4>1, <4>2
    <3> QED BY <3>2, <3>3
  <2>3. L(g, k)
    <3> HIDE DEF g
    <3> SUFFICES g = [i \in 1 .. k |-> g[i]]
      BY <2>2
    <3> QED BY Zenon DEF g
  <2> QED BY <2>3
<1> HIDE DEF L
<1>3. I = {}
  <2> HIDE DEF I
  <2>1. I \subseteq 0 .. n
    BY DEF I
  <2> QED BY <1>1, <1>2, <2>1, NoFirst
<1>4. PICK f : L(f, n)
  BY <1>3
<1>5. PICK g : L(g, n) /\ g[n] = FlattenSeq(seqs)
  BY <1>4 DEF FlattenSeq, L
<1>6. \A i \in 1 .. n : g[i] = IF i = 1 THEN seqs[i] ELSE g[i - 1] \o seqs[i]
  BY <1>5 DEF L
<1>7. g[1] = seqs[1] /\ \A i \in 2 .. n : g[i] = g[i - 1] \o seqs[i]
  <2>1. 1 \in 1 .. n
    OBVIOUS
  <2>2. ASSUME NEW i \in 2 .. n PROVE g[i] = g[i - 1] \o seqs[i]
    <3>1. i \in 1 .. n /\ i # 1
      OBVIOUS
    <3> QED BY <1>6, <3>1, Zenon
  <2> QED BY <1>6, <2>1, <2>2
<1> QED BY <1>5, <1>7

\* All characters of the text, one after the other.
LEMMA CharsLeads ==
    ASSUME NEW w \in Writer, TextsAreReadable, NEW h \in Nat, NEW c \in Hue,
           c = HueOf(w), h = 0 => Manner[w] = "printf"
    PROVE  Leads(w, Chars(Text[w]), Mark(h, 0, c), Mark(h, Len(Text[w]), c))
<1> DEFINE s == Text[w]
           n == Len(s)
           seqs == [k \in DOMAIN s |-> VGA_putc(s[k])]
<1>1. s \in Seq(ToSet(s)) /\ n \in Nat /\ DOMAIN s = 1 .. n
  BY LenProperties DEF TextsAreReadable
<1>2. Chars(s) = FlattenSeq(seqs)
  BY DEF Chars
<1>3. /\ Len(seqs) = n
      /\ n = 0 => seqs = <<>>
      /\ \A k \in 1 .. n : seqs[k] = VGA_putc(s[k])
  <2>1. DOMAIN seqs = 1 .. n
    BY <1>1
  <2>2. Len(seqs) = n
    BY <1>1, <2>1
  <2>3. seqs \in Seq({VGA_putc(s[k]) : k \in 1 .. n})
    BY <1>1
  <2>4. n = 0 => seqs = <<>>
    BY <2>2, <2>3, EmptySeq
  <2> QED BY <1>1, <2>2, <2>4
<1>4. ASSUME NEW k \in 1 .. n
      PROVE  Leads(w, seqs[k], Mark(h, k - 1, c), Mark(h, k, c))
  <2>1. k - 1 \in Nat /\ (k - 1) + 1 = k /\ k - 1 < n
    BY <1>1
  <2>2. PICK i \in Nat : i = k - 1
    BY <2>1
  <2>3. Leads(w, VGA_putc(s[i + 1]), Mark(h, i, c), Mark(h, i + 1, c))
    BY <2>1, <2>2, PutcLeads
  <2>4. i + 1 = k
    BY <2>1, <2>2
  <2> QED BY <1>3, <2>2, <2>3, <2>4
<1> HIDE DEF seqs
<1>5. CASE n = 0
  <2>1. FlattenSeq(seqs) = <<>>
    BY <1>3, <1>5 DEF FlattenSeq
  <2>2. Mark(h, 0, c) \in Label
    BY MarkFacts
  <2> QED BY <1>2, <1>5, <2>1, <2>2, LeadsNowhere
<1>6. CASE n # 0
  <2>1. PICK f : /\ f[1] = seqs[1] /\ f[n] = FlattenSeq(seqs)
                 /\ \A i \in 2 .. n : f[i] = f[i - 1] \o seqs[i]
    <3>1. n \in Nat \ {0}
      BY <1>1, <1>6
    <3> HIDE DEF n
    <3> QED BY <1>3, <3>1, FlattenTurns
  <2> DEFINE I == {i \in 1 .. n : ~Leads(w, f[i], Mark(h, 0, c), Mark(h, i, c))}
  <2>2. 1 \notin I
    <3>1. 1 \in 1 .. n /\ 1 - 1 = 0
      BY <1>1, <1>6
    <3> QED BY <1>4, <2>1, <3>1
  <2>3. ASSUME NEW i \in 1 .. n, i - 1 \notin I PROVE i \notin I
    <3>1. CASE i = 1
      BY <2>2, <3>1
    <3>2. CASE i # 1
      <4>1. i \in 2 .. n /\ i - 1 \in 1 .. n
        BY <3>2
      <4>2. Leads(w, f[i - 1], Mark(h, 0, c), Mark(h, i - 1, c))
        BY <2>3, <4>1
      <4>3. Leads(w, seqs[i], Mark(h, i - 1, c), Mark(h, i, c))
        BY <1>4
      <4>4. f[i] = f[i - 1] \o seqs[i]
        BY <2>1, <4>1
      <4>5. Leads(w, f[i - 1] \o seqs[i], Mark(h, 0, c), Mark(h, i, c))
        BY <4>2, <4>3, LeadsThen
      <4> QED BY <4>4, <4>5
    <3> QED BY <3>1, <3>2
  <2>4. I = {}
    <3>1. I \subseteq 0 .. n /\ 0 \notin I
      OBVIOUS
    <3> HIDE DEF I
    <3> QED BY <1>1, <2>3, <3>1, NoFirst
  <2>5. Leads(w, f[n], Mark(h, 0, c), Mark(h, n, c))
    BY <1>1, <1>6, <2>4
  <2> QED BY <1>2, <2>1, <2>5
<1> QED BY <1>5, <1>6

\* The characters under one lock, in the colour that is set.
LEMMA PutsLeads ==
    ASSUME NEW w \in Writer, TextsAreReadable, NEW h \in Nat, NEW c \in Hue,
           c = HueOf(w), h = 0 => c = default
    PROVE  Leads(w, VGA_puts(Text[w]), Mark(h, 0, c), Mark(h, Len(Text[w]), c))
<1> DEFINE n == Len(Text[w])
<1>1. n \in Nat /\ n \notin 1 .. n - 1
  <2>1. n \in Nat
    BY LenProperties DEF TextsAreReadable
  <2> HIDE DEF n
  <2> QED BY <2>1
<1>2. Leads(w, Chars(Text[w]), Mark(h + 1, 0, c), Mark(h + 1, n, c))
  BY CharsLeads
<1>3. Leads(w, Locked(Chars(Text[w])), Mark(h, 0, c), Mark(h, n, c))
  BY <1>1, <1>2, LockedLeads
<1> QED BY <1>3 DEF VGA_puts

\* Whatever a writer prints, and however, it comes to the end of its text
\* without the lock and with the colour as it was.
LEMMA PrintsLeads ==
    ASSUME NEW w \in Writer, TextsAreReadable
    PROVE  Leads(w, Prints(w), Start, End(w))
<1> DEFINE n == Len(Text[w])
<1>1. n \in Nat /\ n \notin 1 .. n - 1
  <2>1. n \in Nat
    BY LenProperties DEF TextsAreReadable
  <2> HIDE DEF n
  <2> QED BY <2>1
<1>2. Start = Mark(0, 0, default) /\ End(w) = Mark(0, n, default) /\ default \in Hue
  BY DEF Start, End, Hue
<1>3. Manner[w] \in {"printf", "puts", "colored"}
  BY ScreenAssumption
<1>4. CASE Manner[w] = "printf"
  <2>1. Prints(w) = Chars(Text[w]) /\ HueOf(w) = default
    BY <1>4 DEF Prints, printf, HueOf
  <2> QED BY <1>2, <1>4, <2>1, CharsLeads
<1>5. CASE Manner[w] = "puts"
  <2>1. Prints(w) = VGA_puts(Text[w]) /\ HueOf(w) = default
    BY <1>5 DEF Prints, HueOf
  <2> QED BY <1>2, <2>1, PutsLeads
<1>6. CASE Manner[w] = "colored"
  <2> DEFINE c == Colour[w]
             u == VGA_setCurrentColor(c)
             v == VGA_puts(Text[w])
             z == VGA_setCurrentColor(default)
  <2>1. Prints(w) = Locked((u \o v) \o z) /\ HueOf(w) = c
    BY <1>6 DEF Prints, VGA_coloredPuts, VGA_setColorToDefault, VGA_setCurrentColor, HueOf
  <2>2. c \in Hue
    BY DEF Hue
  <2>3. Leads(w, u, Mark(1, 0, default), Mark(1, 0, c))
    BY <1>2, <2>2, ColorLeads
  <2>4. Leads(w, v, Mark(1, 0, c), Mark(1, n, c))
    BY <2>1, <2>2, PutsLeads
  <2>5. Leads(w, z, Mark(1, n, c), Mark(1, n, default))
    BY <1>1, <1>2, <2>2, ColorLeads
  <2> HIDE DEF u, v, z
  <2>6. Leads(w, (u \o v) \o z, Mark(1, 0, default), Mark(1, n, default))
    BY <2>3, <2>4, <2>5, LeadsThen
  <2>7. Leads(w, Locked((u \o v) \o z), Mark(0, 0, default), Mark(0, n, default))
    <3>1. 0 + 1 = 1
      OBVIOUS
    <3> QED BY <1>1, <1>2, <2>6, <3>1, LockedLeads
  <2> QED BY <1>2, <2>1, <2>7
<1> QED BY <1>3, <1>4, <1>5, <1>6

-----------------------------------------------------------------------------
(***************************************************************************)
(* Strings on the screen                                                   *)
(***************************************************************************)

\* Behind the cursor there is nothing.
Clean(s) == \A i \in DOMAIN s.cells : i >= CursorAt(s) => s.cells[i].char = " "

\* No writer is inside of a string, at the counts D of characters printed.
Quiet(D) == \A w \in Writer : Manner[w] # "printf" => D[w] \notin 1 .. Len(Text[w]) - 1

\* The characters of a text have the colour of its writer.
Coloured(s) ==
    /\ \A i \in DOMAIN s.cells : s.cells[i].char \notin {"\n", "\t"}
    /\ \A w \in Writer, i \in DOMAIN s.cells : s.cells[i].char \in Ink(w) =>
           s.cells[i].color = HueOf(w)

\* Behind a character of a string comes the next one, or the cursor while the
\* writer is there.
Joined(s, D) ==
    \A w \in Writer, i \in DOMAIN s.cells : \A k \in 1 .. Len(Text[w]) - 1 :
        Manner[w] # "printf" /\ s.cells[i].char = Text[w][k] =>
            IF i + 1 = CursorAt(s) THEN D[w] = k ELSE s.cells[i + 1].char = Text[w][k + 1]

Whole(s, D) == Clean(s) /\ Coloured(s) /\ Joined(s, D)

\* The last n cells in front of the cursor show nothing of a text.
Own(s, n) ==
    \A i \in DOMAIN s.cells :
        CursorAt(s) - n <= i /\ i < CursorAt(s) => \A w \in Writer : s.cells[i].char \notin Ink(w)

\* Nothing of a text is a blank, or typed by the user, or of another text.
LEMMA InkFacts ==
    ASSUME TextsAreReadable, NEW w \in Writer
    PROVE  /\ " " \notin Ink(w) /\ "\n" \notin Ink(w) /\ "\t" \notin Ink(w)
           /\ \A v \in Writer : \A c \in Ink(w) : c \in Ink(v) => v = w
           /\ \A c \in Ink(w) : c \notin KeyChar /\ c # ">"
<1>1. /\ ToSet(Text[w]) \cap {" ", "\r", BS} = {}
      /\ Ink(w) \cap (KeyChar \cup {">"}) = {}
      /\ \A v \in Writer \ {w} : Ink(w) \cap Ink(v) = {}
  BY DEF TextsAreReadable
<1>2. " " \notin Ink(w) /\ "\n" \notin Ink(w) /\ "\t" \notin Ink(w)
  BY <1>1 DEF Ink
<1>3. \A v \in Writer : \A c \in Ink(w) : c \in Ink(v) => v = w
  BY <1>1
<1>4. \A c \in Ink(w) : c \notin KeyChar /\ c # ">"
  BY <1>1
<1> QED BY <1>2, <1>3, <1>4

\* The characters of a text, no two alike.
LEMMA TextFacts ==
    ASSUME TextsAreReadable, NEW w \in Writer
    PROVE  /\ Len(Text[w]) \in Nat
           /\ \A k \in 1 .. Len(Text[w]) :
                  /\ Text[w][k] \in ToSet(Text[w])
                  /\ Text[w][k] \notin {"\r", BS}
                  /\ Text[w][k] \notin {"\n", "\t"} => Text[w][k] \in Ink(w)
                  /\ Manner[w] # "printf" => Text[w][k] \in Ink(w)
           /\ \A k \in 1 .. Len(Text[w]) - 1 :
                  k \in 1 .. Len(Text[w]) /\ k + 1 \in 1 .. Len(Text[w])
           /\ \A k, l \in 1 .. Len(Text[w]) : Text[w][k] = Text[w][l] => k = l
<1>1. /\ Text[w] \in Seq(ToSet(Text[w]))
      /\ ToSet(Text[w]) \cap {" ", "\r", BS} = {}
      /\ Manner[w] # "printf" => ToSet(Text[w]) = Ink(w)
  BY DEF TextsAreReadable
<1>2. Len(Text[w]) \in Nat /\ DOMAIN Text[w] = 1 .. Len(Text[w])
  BY <1>1, LenProperties
<1>3. \A k \in 1 .. Len(Text[w]) : Text[w][k] \in ToSet(Text[w])
  BY <1>2 DEF ToSet
<1>4. ASSUME NEW k \in 1 .. Len(Text[w])
      PROVE  /\ Text[w][k] \in ToSet(Text[w])
             /\ Text[w][k] \notin {"\r", BS}
             /\ Text[w][k] \notin {"\n", "\t"} => Text[w][k] \in Ink(w)
             /\ Manner[w] # "printf" => Text[w][k] \in Ink(w)
  <2>1. PICK c : c = Text[w][k] /\ c \in ToSet(Text[w])
    BY <1>3
  <2>2. c \notin {"\n", "\t"} => c \in Ink(w)
    BY <2>1 DEF Ink
  <2>3. c \notin {"\r", BS} /\ (Manner[w] # "printf" => c \in Ink(w))
    BY <1>1, <2>1
  <2> QED BY <2>1, <2>2, <2>3
<1>5. \A k, l \in 1 .. Len(Text[w]) : Text[w][k] = Text[w][l] => k = l
  BY <1>2, ScreenAssumption DEF IsInjective
<1>6. \A k \in 1 .. Len(Text[w]) - 1 : k \in 1 .. Len(Text[w]) /\ k + 1 \in 1 .. Len(Text[w])
  BY <1>2
<1> QED BY <1>2, <1>4, <1>5, <1>6

\* t shows what s shows in front of the cursor, d cells further up and
\* nothing else; the cursor of t is e cells behind it.
Shifted(t, s, d, e) ==
    /\ CursorAt(t) = CursorAt(s) - d + e
    /\ DOMAIN t.cells = DOMAIN s.cells
    /\ \A i \in DOMAIN s.cells :
           IF i + d < CursorAt(s) THEN t.cells[i] = s.cells[i + d] ELSE t.cells[i].char = " "

LEMMA BlankFacts == \A color : Blank(color).char = " "
BY DEF Blank

LEMMA SizeFacts ==
    ASSUME NEW s, ScreenOK(s)
    PROVE  \E z \in Nat : DOMAIN s.cells = 0 .. z - 1 /\ CursorAt(s) \in 0 .. z
BY CursorFacts DEF ScreenOK

\* A new line.
LEMMA NewLineShifts ==
    ASSUME NEW s, ScreenOK(s), Clean(s)
    PROVE  \E d \in Nat, e \in Nat : /\ Shifted(NewLine(s), s, d, e)
                                     /\ s.column = WIDTH => e = 0
<1> DEFINE t == NewLine(s)
           c == WIDTH * HEIGHT
           e == WIDTH - s.column
<1>1. /\ DOMAIN s = {"line", "column", "color", "cells"}
      /\ s.line \in 0 .. HEIGHT - 1 /\ s.column \in 0 .. WIDTH
      /\ DOMAIN s.cells = 0 .. c - 1
  BY DEF ScreenOK
<1>2. /\ WIDTH \in Nat \ {0} /\ HEIGHT \in Nat \ {0} /\ c \in Nat
      /\ s.line * WIDTH \in Nat
      /\ (s.line + 1) * WIDTH = s.line * WIDTH + WIDTH
      /\ CursorAt(s) \in 0 .. c
  BY <1>1, LineFacts, CursorFacts
<1> HIDE DEF c
<1>3. e \in Nat /\ (s.column = WIDTH => e = 0)
  BY <1>1, <1>2
<1>4. CASE s.line < HEIGHT - 1
  <2>1. t = [s EXCEPT !.line = @ + 1, !.column = 0]
    BY <1>4 DEF NewLine
  <2>2. t.line = s.line + 1 /\ t.column = 0 /\ t.cells = s.cells
    BY <1>1, <2>1
  <2> HIDE DEF t
  <2>3. CursorAt(t) = CursorAt(s) - 0 + e
    <3>1. CursorAt(t) = (s.line + 1) * WIDTH + 0 /\ CursorAt(s) = s.line * WIDTH + s.column
      BY <2>2 DEF CursorAt
    <3> QED BY <1>1, <1>2, <3>1
  <2>4. ASSUME NEW i \in DOMAIN s.cells
        PROVE  IF i + 0 < CursorAt(s) THEN t.cells[i] = s.cells[i + 0] ELSE t.cells[i].char = " "
    <3>1. i + 0 = i /\ (~(i < CursorAt(s)) => i >= CursorAt(s))
      BY <1>1, <1>2
    <3> QED BY <2>2, <3>1 DEF Clean
  <2>5. Shifted(t, s, 0, e)
    BY <2>2, <2>3, <2>4 DEF Shifted
  <2> QED BY <1>3, <2>5 DEF t
<1>5. CASE ~(s.line < HEIGHT - 1)
  <2>1. t = [ScrollUp(s) EXCEPT !.column = 0]
    BY <1>5 DEF NewLine
  <2>2. /\ t.line = s.line /\ t.column = 0
        /\ t.cells = [i \in DOMAIN s.cells |->
               IF i + WIDTH \in DOMAIN s.cells THEN s.cells[i + WIDTH] ELSE Blank(s.color)]
    BY <1>1, <2>1 DEF ScrollUp
  <2> HIDE DEF t
  <2>3. CursorAt(t) = CursorAt(s) - WIDTH + e
    <3>1. CursorAt(t) = s.line * WIDTH + 0 /\ CursorAt(s) = s.line * WIDTH + s.column
      BY <2>2 DEF CursorAt
    <3> QED BY <1>1, <1>2, <3>1
  <2>4. ASSUME NEW i \in DOMAIN s.cells
        PROVE  IF i + WIDTH < CursorAt(s) THEN t.cells[i] = s.cells[i + WIDTH]
               ELSE t.cells[i].char = " "
    <3>1. CASE i + WIDTH \in DOMAIN s.cells
      <4>1. t.cells[i] = s.cells[i + WIDTH]
        BY <2>2, <3>1
      <4>2. ~(i + WIDTH < CursorAt(s)) => i + WIDTH >= CursorAt(s)
        BY <1>1, <1>2
      <4> QED BY <3>1, <4>1, <4>2 DEF Clean
    <3>2. CASE i + WIDTH \notin DOMAIN s.cells
      <4>1. t.cells[i] = Blank(s.color)
        BY <2>2, <3>2
      <4>2. ~(i + WIDTH < CursorAt(s))
        BY <1>1, <1>2, <3>2
      <4>3. t.cells[i].char = " "
        BY <4>1, BlankFacts
      <4> QED BY <4>2, <4>3
    <3> QED BY <3>1, <3>2
  <2>5. Shifted(t, s, WIDTH, e)
    BY <2>2, <2>3, <2>4 DEF Shifted
  <2> QED BY <1>2, <1>3, <2>5 DEF t
<1> QED BY <1>4, <1>5

\* A line that is full ends where the next begins.
LEMMA WrappedShifts ==
    ASSUME NEW s, ScreenOK(s), Clean(s)
    PROVE  \E d \in Nat : Shifted(Wrapped(s), s, d, 0)
<1>1. CASE s.column = WIDTH
  BY <1>1, NewLineShifts DEF Wrapped
<1>2. CASE s.column # WIDTH
  <2>1. Wrapped(s) = s
    BY <1>2 DEF Wrapped
  <2>2. PICK z \in Nat : DOMAIN s.cells = 0 .. z - 1 /\ CursorAt(s) \in 0 .. z
    BY SizeFacts
  <2>3. CursorAt(s) = CursorAt(s) - 0 + 0
    BY <2>2
  <2>4. ASSUME NEW i \in DOMAIN s.cells
        PROVE  IF i + 0 < CursorAt(s) THEN s.cells[i] = s.cells[i + 0] ELSE s.cells[i].char = " "
    <3>1. i + 0 = i /\ (~(i < CursorAt(s)) => i >= CursorAt(s))
      BY <2>2
    <3> QED BY <3>1 DEF Clean
  <2>5. Shifted(s, s, 0, 0)
    BY <2>3, <2>4 DEF Shifted
  <2> QED BY <2>1, <2>5
<1> QED BY <1>1, <1>2

\* A tabulator.
LEMMA TabulatedShifts ==
    ASSUME NEW s, ScreenOK(s), s.column < WIDTH, Clean(s)
    PROVE  \E e \in Nat \ {0} : Shifted(Tabulated(s), s, 0, e)
<1> DEFINE n == TAB - (s.column % TAB)
           t == Tabulated(s)
<1>1. /\ DOMAIN s = {"line", "column", "color", "cells"}
      /\ s.line \in Int /\ s.column \in 0 .. WIDTH - 1 /\ WIDTH \in Nat
      /\ s.line * WIDTH \in Nat
  BY ScreenAssumption, LineFacts DEF ScreenOK
<1>2. n \in Nat \ {0}
  <2>1. TAB \in Nat \ {0} /\ s.column % TAB \in 0 .. TAB - 1
    BY <1>1, ScreenAssumption
  <2> QED BY <2>1
<1>3. t = [s EXCEPT !.column = @ + n,
                    !.cells = [i \in DOMAIN @ |->
                        IF i \in CursorAt(s) .. CursorAt(s) + n - 1 THEN Blank(s.color)
                        ELSE @[i]]]
  BY DEF Tabulated
<1> HIDE DEF n, t
<1>4. /\ t.line = s.line /\ t.column = s.column + n
      /\ t.cells = [i \in DOMAIN s.cells |->
             IF i \in CursorAt(s) .. CursorAt(s) + n - 1 THEN Blank(s.color) ELSE s.cells[i]]
  BY <1>1, <1>3
<1>5. PICK z \in Nat : DOMAIN s.cells = 0 .. z - 1 /\ CursorAt(s) \in 0 .. z
  BY SizeFacts
<1>6. CursorAt(t) = CursorAt(s) - 0 + n
  BY <1>1, <1>2, <1>4 DEF CursorAt
<1>7. ASSUME NEW i \in DOMAIN s.cells
      PROVE  IF i + 0 < CursorAt(s) THEN t.cells[i] = s.cells[i + 0] ELSE t.cells[i].char = " "
  <2>1. i + 0 = i /\ (~(i < CursorAt(s)) => i >= CursorAt(s))
    BY <1>5
  <2>2. CASE i \in CursorAt(s) .. CursorAt(s) + n - 1
    <3>1. t.cells[i] = Blank(s.color) /\ ~(i < CursorAt(s))
      BY <1>2, <1>4, <1>5, <2>2
    <3>2. t.cells[i].char = " "
      BY <3>1, BlankFacts
    <3> QED BY <2>1, <3>1, <3>2
  <2>3. CASE i \notin CursorAt(s) .. CursorAt(s) + n - 1
    BY <1>4, <2>1, <2>3 DEF Clean
  <2> QED BY <2>2, <2>3
<1>8. DOMAIN t.cells = DOMAIN s.cells
  BY <1>4
<1>9. Shifted(t, s, 0, n)
  BY <1>6, <1>7, <1>8 DEF Shifted
<1> QED BY <1>2, <1>9 DEF t

\* Strings stay whole when the screen scrolls, and when the cursor leaves them
\* behind while no writer is inside of one.
LEMMA ShiftedWhole ==
    ASSUME TextsAreReadable, NEW s, ScreenOK(s), NEW t, ScreenOK(t), NEW D, Whole(s, D),
           NEW d \in Nat, NEW e \in Nat, Shifted(t, s, d, e), e = 0 \/ Quiet(D)
    PROVE  Whole(t, D)
<1>1. PICK z \in Nat : DOMAIN s.cells = 0 .. z - 1 /\ CursorAt(s) \in 0 .. z
  BY SizeFacts
<1>2. DOMAIN t.cells = 0 .. z - 1 /\ CursorAt(t) = CursorAt(s) - d + e
  BY <1>1 DEF Shifted
<1>3. ASSUME NEW i \in 0 .. z - 1
      PROVE  \/ t.cells[i].char = " "
             \/ /\ i + d \in 0 .. z - 1 /\ i + d < CursorAt(s) /\ t.cells[i] = s.cells[i + d]
                /\ i < CursorAt(t)
  <2>1. CASE i + d < CursorAt(s)
    <3>1. t.cells[i] = s.cells[i + d]
      BY <1>1, <2>1 DEF Shifted
    <3>2. i + d \in 0 .. z - 1 /\ i < CursorAt(t)
      BY <1>1, <1>2, <2>1
    <3> QED BY <2>1, <3>1, <3>2
  <2>2. CASE ~(i + d < CursorAt(s))
    BY <1>1, <2>2 DEF Shifted
  <2> QED BY <2>1, <2>2
<1>4. Clean(t)
  <2> SUFFICES ASSUME NEW i \in 0 .. z - 1, i >= CursorAt(t) PROVE t.cells[i].char = " "
    BY <1>2 DEF Clean
  <2>1. ~(i < CursorAt(t))
    BY <1>1, <1>2
  <2> QED BY <1>3, <2>1
<1>5. \A i \in DOMAIN t.cells : t.cells[i].char \notin {"\n", "\t"}
  BY <1>1, <1>2, <1>3 DEF Whole, Coloured
<1>6. ASSUME NEW w \in Writer, NEW i \in DOMAIN t.cells, t.cells[i].char \in Ink(w)
      PROVE  t.cells[i].color = HueOf(w)
  <2>1. " " \notin Ink(w)
    BY InkFacts
  <2>2. i + d \in 0 .. z - 1 /\ t.cells[i] = s.cells[i + d]
    BY <1>2, <1>3, <1>6, <2>1
  <2> QED BY <1>1, <1>6, <2>2 DEF Whole, Coloured
<1>7. ASSUME NEW w \in Writer, NEW i \in DOMAIN t.cells, NEW k \in 1 .. Len(Text[w]) - 1,
             Manner[w] # "printf", t.cells[i].char = Text[w][k]
      PROVE  IF i + 1 = CursorAt(t) THEN D[w] = k ELSE t.cells[i + 1].char = Text[w][k + 1]
  <2>1. Text[w][k] # " "
    <3>1. Text[w][k] \in Ink(w)
      BY <1>7, TextFacts
    <3>2. " " \notin Ink(w)
      BY InkFacts
    <3> QED BY <3>1, <3>2
  <2>2. /\ i + d \in 0 .. z - 1 /\ i + d < CursorAt(s) /\ t.cells[i] = s.cells[i + d]
        /\ i < CursorAt(t)
    BY <1>2, <1>3, <1>7, <2>1
  <2>3. IF (i + d) + 1 = CursorAt(s) THEN D[w] = k
        ELSE s.cells[(i + d) + 1].char = Text[w][k + 1]
    BY <1>1, <1>7, <2>2 DEF Whole, Joined
  <2>4. CASE (i + d) + 1 = CursorAt(s)
    <3>1. e = 0
      BY <1>7, <2>3, <2>4 DEF Quiet
    <3>2. i + 1 = CursorAt(t)
      BY <1>1, <1>2, <2>4, <3>1
    <3> QED BY <2>3, <2>4, <3>2
  <2>5. CASE (i + d) + 1 # CursorAt(s)
    <3>1. i \in 0 .. z - 1 /\ CursorAt(s) \in 0 .. z
      BY <1>1, <1>2
    <3>2. (i + 1) + d < CursorAt(s) /\ (i + 1) + d = (i + d) + 1 /\ i + 1 \in 0 .. z - 1
      BY <2>2, <2>5, <3>1
    <3>3. i + 1 # CursorAt(t)
      BY <1>2, <3>1, <3>2
    <3>4. t.cells[i + 1] = s.cells[(i + 1) + d]
      BY <1>1, <3>2 DEF Shifted
    <3> QED BY <2>3, <2>5, <3>2, <3>3, <3>4
  <2> QED BY <2>4, <2>5
<1>8. Coloured(t) /\ Joined(t, D)
  BY <1>5, <1>6, <1>7 DEF Coloured, Joined
<1> QED BY <1>4, <1>8 DEF Whole

\* What the user has typed stays in front of the cursor, the new blanks with it.
LEMMA ShiftedOwn ==
    ASSUME TextsAreReadable, NEW s, ScreenOK(s), NEW t, NEW n \in Nat, Own(s, n),
           NEW d \in Nat, NEW e \in Nat, Shifted(t, s, d, e)
    PROVE  Own(t, n + e)
<1>1. PICK z \in Nat : DOMAIN s.cells = 0 .. z - 1 /\ CursorAt(s) \in 0 .. z
  BY SizeFacts
<1>2. DOMAIN t.cells = 0 .. z - 1 /\ CursorAt(t) = CursorAt(s) - d + e
  BY <1>1 DEF Shifted
<1> SUFFICES ASSUME NEW i \in 0 .. z - 1, CursorAt(t) - (n + e) <= i, i < CursorAt(t),
                    NEW w \in Writer
             PROVE  t.cells[i].char \notin Ink(w)
  BY <1>2 DEF Own
<1>3. CASE i + d < CursorAt(s)
  <2>1. i + d \in 0 .. z - 1 /\ CursorAt(s) - n <= i + d
    BY <1>1, <1>2, <1>3
  <2>2. t.cells[i] = s.cells[i + d]
    BY <1>1, <1>3 DEF Shifted
  <2> QED BY <1>1, <1>3, <2>1, <2>2 DEF Own
<1>4. CASE ~(i + d < CursorAt(s))
  <2>1. t.cells[i].char = " "
    BY <1>1, <1>4 DEF Shifted
  <2> QED BY <2>1, InkFacts
<1> QED BY <1>3, <1>4

\* c comes next in every string a writer is inside of, and E counts it.
NextIs(c, D) ==
    \A w \in Writer : \A k \in 1 .. Len(Text[w]) - 1 :
        Manner[w] # "printf" /\ D[w] = k => Text[w][k + 1] = c

Counts(c, E) ==
    \A w \in Writer : \A k \in 1 .. Len(Text[w]) - 1 :
        Manner[w] # "printf" /\ Text[w][k] = c => E[w] = k

\* A character in the cell of the cursor: the next one of each string that is
\* not at its end, and the last one printed of its own.
LEMMA PrintedWhole ==
    ASSUME TextsAreReadable, NEW s, ScreenOK(s), s.column < WIDTH, NEW D, NEW E, Whole(s, D),
           NEW c, c \notin {"\n", "\t"},
           \A w \in Writer : c \in Ink(w) => s.color = HueOf(w),
           NextIs(c, D), Counts(c, E)
    PROVE  Whole(Printed(s, c), E)
<1> DEFINE t == Printed(s, c)
<1>1. PICK z \in Nat : DOMAIN s.cells = 0 .. z - 1 /\ CursorAt(s) \in 0 .. z
  BY SizeFacts
<1>2. /\ CursorAt(t) = CursorAt(s) + 1 /\ CursorAt(s) \in 0 .. z - 1
      /\ DOMAIN t.cells = 0 .. z - 1
      /\ \A i \in 0 .. z - 1 : i # CursorAt(s) => t.cells[i] = s.cells[i]
      /\ t.cells[CursorAt(s)] = [char |-> c, color |-> s.color]
  BY <1>1, PrintedFacts
<1> HIDE DEF t
<1>3. t.cells[CursorAt(s)].char = c /\ t.cells[CursorAt(s)].color = s.color
  BY <1>2
<1>4. \A i \in 0 .. z - 1 : i >= CursorAt(s) => s.cells[i].char = " "
  BY <1>1 DEF Whole, Clean
<1>5. Clean(t)
  <2> SUFFICES ASSUME NEW i \in 0 .. z - 1, i >= CursorAt(t) PROVE t.cells[i].char = " "
    BY <1>2 DEF Clean
  <2>1. i # CursorAt(s) /\ i >= CursorAt(s)
    BY <1>2
  <2> QED BY <1>2, <1>4, <2>1
<1>6. ASSUME NEW i \in 0 .. z - 1 PROVE t.cells[i].char \notin {"\n", "\t"}
  <2>1. CASE i = CursorAt(s)
    BY <1>3, <2>1
  <2>2. CASE i # CursorAt(s)
    BY <1>1, <1>2, <2>2 DEF Whole, Coloured
  <2> QED BY <2>1, <2>2
<1>7. ASSUME NEW w \in Writer, NEW i \in 0 .. z - 1, t.cells[i].char \in Ink(w)
      PROVE  t.cells[i].color = HueOf(w)
  <2>1. CASE i = CursorAt(s)
    BY <1>3, <1>7, <2>1
  <2>2. CASE i # CursorAt(s)
    BY <1>1, <1>2, <1>7, <2>2 DEF Whole, Coloured
  <2> QED BY <2>1, <2>2
<1>8. ASSUME NEW w \in Writer, NEW i \in 0 .. z - 1, NEW k \in 1 .. Len(Text[w]) - 1,
             Manner[w] # "printf", t.cells[i].char = Text[w][k]
      PROVE  IF i + 1 = CursorAt(t) THEN E[w] = k ELSE t.cells[i + 1].char = Text[w][k + 1]
  <2>1. CASE i = CursorAt(s)
    <3>1. Text[w][k] = c
      BY <1>3, <1>8, <2>1
    <3>2. E[w] = k
      BY <1>8, <3>1 DEF Counts
    <3> QED BY <1>2, <2>1, <3>2
  <2>2. CASE i # CursorAt(s)
    <3>1. t.cells[i] = s.cells[i] /\ s.cells[i].char = Text[w][k]
      BY <1>2, <1>8, <2>2
    <3>2. IF i + 1 = CursorAt(s) THEN D[w] = k ELSE s.cells[i + 1].char = Text[w][k + 1]
      BY <1>1, <1>8, <3>1 DEF Whole, Joined
    <3>3. Text[w][k] # " "
      <4>1. Text[w][k] \in Ink(w)
        BY <1>8, TextFacts
      <4>2. " " \notin Ink(w)
        BY InkFacts
      <4> QED BY <4>1, <4>2
    <3>4. i < CursorAt(s)
      <4>1. ~(i >= CursorAt(s))
        BY <1>4, <3>1, <3>3
      <4> QED BY <1>2, <4>1
    <3>5. i + 1 # CursorAt(t) /\ i + 1 \in 0 .. z - 1
      BY <1>2, <3>4
    <3>6. CASE i + 1 = CursorAt(s)
      <4>1. Text[w][k + 1] = c
        BY <1>8, <3>2, <3>6 DEF NextIs
      <4> QED BY <1>3, <3>5, <3>6, <4>1
    <3>7. CASE i + 1 # CursorAt(s)
      BY <1>2, <3>2, <3>5, <3>7
    <3> QED BY <3>6, <3>7
  <2> QED BY <2>1, <2>2
<1>9. Coloured(t)
  BY <1>2, <1>6, <1>7 DEF Coloured
<1>10. Joined(t, E)
  BY <1>2, <1>8 DEF Joined
<1> QED BY <1>5, <1>9, <1>10 DEF Whole, t

LEMMA PrintedOwn ==
    ASSUME NEW s, ScreenOK(s), s.column < WIDTH, NEW n \in Nat, Own(s, n),
           NEW c, \A w \in Writer : c \notin Ink(w)
    PROVE  Own(Printed(s, c), n + 1)
<1> DEFINE t == Printed(s, c)
<1>1. PICK z \in Nat : DOMAIN s.cells = 0 .. z - 1 /\ CursorAt(s) \in 0 .. z
  BY SizeFacts
<1>2. /\ CursorAt(t) = CursorAt(s) + 1
      /\ DOMAIN t.cells = 0 .. z - 1
      /\ \A i \in 0 .. z - 1 : i # CursorAt(s) => t.cells[i] = s.cells[i]
      /\ CursorAt(s) \in 0 .. z - 1 => t.cells[CursorAt(s)] = [char |-> c, color |-> s.color]
  BY <1>1, PrintedFacts
<1> HIDE DEF t
<1>3. ASSUME NEW i \in 0 .. z - 1, CursorAt(t) - (n + 1) <= i, i < CursorAt(t), NEW w \in Writer
      PROVE  t.cells[i].char \notin Ink(w)
  <2>1. CASE i = CursorAt(s)
    <3>1. t.cells[i].char = c
      BY <1>2, <2>1
    <3> QED BY <3>1
  <2>2. CASE i # CursorAt(s)
    <3>1. CursorAt(s) - n <= i /\ i < CursorAt(s)
      BY <1>1, <1>2, <1>3, <2>2
    <3>2. t.cells[i] = s.cells[i]
      BY <1>2, <2>2
    <3> QED BY <1>1, <3>1, <3>2 DEF Own
  <2> QED BY <2>1, <2>2
<1>4. Own(t, n + 1)
  BY <1>2, <1>3 DEF Own
<1> QED BY <1>4 DEF t

\* A backspace rubs out what the user has typed, no text.
LEMMA BackspaceWhole ==
    ASSUME TextsAreReadable, NEW s, ScreenOK(s), NEW D, Whole(s, D), Quiet(D),
           NEW n \in Nat \ {0}, Own(s, n)
    PROVE  Whole(Backspace(s), D) /\ Own(Backspace(s), n - 1)
<1> DEFINE t == Backspace(s)
<1>1. PICK z \in Nat : DOMAIN s.cells = 0 .. z - 1 /\ CursorAt(s) \in 0 .. z
  BY SizeFacts
<1>2. /\ CursorAt(t) = IF CursorAt(s) = 0 THEN 0 ELSE CursorAt(s) - 1
      /\ DOMAIN t.cells = 0 .. z - 1
      /\ \A i \in 0 .. z - 1 : t.cells[i] =
             IF i = CursorAt(t) THEN Blank(s.color) ELSE s.cells[i]
  BY <1>1, BackspaceFacts
<1> HIDE DEF t
<1>3. ASSUME NEW i \in 0 .. z - 1
      PROVE  \/ t.cells[i].char = " "
             \/ i < CursorAt(t) /\ t.cells[i] = s.cells[i]
  <2>1. CASE i = CursorAt(t)
    BY <1>2, <2>1, BlankFacts
  <2>2. CASE i > CursorAt(t)
    <3>1. i >= CursorAt(s) /\ i # CursorAt(t)
      BY <1>1, <1>2, <2>2
    <3>2. s.cells[i].char = " " /\ t.cells[i] = s.cells[i]
      BY <1>1, <1>2, <3>1 DEF Whole, Clean
    <3> QED BY <3>2
  <2>3. CASE i < CursorAt(t)
    <3>1. i # CursorAt(t)
      BY <1>1, <1>2, <2>3
    <3> QED BY <1>2, <2>3, <3>1
  <2>4. i = CursorAt(t) \/ i > CursorAt(t) \/ i < CursorAt(t)
    BY <1>1, <1>2
  <2> QED BY <2>1, <2>2, <2>3, <2>4
<1>4. Clean(t)
  <2> SUFFICES ASSUME NEW i \in 0 .. z - 1, i >= CursorAt(t) PROVE t.cells[i].char = " "
    BY <1>2 DEF Clean
  <2>1. ~(i < CursorAt(t))
    BY <1>1, <1>2
  <2> QED BY <1>3, <2>1
<1>5. \A i \in 0 .. z - 1 : t.cells[i].char \notin {"\n", "\t"}
  BY <1>1, <1>3 DEF Whole, Coloured
<1>6. ASSUME NEW w \in Writer, NEW i \in 0 .. z - 1, t.cells[i].char \in Ink(w)
      PROVE  t.cells[i].color = HueOf(w)
  <2>1. " " \notin Ink(w)
    BY InkFacts
  <2>2. t.cells[i] = s.cells[i]
    BY <1>3, <1>6, <2>1
  <2> QED BY <1>1, <1>6, <2>2 DEF Whole, Coloured
<1>7. ASSUME NEW w \in Writer, NEW i \in 0 .. z - 1, NEW k \in 1 .. Len(Text[w]) - 1,
             Manner[w] # "printf", t.cells[i].char = Text[w][k]
      PROVE  IF i + 1 = CursorAt(t) THEN D[w] = k ELSE t.cells[i + 1].char = Text[w][k + 1]
  <2>1. Text[w][k] # " "
    <3>1. Text[w][k] \in Ink(w)
      BY <1>7, TextFacts
    <3>2. " " \notin Ink(w)
      BY InkFacts
    <3> QED BY <3>1, <3>2
  <2>2. i < CursorAt(t) /\ t.cells[i] = s.cells[i]
    BY <1>3, <1>7, <2>1
  <2>3. IF i + 1 = CursorAt(s) THEN D[w] = k ELSE s.cells[i + 1].char = Text[w][k + 1]
    <3>1. i \in DOMAIN s.cells /\ s.cells[i].char = Text[w][k]
      BY <1>1, <1>7, <2>2
    <3> QED BY <1>7, <3>1 DEF Whole, Joined
  <2>4. CursorAt(s) # 0 /\ CursorAt(t) = CursorAt(s) - 1
    BY <1>1, <1>2, <2>2
  <2>5. i + 1 # CursorAt(s) /\ i + 1 \in 0 .. z - 1 /\ i + 1 < CursorAt(s)
    BY <1>1, <2>2, <2>4
  <2>6. i + 1 # CursorAt(t)
    <3> SUFFICES ASSUME i + 1 = CursorAt(t) PROVE FALSE
      OBVIOUS
    <3>1. CursorAt(s) - n <= i + 1
      BY <1>1, <2>4
    <3>2. s.cells[i + 1].char \notin Ink(w)
      BY <1>1, <2>5, <3>1 DEF Own
    <3>3. Text[w][k + 1] \in Ink(w)
      BY <1>7, TextFacts
    <3> QED BY <2>3, <2>5, <3>2, <3>3
  <2>7. t.cells[i + 1] = s.cells[i + 1]
    BY <1>2, <2>5, <2>6
  <2> QED BY <2>3, <2>5, <2>6, <2>7
<1>8. Whole(t, D)
  <2>1. Coloured(t)
    BY <1>2, <1>5, <1>6 DEF Coloured
  <2>2. Joined(t, D)
    BY <1>2, <1>7 DEF Joined
  <2> QED BY <1>4, <2>1, <2>2 DEF Whole
<1>9. ASSUME NEW i \in 0 .. z - 1, CursorAt(t) - (n - 1) <= i, i < CursorAt(t), NEW w \in Writer
      PROVE  t.cells[i].char \notin Ink(w)
  <2>1. CursorAt(s) - n <= i /\ i < CursorAt(s) /\ i # CursorAt(t)
    BY <1>1, <1>2, <1>9
  <2>2. t.cells[i] = s.cells[i]
    BY <1>2, <2>1
  <2> QED BY <1>1, <2>1, <2>2 DEF Own
<1>10. Own(t, n - 1)
  BY <1>2, <1>9 DEF Own
<1> QED BY <1>8, <1>10 DEF t

\* Only the cells, the cursor and the counts of strings that are to stay
\* together matter.
LEMMA SameWhole ==
    ASSUME NEW s, NEW t, NEW D, NEW E, Whole(s, D), t.cells = s.cells,
           CursorAt(t) = CursorAt(s), \A w \in Writer : Manner[w] # "printf" => E[w] = D[w]
    PROVE  Whole(t, E)
<1>1. Clean(t) /\ Coloured(t)
  BY DEF Whole, Clean, Coloured
<1>2. Joined(t, E)
  BY DEF Whole, Joined
<1> QED BY <1>1, <1>2 DEF Whole

LEMMA SameOwn ==
    ASSUME NEW s, NEW t, NEW n, Own(s, n), t.cells = s.cells, CursorAt(t) = CursorAt(s)
    PROVE  Own(t, n)
BY DEF Own

\* The next character of a text, printed while nobody else is inside of a
\* string.
LEMMA PutcWhole ==
    ASSUME TextsAreReadable, NEW s, ScreenOK(s), NEW D, NEW E, Whole(s, D), NEW w \in Writer,
           D[w] \in 0 .. Len(Text[w]) - 1, E[w] = D[w] + 1, s.color = HueOf(w),
           \A v \in Writer \ {w} : /\ E[v] = D[v]
                                   /\ Manner[v] # "printf" => D[v] \notin 1 .. Len(Text[v]) - 1
    PROVE  Whole(Putc(s, Text[w][D[w] + 1]), E)
<1> DEFINE n == D[w] + 1
<1>1. n \in 1 .. Len(Text[w]) /\ Len(Text[w]) \in Nat
  BY TextFacts
<1>2. PICK c : c = Text[w][n]
  OBVIOUS
<1>3. /\ c \in ToSet(Text[w]) /\ c \notin {"\r", BS}
      /\ c \notin {"\n", "\t"} => c \in Ink(w)
      /\ Manner[w] # "printf" => c \in Ink(w)
  BY <1>1, <1>2, TextFacts
<1>4. c \in {"\n", "\t"} => Manner[w] = "printf"
  BY <1>3, InkFacts
<1>5. Clean(s)
  BY DEF Whole
<1>6. CASE c \in {"\n", "\t"}
  <2>1. Quiet(D) /\ \A v \in Writer : Manner[v] # "printf" => E[v] = D[v]
    BY <1>4, <1>6 DEF Quiet
  <2>2. CASE c = "\n"
    <3>1. Putc(s, c) = NewLine(s)
      BY <2>2 DEF Putc, BS
    <3>2. PICK d \in Nat, e \in Nat : Shifted(NewLine(s), s, d, e)
      BY <1>5, NewLineShifts
    <3>3. ScreenOK(NewLine(s))
      BY NewLineFacts
    <3>4. Whole(NewLine(s), D)
      BY <2>1, <3>2, <3>3, ShiftedWhole
    <3> QED BY <1>2, <2>1, <3>1, <3>4, SameWhole
  <2>3. CASE c = "\t"
    <3>1. PICK u : u = Wrapped(s)
      OBVIOUS
    <3>2. Putc(s, c) = Tabulated(u)
      BY <2>3, <3>1 DEF Putc, BS
    <3>3. PICK d \in Nat : Shifted(u, s, d, 0)
      BY <1>5, <3>1, WrappedShifts
    <3>4. ScreenOK(u) /\ u.column < WIDTH
      BY <3>1, WrappedFacts
    <3>5. Whole(u, D)
      BY <3>3, <3>4, ShiftedWhole
    <3>6. PICK e \in Nat \ {0} : Shifted(Tabulated(u), u, 0, e)
      BY <3>4, <3>5, TabulatedShifts DEF Whole
    <3>7. Whole(Tabulated(u), D)
      BY <2>1, <3>4, <3>5, <3>6, TabulatedFacts, ShiftedWhole
    <3> QED BY <1>2, <2>1, <3>2, <3>7, SameWhole
  <2> QED BY <1>6, <2>2, <2>3
<1>7. CASE c \notin {"\n", "\t"}
  <2>1. PICK u : u = Wrapped(s)
    OBVIOUS
  <2>2. Putc(s, c) = Printed(u, c)
    BY <1>3, <1>7, <2>1 DEF Putc
  <2>3. PICK d \in Nat : Shifted(u, s, d, 0)
    BY <1>5, <2>1, WrappedShifts
  <2>4. ScreenOK(u) /\ u.column < WIDTH /\ u.color = HueOf(w)
    BY <2>1, WrappedFacts
  <2>5. Whole(u, D)
    BY <2>3, <2>4, ShiftedWhole
  <2>6. \A v \in Writer : c \in Ink(v) => v = w
    BY <1>3, <1>7, InkFacts
  <2>7. ASSUME NEW v \in Writer, NEW k \in 1 .. Len(Text[v]) - 1,
               Manner[v] # "printf", Text[v][k] = c
        PROVE  E[v] = k
    <3>1. v = w
      BY <2>6, <2>7, TextFacts
    <3>2. k = n
      BY <1>1, <1>2, <2>7, <3>1, TextFacts
    <3> QED BY <3>1, <3>2
  <2>8. ASSUME NEW v \in Writer, NEW k \in 1 .. Len(Text[v]) - 1,
               Manner[v] # "printf", D[v] = k
        PROVE  Text[v][k + 1] = c
    BY <1>2, <2>8
  <2>9. \A v \in Writer : c \in Ink(v) => u.color = HueOf(v)
    BY <2>4, <2>6
  <2>10. NextIs(c, D) /\ Counts(c, E)
    BY <2>7, <2>8 DEF NextIs, Counts
  <2>11. Whole(Printed(u, c), E)
    BY <1>7, <2>4, <2>5, <2>9, <2>10, PrintedWhole
  <2> QED BY <1>2, <2>2, <2>11
<1> QED BY <1>6, <1>7

\* What the shell prints is of no text, and leaves the strings as they are.
LEMMA EchoWhole ==
    ASSUME TextsAreReadable, NEW s, ScreenOK(s), NEW D, Whole(s, D), Quiet(D),
           NEW c, c # "\r", c \in KeyChar \cup {">", "\n"}, NEW n \in Nat, Own(s, n),
           c = BS => n > 0
    PROVE  /\ Whole(Putc(s, c), D)
           /\ c = BS => Own(Putc(s, c), n - 1)
           /\ c \notin {BS, "\n"} => Own(Putc(s, c), n + 1)
<1>1. Clean(s)
  BY DEF Whole
<1>2. CASE c = "\n"
  <2>1. Putc(s, c) = NewLine(s) /\ c # BS
    BY <1>2 DEF Putc, BS
  <2>2. PICK d \in Nat, e \in Nat : Shifted(NewLine(s), s, d, e)
    BY <1>1, NewLineShifts
  <2>3. Whole(NewLine(s), D)
    BY <2>2, NewLineFacts, ShiftedWhole
  <2> QED BY <1>2, <2>1, <2>3
<1>3. CASE c = BS
  <2>1. Putc(s, c) = Backspace(s) /\ n \in Nat \ {0}
    BY <1>3 DEF Putc, BS
  <2> QED BY <1>3, <2>1, BackspaceWhole
<1>4. CASE c \notin {BS, "\n"}
  <2>1. PICK u : u = Wrapped(s)
    OBVIOUS
  <2>2. PICK d \in Nat : Shifted(u, s, d, 0)
    BY <1>1, <2>1, WrappedShifts
  <2>3. ScreenOK(u) /\ u.column < WIDTH
    BY <2>1, WrappedFacts
  <2>4. Whole(u, D)
    BY <2>2, <2>3, ShiftedWhole
  <2>5. Own(u, n)
    <3>1. Own(u, n + 0)
      BY <2>2, ShiftedOwn
    <3> QED BY <3>1
  <2>6. CASE c = "\t"
    <3>1. Putc(s, c) = Tabulated(u)
      BY <2>1, <2>6 DEF Putc, BS
    <3>2. PICK e \in Nat \ {0} : Shifted(Tabulated(u), u, 0, e)
      BY <2>3, <2>4, TabulatedShifts DEF Whole
    <3>3. Whole(Tabulated(u), D)
      BY <2>3, <2>4, <3>2, TabulatedFacts, ShiftedWhole
    <3>4. Own(Tabulated(u), n + e)
      BY <2>3, <2>5, <3>2, ShiftedOwn
    <3>5. Own(Tabulated(u), n + 1)
      <4>1. PICK t : t = Tabulated(u)
        OBVIOUS
      <4>2. CursorAt(t) \in Int /\ DOMAIN t.cells \subseteq Int
        BY <2>3, <4>1, TabulatedFacts, SizeFacts
      <4>3. \A i \in Int : CursorAt(t) - (n + 1) <= i => CursorAt(t) - (n + e) <= i
        BY <4>2
      <4> QED BY <3>4, <4>1, <4>2, <4>3 DEF Own
    <3> QED BY <1>4, <3>1, <3>3, <3>5
  <2>7. CASE c # "\t"
    <3>1. Putc(s, c) = Printed(u, c)
      BY <1>4, <2>1, <2>7 DEF Putc
    <3>2. \A w \in Writer : c \notin Ink(w)
      BY <1>4, InkFacts
    <3>3. ASSUME NEW w \in Writer, NEW k \in 1 .. Len(Text[w]) - 1, Manner[w] # "printf"
          PROVE  Text[w][k] # c
      BY <3>2, <3>3, TextFacts
    <3>4. ASSUME NEW w \in Writer, NEW k \in 1 .. Len(Text[w]) - 1, Manner[w] # "printf"
          PROVE  D[w] # k
      BY <3>4 DEF Quiet
    <3>5. Whole(Printed(u, c), D)
      <4>1. c \notin {"\n", "\t"}
        BY <1>4, <2>7
      <4>2. \A w \in Writer : c \in Ink(w) => u.color = HueOf(w)
        BY <3>2
      <4>3. NextIs(c, D) /\ Counts(c, D)
        BY <3>3, <3>4 DEF NextIs, Counts
      <4> QED BY <2>3, <2>4, <4>1, <4>2, <4>3, PrintedWhole
    <3>6. Own(Printed(u, c), n + 1)
      BY <2>3, <2>5, <3>2, PrintedOwn
    <3> QED BY <1>4, <3>1, <3>5, <3>6
  <2> QED BY <2>6, <2>7
<1> QED BY <1>2, <1>3, <1>4

-----------------------------------------------------------------------------
(***************************************************************************)
(* The writers, the shell and the strings                                  *)
(***************************************************************************)
LockOK ==
    /\ holder \in Writer \cup {nobody} /\ depth \in Nat
    /\ queue \in Seq(Writer) /\ IsInjective(queue) /\ holder \notin ToSet(queue)
    /\ holder = nobody => queue = <<>> /\ depth = 0

Held(w) == IF holder = w THEN depth + 1 ELSE IF w \in ToSet(queue) THEN 1 ELSE 0

\* The lock and the colour are as the label of a writer says; only the one that
\* has the lock is inside of a string, or has set a colour.
Fits(w, a) ==
    /\ a.held = Held(w)
    /\ holder = w => screen.color = a.hue
    /\ holder # w => a.hue = default /\ ~Between(w, a)

Counted(L) == [w \in Writer |-> L[w].done]

Labelled(L) ==
    /\ \A w \in Writer : Leads(w, todo[w], L[w], End(w)) /\ Fits(w, L[w])
    /\ Whole(screen, Counted(L))

\* The shell rubs out nothing but what was typed in its line.
LineOK == at \in {"get", "convert", "use"} => Own(screen, position)

StringInv ==
    /\ LockOK
    /\ DOMAIN todo = Writer
    /\ holder = nobody => screen.color = default
    /\ \E L \in [Writer -> Label] : Labelled(L)
    /\ LineOK

\* A writer that takes a step.
LEMMA StepFacts ==
    ASSUME StringInv, NEW L \in [Writer -> Label], Labelled(L), NEW w \in Writer,
           NEW op, At(w, op)
    PROVE  LET x == Head(todo[w])
           IN  /\ todo[w] # <<>> /\ x.op = op /\ w \notin ToSet(queue)
               /\ May(w, x, L[w]) /\ After(x, L[w]) \in Label
               /\ Leads(w, Tail(todo[w]), After(x, L[w]), End(w))
               /\ op # "acquire" => holder = w /\ screen.color = L[w].hue
<1> DEFINE x == Head(todo[w])
           a == L[w]
<1>1. todo[w] # <<>> /\ x.op = op /\ w \notin ToSet(queue)
  BY DEF At
<1>2. Leads(w, todo[w], a, End(w)) /\ Fits(w, a)
  BY DEF Labelled
<1>3. May(w, x, a) /\ After(x, a) \in Label /\ Leads(w, Tail(todo[w]), After(x, a), End(w))
  BY <1>1, <1>2, LeadsOn
<1>4. ASSUME op # "acquire" PROVE holder = w /\ screen.color = a.hue
  <2>1. a.held > 0
    BY <1>1, <1>3, <1>4 DEF May
  <2>2. holder = w
    BY <1>1, <1>2, <2>1 DEF Fits, Held
  <2> QED BY <1>2, <2>2 DEF Fits
<1> QED BY <1>1, <1>3, <1>4

\* What has to be shown of the step of a writer.
LEMMA StepDone ==
    ASSUME StringInv, TInv, NEW L \in [Writer -> Label], Labelled(L), NEW w \in Writer,
           todo[w] # <<>>, NEW b \in Label, todo' = [todo EXCEPT ![w] = Tail(@)],
           UNCHANGED at,
           Leads(w, Tail(todo[w]), b, End(w)), Fits(w, b)',
           \A v \in Writer \ {w} : Fits(v, L[v])',
           Whole(screen', Counted([L EXCEPT ![w] = b])),
           LockOK', holder' = nobody => screen'.color = default
    PROVE  StringInv'
<1> DEFINE N == [L EXCEPT ![w] = b]
<1>1. N \in [Writer -> Label] /\ N[w] = b /\ \A v \in Writer \ {w} : N[v] = L[v]
  OBVIOUS
<1>2. /\ DOMAIN todo' = Writer /\ todo'[w] = Tail(todo[w])
      /\ \A v \in Writer \ {w} : todo'[v] = todo[v]
  BY DEF StringInv
<1>3. ASSUME NEW v \in Writer
      PROVE  Leads(v, todo'[v], N[v], End(v)) /\ Fits(v, N[v])'
  <2>1. CASE v = w
    BY <1>1, <1>2, <2>1
  <2>2. CASE v # w
    BY <1>1, <1>2, <2>2 DEF Labelled
  <2> QED BY <2>1, <2>2
<1>4. Labelled(N)'
  <2> HIDE DEF N
  <2>1. Whole(screen', Counted(N))
    BY DEF N
  <2> QED BY <1>3, <2>1 DEF Labelled
<1>5. LineOK'
  BY WritingFacts DEF LineOK
<1> HIDE DEF N
<1> QED BY <1>1, <1>2, <1>4, <1>5 DEF StringInv

\* A writer keeps its label when another one takes a step.
LEMMA OthersFit ==
    ASSUME NEW L, NEW v \in Writer, Fits(v, L[v]), Held(v)' = Held(v),
           holder' = v <=> holder = v, holder = v => UNCHANGED screen
    PROVE  Fits(v, L[v])'
BY DEF Fits

\* As long as no character is printed the strings stay as they are.
LEMMA StepWhole ==
    ASSUME NEW L \in [Writer -> Label], Labelled(L), NEW w \in Writer, NEW b \in Label,
           b.done = L[w].done, screen'.cells = screen.cells, CursorAt(screen') = CursorAt(screen)
    PROVE  Whole(screen', Counted([L EXCEPT ![w] = b]))
<1> DEFINE D == Counted(L)
           E == Counted([L EXCEPT ![w] = b])
<1>1. \A v \in Writer : E[v] = D[v]
  BY DEF Counted
<1>2. Whole(screen, D)
  BY DEF Labelled
<1> HIDE DEF D, E
<1>3. Whole(screen', E)
  BY <1>1, <1>2, SameWhole
<1> QED BY <1>3 DEF E

\* The lock is taken, taken again, or waited for.
LEMMA TakeLockStrings ==
    ASSUME StringInv, TInv, NEW w \in Writer, TakeLock(w), UNCHANGED at
    PROVE  StringInv'
<1>1. PICK L \in [Writer -> Label] : Labelled(L)
  BY DEF StringInv
<1> DEFINE a == L[w]
           b == Mark(a.held + 1, a.done, a.hue)
<1>2. /\ At(w, "acquire") /\ Lock!Acquire(w) /\ todo' = [todo EXCEPT ![w] = Tail(@)]
      /\ UNCHANGED screen
  BY DEF TakeLock, GoOn
<1>3. /\ todo[w] # <<>> /\ w \notin ToSet(queue) /\ Head(todo[w]).op = "acquire"
      /\ After(Head(todo[w]), a) \in Label
      /\ Leads(w, Tail(todo[w]), After(Head(todo[w]), a), End(w))
  BY <1>1, <1>2, StepFacts
<1>4. b \in Label /\ Leads(w, Tail(todo[w]), b, End(w))
  BY <1>3 DEF After
<1>5. /\ b.held = a.held + 1 /\ b.done = a.done /\ b.hue = a.hue
      /\ Between(w, b) <=> Between(w, a)
  BY DEF Mark, Between
<1> HIDE DEF b
<1>6. /\ LockOK /\ nobody \notin Writer /\ (holder = nobody => screen.color = default)
      /\ \A v \in Writer : Fits(v, L[v])
  BY <1>1, ScreenAssumption DEF StringInv, Labelled
<1>7. Whole(screen', Counted([L EXCEPT ![w] = b]))
  BY <1>1, <1>2, <1>4, <1>5, StepWhole
<1>8. CASE holder = nobody /\ holder' = w /\ UNCHANGED <<depth, queue>>
  <2>1. queue = <<>> /\ depth = 0 /\ ToSet(queue) = {} /\ queue' = <<>> /\ depth' = 0
        /\ ToSet(queue') = {}
    BY <1>6, <1>8 DEF LockOK, ToSet
  <2>2. LockOK' /\ holder' # nobody
    BY <1>6, <1>8, <2>1 DEF LockOK
  <2>3. Held(w) = 0 /\ Held(w)' = 1
    BY <1>6, <1>8, <2>1 DEF Held
  <2>4. Fits(w, b)'
    BY <1>2, <1>5, <1>6, <1>8, <2>3 DEF Fits
  <2>5. ASSUME NEW v \in Writer \ {w} PROVE Fits(v, L[v])'
    <3>1. Held(v)' = Held(v) /\ holder # v /\ holder' # v
      BY <1>6, <1>8 DEF Held
    <3> QED BY <1>6, <3>1, OthersFit
  <2> QED BY <1>1, <1>2, <1>3, <1>4, <1>7, <2>2, <2>4, <2>5, StepDone
<1>9. CASE holder = w /\ depth' = depth + 1 /\ UNCHANGED <<holder, queue>>
  <2>1. LockOK' /\ holder' # nobody
    BY <1>6, <1>9 DEF LockOK
  <2>2. Held(w)' = Held(w) + 1
    BY <1>6, <1>9 DEF Held, LockOK
  <2>3. Fits(w, b)'
    BY <1>2, <1>5, <1>6, <1>9, <2>2 DEF Fits
  <2>4. ASSUME NEW v \in Writer \ {w} PROVE Fits(v, L[v])'
    <3>1. Held(v)' = Held(v) /\ holder # v /\ holder' # v
      BY <1>9 DEF Held
    <3> QED BY <1>6, <3>1, OthersFit
  <2> QED BY <1>1, <1>2, <1>3, <1>4, <1>7, <2>1, <2>3, <2>4, StepDone
<1>10. CASE /\ holder \notin {nobody, w} /\ queue' = Append(queue, w)
            /\ UNCHANGED <<holder, depth>>
  <2>1. /\ queue' \in Seq(Writer) /\ ToSet(queue') = ToSet(queue) \cup {w}
        /\ IsInjective(queue')
    BY <1>3, <1>6, <1>10, AppendFacts DEF LockOK
  <2>2. LockOK' /\ holder' # nobody
    BY <1>6, <1>10, <2>1 DEF LockOK
  <2>3. Held(w) = 0 /\ Held(w)' = 1
    BY <1>3, <1>10, <2>1 DEF Held
  <2>4. Fits(w, b)'
    BY <1>5, <1>6, <1>10, <2>3 DEF Fits
  <2>5. ASSUME NEW v \in Writer \ {w} PROVE Fits(v, L[v])'
    <3>1. Held(v)' = Held(v) /\ holder' = holder
      BY <1>10, <2>1 DEF Held
    <3> QED BY <1>2, <1>6, <3>1, OthersFit
  <2> QED BY <1>1, <1>2, <1>3, <1>4, <1>7, <2>2, <2>4, <2>5, StepDone
<1> QED BY <1>2, <1>8, <1>9, <1>10 DEF Lock!Acquire

\* The one that gives the lock away has its colour reset and its string printed.
LEMMA GiveLockStrings ==
    ASSUME StringInv, TInv, NEW w \in Writer, GiveLock(w), UNCHANGED at
    PROVE  StringInv'
<1>1. PICK L \in [Writer -> Label] : Labelled(L)
  BY DEF StringInv
<1> DEFINE a == L[w]
           b == Mark(a.held - 1, a.done, a.hue)
<1>2. /\ At(w, "release") /\ Lock!Release(w) /\ todo' = [todo EXCEPT ![w] = Tail(@)]
      /\ UNCHANGED screen
  BY DEF GiveLock, GoOn
<1>3. /\ todo[w] # <<>> /\ w \notin ToSet(queue) /\ Head(todo[w]).op = "release"
      /\ May(w, Head(todo[w]), a) /\ After(Head(todo[w]), a) \in Label
      /\ Leads(w, Tail(todo[w]), After(Head(todo[w]), a), End(w))
      /\ holder = w /\ screen.color = a.hue
  BY <1>1, <1>2, StepFacts
<1>4. b \in Label /\ Leads(w, Tail(todo[w]), b, End(w))
  BY <1>3 DEF After
<1>5. /\ b.held = a.held - 1 /\ b.done = a.done /\ b.hue = a.hue
      /\ Between(w, b) <=> Between(w, a)
  BY DEF Mark, Between
<1> HIDE DEF b
<1>6. /\ LockOK /\ nobody \notin Writer /\ holder # nobody
      /\ \A v \in Writer : Fits(v, L[v])
  BY <1>1, <1>3, ScreenAssumption DEF StringInv, Labelled
<1>7. Whole(screen', Counted([L EXCEPT ![w] = b]))
  BY <1>1, <1>2, <1>4, <1>5, StepWhole
<1>8. a.held = depth + 1 /\ depth \in Nat
  BY <1>3, <1>6 DEF Fits, Held, LockOK
<1>9. ASSUME depth = 0 PROVE a.hue = default /\ ~Between(w, a) /\ b.held = 0
  BY <1>3, <1>5, <1>8, <1>9 DEF May
<1>10. CASE depth > 0 /\ depth' = depth - 1 /\ UNCHANGED <<holder, queue>>
  <2>1. LockOK' /\ holder' # nobody
    BY <1>6, <1>8, <1>10 DEF LockOK
  <2>2. Fits(w, b)'
    <3>1. Held(w)' = b.held
      BY <1>3, <1>5, <1>8, <1>10 DEF Held
    <3> QED BY <1>2, <1>3, <1>5, <1>10, <3>1 DEF Fits
  <2>3. ASSUME NEW v \in Writer \ {w} PROVE Fits(v, L[v])'
    <3>1. Held(v)' = Held(v) /\ holder # v /\ holder' # v
      BY <1>3, <1>10 DEF Held
    <3> QED BY <1>6, <3>1, OthersFit
  <2> QED BY <1>1, <1>2, <1>3, <1>4, <1>7, <2>1, <2>2, <2>3, StepDone
<1>11. CASE /\ depth = 0 /\ queue # <<>>
            /\ holder' = Head(queue) /\ queue' = Tail(queue) /\ UNCHANGED depth
  <2>1. PICK h : h = Head(queue)
    OBVIOUS
  <2>2. /\ h \in Writer /\ h \in ToSet(queue) /\ ToSet(queue) = ToSet(queue') \cup {h}
        /\ queue' \in Seq(Writer) /\ IsInjective(queue') /\ h \notin ToSet(queue')
    BY <1>6, <1>11, <2>1, TailFacts DEF LockOK
  <2>3. h # w /\ h # nobody /\ w \notin ToSet(queue') /\ holder' = h /\ depth' = 0
    BY <1>3, <1>6, <1>11, <2>1, <2>2
  <2>4. LockOK' /\ holder' # nobody
    BY <2>2, <2>3 DEF LockOK
  <2>5. Fits(w, b)'
    <3>1. Held(w)' = 0
      BY <2>3 DEF Held
    <3> QED BY <1>5, <1>9, <1>11, <2>3, <3>1 DEF Fits
  <2>6. ASSUME NEW v \in Writer \ {w} PROVE Fits(v, L[v])'
    <3>1. CASE v = h
      <4>1. Held(v) = 1 /\ Held(v)' = 1 /\ holder # v
        BY <1>3, <2>2, <2>3, <3>1 DEF Held
      <4>2. L[v].hue = default /\ L[v].held = 1
        BY <1>6, <4>1 DEF Fits
      <4>3. screen'.color = default
        BY <1>2, <1>3, <1>9, <1>11
      <4> QED BY <2>3, <3>1, <4>1, <4>2, <4>3 DEF Fits
    <3>2. CASE v # h
      <4>1. Held(v)' = Held(v) /\ holder # v /\ holder' # v
        BY <1>3, <2>2, <2>3, <3>2 DEF Held
      <4> QED BY <1>6, <4>1, OthersFit
    <3> QED BY <3>1, <3>2
  <2> QED BY <1>1, <1>2, <1>3, <1>4, <1>7, <2>4, <2>5, <2>6, StepDone
<1>12. CASE depth = 0 /\ queue = <<>> /\ holder' = nobody /\ UNCHANGED <<depth, queue>>
  <2>1. ToSet(queue) = {} /\ ToSet(queue') = {}
    BY <1>12 DEF ToSet
  <2>2. LockOK'
    BY <1>6, <1>12, <2>1 DEF LockOK
  <2>3. screen'.color = default
    BY <1>2, <1>3, <1>9, <1>12
  <2>4. Fits(w, b)'
    <3>1. Held(w)' = 0
      BY <1>3, <1>6, <1>12, <2>1 DEF Held
    <3> QED BY <1>3, <1>5, <1>6, <1>9, <1>12, <3>1 DEF Fits
  <2>5. ASSUME NEW v \in Writer \ {w} PROVE Fits(v, L[v])'
    <3>1. Held(v)' = Held(v) /\ holder # v /\ holder' # v
      BY <1>3, <1>6, <1>12, <2>1 DEF Held
    <3> QED BY <1>6, <3>1, OthersFit
  <2> QED BY <1>1, <1>2, <1>3, <1>4, <1>7, <2>2, <2>3, <2>4, <2>5, StepDone
<1> QED BY <1>2, <1>10, <1>11, <1>12 DEF Lock!Release

\* A character is printed by the one that has the lock.
LEMMA PutCharStrings ==
    ASSUME TextsAreReadable, StringInv, TInv, NEW w \in Writer, PutChar(w), UNCHANGED at
    PROVE  StringInv'
<1>1. PICK L \in [Writer -> Label] : Labelled(L)
  BY DEF StringInv
<1> DEFINE a == L[w]
           x == Head(todo[w])
           b == Mark(a.held, a.done + 1, a.hue)
           D == Counted(L)
           E == Counted([L EXCEPT ![w] = b])
<1>2. /\ At(w, "putc") /\ screen' = Putc(screen, x.char)
      /\ todo' = [todo EXCEPT ![w] = Tail(@)] /\ UNCHANGED <<holder, depth, queue>>
  BY DEF PutChar, GoOn, lockVars
<1>3. /\ todo[w] # <<>> /\ x.op = "putc" /\ May(w, x, a) /\ After(x, a) \in Label
      /\ Leads(w, Tail(todo[w]), After(x, a), End(w))
      /\ holder = w /\ screen.color = a.hue
  BY <1>1, <1>2, StepFacts
<1>4. b \in Label /\ Leads(w, Tail(todo[w]), b, End(w))
  BY <1>3 DEF After
<1>5. b.held = a.held /\ b.done = a.done + 1 /\ b.hue = a.hue
  BY DEF Mark
<1>6. a.done < Len(Text[w]) /\ x.char = Text[w][a.done + 1] /\ a.hue = HueOf(w)
  BY <1>3 DEF May
<1> HIDE DEF x, b
<1>7. /\ LockOK /\ holder # nobody /\ ScreenOK(screen) /\ Whole(screen, D)
      /\ \A v \in Writer : Fits(v, L[v])
  BY <1>1, <1>3, ScreenAssumption DEF StringInv, Labelled, TInv
<1>8. Whole(screen', E)
  <2>1. D[w] = a.done /\ E[w] = b.done
    BY <1>4 DEF Counted
  <2>2. D[w] \in 0 .. Len(Text[w]) - 1 /\ E[w] = D[w] + 1
    <3>1. a.done \in Nat /\ Len(Text[w]) \in Nat
      BY TextFacts DEF Label
    <3> QED BY <1>5, <1>6, <2>1, <3>1
  <2>3. ASSUME NEW v \in Writer \ {w}
        PROVE  E[v] = D[v] /\ (Manner[v] # "printf" => D[v] \notin 1 .. Len(Text[v]) - 1)
    <3>1. E[v] = D[v] /\ D[v] = L[v].done
      BY DEF Counted
    <3>2. ~Between(v, L[v])
      BY <1>3, <1>7 DEF Fits
    <3> HIDE DEF D, E
    <3> QED BY <3>1, <3>2 DEF Between
  <2> HIDE DEF D, E
  <2>4. screen.color = HueOf(w) /\ screen' = Putc(screen, Text[w][D[w] + 1])
    BY <1>2, <1>3, <1>6, <2>1
  <2>5. Whole(Putc(screen, Text[w][D[w] + 1]), E)
    BY <1>7, <2>2, <2>3, <2>4, PutcWhole
  <2> QED BY <2>4, <2>5
<1>9. screen'.color = screen.color
  BY <1>2, <1>7, PutcFacts
<1>10. LockOK' /\ holder' = w /\ holder' # nobody
  BY <1>2, <1>3, <1>7 DEF LockOK
<1>11. \A v \in Writer : Held(v)' = Held(v)
  BY <1>2 DEF Held
<1>12. Fits(w, b)'
  BY <1>3, <1>5, <1>7, <1>9, <1>10, <1>11 DEF Fits
<1>13. ASSUME NEW v \in Writer \ {w} PROVE Fits(v, L[v])'
  BY <1>3, <1>7, <1>10, <1>11, OthersFit
<1> QED BY <1>1, <1>2, <1>3, <1>4, <1>8, <1>10, <1>12, <1>13, StepDone

\* The colour is set by the one that has the lock.
LEMMA SetColorStrings ==
    ASSUME StringInv, TInv, NEW w \in Writer, SetColor(w), UNCHANGED at
    PROVE  StringInv'
<1>1. PICK L \in [Writer -> Label] : Labelled(L)
  BY DEF StringInv
<1>2. PICK c : c = Head(todo[w]).color
  OBVIOUS
<1> DEFINE a == L[w]
           x == Head(todo[w])
           b == Mark(a.held, a.done, c)
<1>3. /\ At(w, "color") /\ screen' = [screen EXCEPT !.color = c]
      /\ todo' = [todo EXCEPT ![w] = Tail(@)] /\ UNCHANGED <<holder, depth, queue>>
  BY <1>2 DEF SetColor, GoOn, lockVars
<1>4. /\ todo[w] # <<>> /\ x.op = "color" /\ After(x, a) \in Label
      /\ Leads(w, Tail(todo[w]), After(x, a), End(w))
      /\ holder = w
  BY <1>1, <1>3, StepFacts
<1>5. b \in Label /\ Leads(w, Tail(todo[w]), b, End(w))
  BY <1>4, <1>2 DEF After
<1>6. b.held = a.held /\ b.done = a.done /\ b.hue = c
  BY DEF Mark
<1> HIDE DEF x, b
<1>7. /\ LockOK /\ holder # nobody /\ ScreenOK(screen)
      /\ \A v \in Writer : Fits(v, L[v])
  BY <1>1, <1>4, ScreenAssumption DEF StringInv, Labelled, TInv
<1>8. /\ screen'.cells = screen.cells /\ CursorAt(screen') = CursorAt(screen)
      /\ screen'.color = c
  BY <1>3, <1>7 DEF ScreenOK, CursorAt
<1>9. Whole(screen', Counted([L EXCEPT ![w] = b]))
  BY <1>1, <1>5, <1>6, <1>8, StepWhole
<1>10. LockOK' /\ holder' = w /\ holder' # nobody
  BY <1>3, <1>4, <1>7 DEF LockOK
<1>11. \A v \in Writer : Held(v)' = Held(v)
  BY <1>3 DEF Held
<1>12. Fits(w, b)'
  BY <1>4, <1>6, <1>7, <1>8, <1>10, <1>11 DEF Fits
<1>13. ASSUME NEW v \in Writer \ {w} PROVE Fits(v, L[v])'
  BY <1>4, <1>7, <1>10, <1>11, OthersFit
<1> QED BY <1>1, <1>3, <1>4, <1>5, <1>9, <1>10, <1>12, <1>13, StepDone

LEMMA WritingStrings ==
    ASSUME TextsAreReadable, StringInv, TInv, Writing, UNCHANGED shellVars
    PROVE  StringInv'
<1>1. PICK w \in Writer : TakeLock(w) \/ GiveLock(w) \/ PutChar(w) \/ SetColor(w)
  BY DEF Writing
<1>2. UNCHANGED at
  BY DEF shellVars
<1> QED BY <1>1, <1>2, TakeLockStrings, GiveLockStrings, PutCharStrings, SetColorStrings

\* Nothing happens to the screen, the lock and the writers.
LEMMA ElsewhereStrings ==
    ASSUME StringInv, UNCHANGED <<screen, lockVars, todo, position>>,
           at' \in {"get", "convert", "use"} => at \in {"get", "convert", "use"}
    PROVE  StringInv'
<1>1. PICK L \in [Writer -> Label] : Labelled(L)
  BY DEF StringInv
<1>2. Labelled(L)'
  BY <1>1 DEF Labelled, Fits, Held, lockVars
<1>3. LineOK'
  BY DEF StringInv, LineOK
<1>4. LockOK'
  BY DEF StringInv, LockOK, lockVars
<1> QED BY <1>2, <1>3, <1>4 DEF StringInv, lockVars

\* A writer with no steps left has given the lock back and printed its text.
LEMMA EndFacts ==
    ASSUME NEW w \in Writer, NEW a \in Label, Leads(w, <<>>, a, End(w))
    PROVE  a.held = 0 /\ a.done = Len(Text[w])
<1>1. End(w) = a
  BY LeadsNowhere
<1>2. End(w).held = 0 /\ End(w).done = Len(Text[w])
  BY DEF End, Mark
<1> QED BY <1>1, <1>2

\* When all is printed nobody has the lock or is inside of a string.
LEMMA AllPrintedFacts ==
    ASSUME TextsAreReadable, StringInv, AllPrinted, NEW L \in [Writer -> Label], Labelled(L)
    PROVE  holder = nobody /\ Quiet(Counted(L)) /\ Whole(screen, Counted(L))
<1>1. ASSUME NEW w \in Writer PROVE holder # w /\ L[w].done \notin 1 .. Len(Text[w]) - 1
  <2>1. Leads(w, <<>>, L[w], End(w)) /\ L[w].held = Held(w)
    BY DEF AllPrinted, Labelled, Fits
  <2>2. L[w].held = 0 /\ L[w].done = Len(Text[w])
    BY <2>1, EndFacts
  <2>3. depth \in Nat
    BY DEF StringInv, LockOK
  <2>4. Len(Text[w]) \in Nat
    BY TextFacts
  <2> QED BY <2>1, <2>2, <2>3, <2>4 DEF Held
<1>2. holder = nobody
  BY <1>1 DEF StringInv, LockOK
<1>3. Quiet(Counted(L))
  BY <1>1 DEF Quiet, Counted
<1> QED BY <1>2, <1>3 DEF Labelled

\* What has to be shown of a step of the shell.
LEMMA ShellDone ==
    ASSUME StringInv, NEW L \in [Writer -> Label], Labelled(L), holder = nobody,
           UNCHANGED <<lockVars, todo>>, Whole(screen', Counted(L)),
           screen'.color = default, LineOK'
    PROVE  StringInv'
<1>1. holder' = nobody /\ UNCHANGED <<holder, depth, queue, todo>>
  BY DEF lockVars
<1>2. ASSUME NEW w \in Writer PROVE Leads(w, todo'[w], L[w], End(w)) /\ Fits(w, L[w])'
  <2>1. holder # w
    BY ScreenAssumption
  <2>2. Leads(w, todo[w], L[w], End(w)) /\ Fits(w, L[w])
    BY DEF Labelled
  <2> QED BY <1>1, <2>1, <2>2 DEF Fits, Held
<1>3. Labelled(L)'
  BY <1>2 DEF Labelled
<1>4. LockOK'
  BY <1>1 DEF StringInv, LockOK
<1> QED BY <1>1, <1>3, <1>4 DEF StringInv

\* There is always room for an empty line.
LEMMA NothingOwn ==
    ASSUME NEW s, ScreenOK(s)
    PROVE  Own(s, 0)
<1>1. PICK z \in Nat : DOMAIN s.cells = 0 .. z - 1 /\ CursorAt(s) \in 0 .. z
  BY SizeFacts
<1> QED BY <1>1 DEF Own

\* The prompt is no part of a text.
LEMMA StartReadStrings ==
    ASSUME TextsAreReadable, StringInv, TInv, StartRead
    PROVE  StringInv'
<1> DEFINE s == [screen EXCEPT !.color = promptColour]
           t == Putc(s, ">")
<1>1. PICK L \in [Writer -> Label] : Labelled(L)
  BY DEF StringInv
<1>2. PICK D : D = Counted(L)
  OBVIOUS
<1>3. /\ AllPrinted /\ screen' = [t EXCEPT !.color = default] /\ position' = 0
      /\ UNCHANGED <<lockVars, todo>>
  BY DEF StartRead
<1>4. holder = nobody /\ Quiet(D) /\ Whole(screen, D)
  BY <1>1, <1>2, <1>3, AllPrintedFacts
<1>5. ScreenOK(s) /\ s.cells = screen.cells /\ CursorAt(s) = CursorAt(screen)
  BY DEF TInv, ScreenOK, CursorAt
<1> HIDE DEF s
<1>6. Whole(s, D)
  BY <1>4, <1>5, SameWhole
<1>7. Whole(t, D) /\ ScreenOK(t)
  <2>1. Own(s, 0) /\ ">" # BS
    BY <1>5, NothingOwn DEF BS
  <2> QED BY <1>4, <1>5, <1>6, <2>1, EchoWhole, PutcFacts
<1> HIDE DEF t
<1>8. /\ screen'.cells = t.cells /\ CursorAt(screen') = CursorAt(t)
      /\ screen'.color = default /\ ScreenOK(screen')
  BY <1>3, <1>7 DEF ScreenOK, CursorAt
<1>9. Whole(screen', D)
  BY <1>7, <1>8, SameWhole
<1>10. LineOK'
  BY <1>3, <1>8, NothingOwn DEF LineOK
<1> QED BY <1>1, <1>2, <1>3, <1>4, <1>8, <1>9, <1>10, ShellDone

\* The new line after a command.
LEMMA ShellExecuteStrings ==
    ASSUME TextsAreReadable, StringInv, TInv, ShellExecute
    PROVE  StringInv'
<1>1. PICK L \in [Writer -> Label] : Labelled(L)
  BY DEF StringInv
<1>2. PICK D : D = Counted(L)
  OBVIOUS
<1>3. /\ AllPrinted /\ screen' = Putc(screen, "\n") /\ at' = "start"
      /\ UNCHANGED <<lockVars, todo>>
  BY DEF ShellExecute, TInv
<1>4. /\ holder = nobody /\ Quiet(D) /\ Whole(screen, D) /\ ScreenOK(screen)
      /\ screen.color = default
  BY <1>1, <1>2, <1>3, AllPrintedFacts DEF TInv, StringInv
<1>5. Own(screen, 0) /\ "\n" # BS
  BY <1>4, NothingOwn DEF BS
<1>6. Whole(screen', D)
  BY <1>3, <1>4, <1>5, EchoWhole
<1>7. screen'.color = default
  BY <1>3, <1>4, PutcFacts
<1>8. LineOK'
  BY <1>3 DEF LineOK
<1> QED BY <1>1, <1>2, <1>3, <1>4, <1>6, <1>7, <1>8, ShellDone

\* What is echoed is typed by the user, and a backspace takes it back.
LEMMA UseCharStrings ==
    ASSUME TextsAreReadable, StringInv, TInv, UseChar
    PROVE  StringInv'
<1>1. PICK L \in [Writer -> Label] : Labelled(L)
  BY DEF StringInv
<1>2. PICK D : D = Counted(L)
  OBVIOUS
<1>3. PICK c : c = key.char
  OBVIOUS
<1> DEFINE t == Putc(screen, c)
<1>4. /\ at = "use" /\ UNCHANGED <<lockVars, todo>> /\ AllPrinted
  BY DEF UseChar, TInv
<1>5. /\ holder = nobody /\ Quiet(D) /\ Whole(screen, D) /\ ScreenOK(screen)
      /\ screen.color = default
  BY <1>1, <1>2, <1>4, AllPrintedFacts DEF TInv, StringInv
<1>6. position \in Nat /\ Own(screen, position)
  BY <1>4, TerminalAssumption DEF TInv, Reading, StringInv, LineOK
<1>7. c \in KeyChar /\ c # "\r"
  <2>1. c \in KeyChar
    BY <1>3, <1>4 DEF TInv, KeysKnown
  <2>2. special # "\r"
    BY TerminalAssumption
  <2>3. ASSUME NEW k \in Key PROVE "\r" \notin {k.plain, k.shifted}
    BY TerminalAssumption
  <2> QED BY <2>1, <2>2, <2>3 DEF KeyChar
<1>8. ASSUME c = BS => position > 0
      PROVE  /\ Whole(t, D) /\ ScreenOK(t) /\ t.color = default
             /\ c = BS => Own(t, position - 1)
             /\ c \notin {BS, "\n"} => Own(t, position + 1)
  BY <1>5, <1>6, <1>7, <1>8, EchoWhole, PutcFacts
<1>9. Whole(screen', D) /\ screen'.color = default /\ LineOK'
  <2>1. CASE c = BS /\ position = 0
    <3>1. UNCHANGED <<screen, position>>
      BY <1>3, <2>1 DEF UseChar, BS
    <3> QED BY <1>5, <1>6, <3>1 DEF LineOK
  <2>2. CASE c = BS /\ position > 0
    <3>1. screen' = t /\ position' = position - 1
      BY <1>3, <2>2 DEF UseChar, Echoed, BS
    <3> HIDE DEF t
    <3> QED BY <1>8, <2>2, <3>1 DEF LineOK
  <2>3. CASE c = "\n"
    <3>1. at' = "parse" /\ screen' = t
      BY <1>3, <2>3 DEF UseChar, Echoed, BS
    <3>2. c # BS
      BY <2>3 DEF BS
    <3> HIDE DEF t
    <3> QED BY <1>8, <3>1, <3>2 DEF LineOK
  <2>4. CASE c \notin {BS, "\n"}
    <3>1. /\ position' = position + 1
          /\ IF position' < PROMPT - 1 THEN screen' = t /\ at' = "get"
             ELSE screen' = Putc(t, "\n") /\ at' = "parse"
      BY <1>3, <2>4 DEF UseChar, Echoed
    <3>2. Whole(t, D) /\ ScreenOK(t) /\ t.color = default /\ Own(t, position + 1)
      BY <1>8, <2>4
    <3> HIDE DEF t
    <3>3. CASE position' < PROMPT - 1
      BY <3>1, <3>2, <3>3 DEF LineOK
    <3>4. CASE ~(position' < PROMPT - 1)
      <4>1. Own(t, 0) /\ "\n" # BS
        BY <3>2, NothingOwn DEF BS
      <4>2. Whole(Putc(t, "\n"), D) /\ Putc(t, "\n").color = default
        BY <1>5, <3>2, <4>1, EchoWhole, PutcFacts
      <4> QED BY <3>1, <3>4, <4>2 DEF LineOK
    <3> QED BY <3>3, <3>4
  <2> QED BY <1>6, <2>1, <2>2, <2>3, <2>4
<1> QED BY <1>1, <1>2, <1>4, <1>5, <1>9, ShellDone

\* The screen is cleared and every writer is at its start.
LEMMA StringsInit ==
    ASSUME TextsAreReadable, TerminalInit
    PROVE  StringInv
<1> DEFINE L == [w \in Writer |-> Start]
           D == Counted(L)
<1>1. /\ screen = Cleared /\ holder = nobody /\ depth = 0 /\ queue = <<>>
      /\ todo = [w \in Writer |-> Prints(w)] /\ at = "start"
  BY DEF TerminalInit, ScreenInit, Lock!Init
<1>2. Start \in Label /\ Start.held = 0 /\ Start.done = 0 /\ Start.hue = default
  BY DEF Start, Mark, Label, Hue
<1>3. L \in [Writer -> Label] /\ \A w \in Writer : L[w] = Start
  BY <1>2
<1> HIDE DEF L
<1>4. LockOK /\ screen.color = default /\ ToSet(queue) = {}
  BY <1>1, ScreenAssumption DEF LockOK, Cleared, ToSet, IsInjective
<1>5. ASSUME NEW w \in Writer PROVE Leads(w, todo[w], L[w], End(w)) /\ Fits(w, L[w])
  <2>1. todo[w] = Prints(w) /\ holder # w
    BY <1>1, ScreenAssumption
  <2>2. Fits(w, L[w])
    BY <1>2, <1>3, <1>4, <2>1 DEF Fits, Held, Between
  <2> QED BY <1>3, <2>1, <2>2, PrintsLeads
<1>6. Whole(screen, D)
  <2>1. \A i \in DOMAIN screen.cells : screen.cells[i].char = " "
    BY <1>1, BlankFacts DEF Cleared
  <2>2. ASSUME NEW w \in Writer PROVE " " \notin Ink(w)
    BY InkFacts
  <2>3. ASSUME NEW w \in Writer, NEW k \in 1 .. Len(Text[w]) - 1, Manner[w] # "printf"
        PROVE  Text[w][k] # " "
    <3>1. Text[w][k] \in Ink(w)
      BY <2>3, TextFacts
    <3> QED BY <2>2, <3>1
  <2> HIDE DEF D
  <2> QED BY <2>1, <2>2, <2>3 DEF Whole, Clean, Coloured, Joined
<1>7. Labelled(L)
  BY <1>5, <1>6 DEF Labelled
<1>8. DOMAIN todo = Writer /\ LineOK
  BY <1>1 DEF LineOK
<1> QED BY <1>3, <1>4, <1>7, <1>8 DEF StringInv
-----------------------------------------------------------------------------
(***************************************************************************)
(* Strings in the buffer of the shell                                      *)
(***************************************************************************)

\* What shellRead keeps: a string that ends in the buffer.
Ended(buf) == DOMAIN buf = 0 .. PROMPT - 1 /\ buf[PROMPT - 1] = NUL

\* The string w lies at i, with its NUL.
Lies(buf, i, w) ==
    /\ i \in Nat /\ i + Len(w) \in 0 .. PROMPT - 1
    /\ buf[i + Len(w)] = NUL
    /\ \A j \in 1 .. Len(w) : buf[i + j - 1] = w[j] /\ w[j] # NUL

\* Where a string ends.
LEMMA EndOfFacts ==
    ASSUME NEW buf, Ended(buf), NEW i \in 0 .. PROMPT - 1
    PROVE  /\ EndOf(buf, i) \in i .. PROMPT - 1 /\ buf[EndOf(buf, i)] = NUL
           /\ \A j \in i .. EndOf(buf, i) - 1 : buf[j] # NUL
<1> DEFINE J == {j \in i .. PROMPT : j = PROMPT \/ buf[j] = NUL}
           e == EndOf(buf, i)
<1>1. PROMPT \in Nat \ {0, 1}
  BY TerminalAssumption
<1>2. J \subseteq Nat /\ PROMPT - 1 \in J
  BY <1>1 DEF Ended
<1>3. e \in J /\ \A j \in J : e <= j
  <2>1. e = Min(J)
    BY DEF EndOf
  <2> HIDE DEF J, e
  <2> QED BY <1>2, <2>1, MinFacts
<1>4. e \in i .. PROMPT - 1 /\ buf[e] = NUL
  <2> HIDE DEF e
  <2> QED BY <1>1, <1>2, <1>3
<1>5. ASSUME NEW j \in i .. e - 1 PROVE buf[j] # NUL
  <2> HIDE DEF e
  <2> QED BY <1>1, <1>3, <1>4
<1> HIDE DEF e
<1> QED BY <1>4, <1>5 DEF e

\* There is but one such place.
LEMMA EndIs ==
    ASSUME NEW buf, NEW e \in 0 .. PROMPT - 1, NEW i \in 0 .. e, buf[e] = NUL,
           \A j \in i .. e - 1 : buf[j] # NUL
    PROVE  EndOf(buf, i) = e
<1> DEFINE J == {j \in i .. PROMPT : j = PROMPT \/ buf[j] = NUL}
<1>1. PROMPT \in Nat \ {0, 1}
  BY TerminalAssumption
<1>2. J \subseteq Nat /\ e \in J
  BY <1>1
<1>3. Min(J) \in J /\ \A j \in J : Min(J) <= j
  <2> HIDE DEF J
  <2> QED BY <1>2, MinFacts
<1> DEFINE m == Min(J)
<1>4. m \in J /\ m \in i .. e /\ (m < e => buf[m] # NUL) /\ m # PROMPT
  <2> HIDE DEF m
  <2>1. m \in J /\ m <= e
    BY <1>2, <1>3 DEF m
  <2> QED BY <1>1, <2>1
<1>5. m = e
  <2> HIDE DEF m
  <2> QED BY <1>1, <1>4
<1> QED BY <1>5 DEF EndOf

\* The string there, character by character.
LEMMA StringFacts ==
    ASSUME NEW buf, NEW i
    PROVE  LET s == StringAt(buf, i)
           IN  /\ DOMAIN s = 1 .. EndOf(buf, i) - i /\ s = [k \in DOMAIN s |-> s[k]]
               /\ \A k \in DOMAIN s : s[k] = buf[i + k - 1]
BY DEF StringAt

\* A string that lies at i is the one read there.
LEMMA StringIs ==
    ASSUME NEW S, NEW w \in Seq(S), NEW buf, NEW i, Lies(buf, i, w)
    PROVE  StringAt(buf, i) = w
<1>1. /\ Len(w) \in Nat /\ DOMAIN w = 1 .. Len(w) /\ w = [k \in 1 .. Len(w) |-> w[k]]
      /\ PROMPT \in Nat
  BY LenProperties, TerminalAssumption
<1>2. i \in 0 .. i + Len(w) /\ i + Len(w) \in 0 .. PROMPT - 1
  BY <1>1 DEF Lies
<1>3. ASSUME NEW j \in i .. i + Len(w) - 1 PROVE buf[j] # NUL
  <2>1. i \in Nat /\ j \in Int /\ i <= j /\ j < i + Len(w)
    BY <1>1, <1>2
  <2>2. j - i + 1 \in 1 .. Len(w) /\ i + (j - i + 1) - 1 = j
    BY <1>1, <2>1
  <2> QED BY <2>2 DEF Lies
<1>4. EndOf(buf, i) = i + Len(w)
  BY <1>2, <1>3, EndIs DEF Lies
<1>5. i + Len(w) - i = Len(w)
  BY <1>1, <1>2
<1> DEFINE s == StringAt(buf, i)
<1>6. /\ DOMAIN s = 1 .. EndOf(buf, i) - i /\ s = [k \in DOMAIN s |-> s[k]]
      /\ \A k \in DOMAIN s : s[k] = buf[i + k - 1]
  BY StringFacts
<1>7. \A k \in 1 .. Len(w) : buf[i + k - 1] = w[k]
  BY DEF Lies
<1> HIDE DEF s
<1>8. DOMAIN s = DOMAIN w
  <2>1. EndOf(buf, i) - i = Len(w)
    BY <1>1, <1>2, <1>4
  <2> QED BY <1>1, <1>6, <2>1, Zenon
<1>9. \A k \in DOMAIN w : s[k] = w[k]
  BY <1>1, <1>6, <1>7, <1>8
<1>10. s = w
  BY <1>1, <1>6, <1>8, <1>9
<1> QED BY <1>10 DEF s

\* The line from k + 1 on lies at t.
Rest(buf, t, line, k) ==
    /\ t \in Nat /\ k \in 0 .. Len(line) /\ t + (Len(line) - k) \in 0 .. PROMPT - 1
    /\ buf[t + (Len(line) - k)] = NUL
    /\ \A j \in k + 1 .. Len(line) : buf[t + (j - k - 1)] = line[j] /\ line[j] # NUL

\* Without its first character, the rest moves forward by one place.
LEMMA ShiftFacts ==
    ASSUME NEW buf, Ended(buf), NEW t, NEW S, NEW line \in Seq(S), NEW k,
           Rest(buf, t, line, k), k < Len(line)
    PROVE  LET moved == promptShift(buf, t)
           IN  /\ Ended(moved)
               /\ \A j \in 0 .. t - 1 : moved[j] = buf[j]
               /\ Rest(moved, t, line, k + 1)
               /\ k + 1 = Len(line) => moved[t + 1] = NUL
<1> DEFINE n == Len(line) - k - 1
           moved == promptShift(buf, t)
           rest == StringAt(buf, t + 1)
<1>1. /\ Len(line) \in Nat /\ k \in Nat /\ n \in Nat /\ t \in Nat /\ PROMPT \in Nat
      /\ t + 1 + n \in 0 .. PROMPT - 1 /\ t + (Len(line) - k) = t + 1 + n
      /\ buf[t + 1 + n] = NUL
  BY LenProperties, TerminalAssumption DEF Rest
<1>2. ASSUME NEW j \in t + 1 .. t + 1 + n - 1
      PROVE  buf[j] # NUL /\ buf[j] = line[k + 1 + (j - t)]
  <2>1. k + 1 + (j - t) \in k + 1 .. Len(line) /\ t + ((k + 1 + (j - t)) - k - 1) = j
    BY <1>1
  <2> QED BY <2>1 DEF Rest
<1>3. EndOf(buf, t + 1) = t + 1 + n
  BY <1>1, <1>2, EndIs
<1>4. DOMAIN rest = 1 .. n /\ \A j \in 1 .. n : rest[j] = buf[t + 1 + j - 1]
  <2>1. t + 1 + n - (t + 1) = n
    BY <1>1
  <2>2. DOMAIN rest = 1 .. EndOf(buf, t + 1) - (t + 1)
        /\ \A j \in DOMAIN rest : rest[j] = buf[t + 1 + j - 1]
    BY StringFacts
  <2> HIDE DEF n, rest
  <2>3. EndOf(buf, t + 1) - (t + 1) = n
    BY <1>1, <1>3
  <2>4. DOMAIN rest = 1 .. n
    BY <2>2, <2>3, Zenon
  <2> QED BY <2>2, <2>4
<1>5. Len(rest) = n /\ \A j \in 1 .. n : rest[j] = buf[t + j]
  <2>1. ASSUME NEW j \in 1 .. n PROVE t + 1 + j - 1 = t + j
    BY <1>1
  <2>2. Len(rest) = n
    <3> HIDE DEF n, rest
    <3> QED BY <1>1, <1>4
  <2> HIDE DEF n, rest
  <2> QED BY <1>4, <2>1, <2>2
<1> HIDE DEF n, rest
<1>6. DOMAIN moved = DOMAIN buf
      /\ \A j \in DOMAIN buf : moved[j] =
            IF j \in t .. t + n - 1 THEN rest[j - t + 1] ELSE IF j = t + n THEN NUL ELSE buf[j]
  BY <1>5 DEF promptShift, Stored, rest
<1>7. DOMAIN buf = 0 .. PROMPT - 1 /\ buf[PROMPT - 1] = NUL
  BY DEF Ended
<1> HIDE DEF moved
<1>8. ASSUME NEW j \in 0 .. PROMPT - 1
      PROVE  moved[j] = IF j \in t .. t + n - 1 THEN buf[j + 1] ELSE IF j = t + n THEN NUL ELSE buf[j]
  <2>1. j \in t .. t + n - 1 => j - t + 1 \in 1 .. n /\ t + (j - t + 1) = j + 1
    BY <1>1
  <2> QED BY <1>5, <1>6, <1>7, <2>1
<1>9. Ended(moved)
  BY <1>1, <1>6, <1>7, <1>8 DEF Ended
<1>10. Rest(moved, t, line, k + 1)
  <2>1. t + (Len(line) - (k + 1)) = t + n /\ t + n \in 0 .. PROMPT - 1 /\ moved[t + n] = NUL
    BY <1>1, <1>8 DEF n
  <2>2. ASSUME NEW j \in k + 1 + 1 .. Len(line)
        PROVE  moved[t + (j - (k + 1) - 1)] = line[j] /\ line[j] # NUL
    <3> DEFINE i == t + (j - (k + 1) - 1)
    <3>1. /\ i \in t .. t + n - 1 /\ i \in 0 .. PROMPT - 1
          /\ i + 1 \in t + 1 .. t + 1 + n - 1 /\ k + 1 + ((i + 1) - t) = j
      BY <1>1 DEF n
    <3> HIDE DEF i
    <3>4. buf[i + 1] # NUL /\ buf[i + 1] = line[k + 1 + ((i + 1) - t)]
      BY <1>2, <3>1
    <3>2. moved[i] = buf[i + 1]
      BY <1>8, <3>1
    <3>3. buf[i + 1] = line[j] /\ buf[i + 1] # NUL
      BY <3>1, <3>4
    <3> QED BY <3>2, <3>3 DEF i
  <2> QED BY <1>1, <2>1, <2>2 DEF Rest, n
<1>11. ASSUME NEW j \in 0 .. t - 1 PROVE moved[j] = buf[j]
  BY <1>1, <1>8
<1>12. k + 1 = Len(line) => moved[t + 1] = NUL
  BY <1>1, <1>8 DEF n
<1> QED BY <1>9, <1>10, <1>11, <1>12 DEF moved

\* The marks of quotation that are open at each place of a line.
LEMMA OpenMarkFacts ==
    ASSUME NEW S, NEW line \in Seq(S)
    PROVE  LET mark == OpenMark(line)
           IN  /\ mark[0] = NUL
               /\ \A k \in 1 .. Len(line) : mark[k] =
                     IF mark[k - 1] = NUL THEN IF line[k] \in Quotes THEN line[k] ELSE NUL
                     ELSE IF line[k] = mark[k - 1] THEN NUL ELSE mark[k - 1]
<1> DEFINE n == Len(line)
           Next(m, c) == IF m = NUL THEN IF c \in Quotes THEN c ELSE NUL
                         ELSE IF c = m THEN NUL ELSE m
           L(f, k) == f = [i \in 0 .. k |-> IF i = 0 THEN NUL ELSE Next(f[i - 1], line[i])]
           I == {k \in 0 .. n : ~ \E f : L(f, k)}
<1>1. n \in Nat
  BY LenProperties
<1>2. (\E g : L(g, n)) => L(OpenMark(line), n)
  BY Zenon DEF OpenMark
<1> HIDE DEF n, Next
<1>3. 0 \notin I
  <2> DEFINE f == [i \in 0 .. 0 |-> NUL]
  <2>1. \A i \in 0 .. 0 : f[i] = IF i = 0 THEN NUL ELSE Next(f[i - 1], line[i])
    OBVIOUS
  <2>2. L(f, 0)
    <3> HIDE DEF f
    <3> SUFFICES f = [i \in 0 .. 0 |-> f[i]]
      BY <2>1
    <3> QED BY Zenon DEF f
  <2> HIDE DEF f, L
  <2> QED BY <2>2
<1>4. ASSUME NEW k \in 1 .. n, k - 1 \notin I PROVE k \notin I
  <2>1. PICK f : L(f, k - 1)
    BY <1>1, <1>4
  <2> DEFINE g == [i \in 0 .. k |-> IF i = k THEN Next(f[k - 1], line[k]) ELSE f[i]]
  <2>2. ASSUME NEW i \in 0 .. k
        PROVE  g[i] = IF i = 0 THEN NUL ELSE Next(g[i - 1], line[i])
    <3>1. \A j \in 0 .. k - 1 : f[j] = IF j = 0 THEN NUL ELSE Next(f[j - 1], line[j])
      BY <2>1
    <3>2. CASE i = k
      BY <3>2
    <3>3. CASE i # k
      <4>1. i \in 0 .. k - 1 /\ (i # 0 => i - 1 \in 0 .. k - 1)
        BY <3>3
      <4>2. g[i] = f[i] /\ (i # 0 => g[i - 1] = f[i - 1])
        BY <3>3, <4>1
      <4> HIDE DEF g
      <4> QED BY <3>1, <4>1, <4>2
    <3> QED BY <3>2, <3>3
  <2>3. L(g, k)
    <3> HIDE DEF g
    <3> SUFFICES g = [i \in 0 .. k |-> g[i]]
      BY <2>2
    <3> QED BY Zenon DEF g
  <2> QED BY <2>3
<1> HIDE DEF L
<1>5. I = {}
  <2> HIDE DEF I
  <2>1. I \subseteq 0 .. n
    BY DEF I
  <2> QED BY <1>1, <1>3, <1>4, <2>1, NoFirst
<1>6. L(OpenMark(line), n)
  <2>1. n \in 0 .. n
    BY <1>1
  <2>2. n \notin I
    <3> HIDE DEF I
    <3> QED BY <1>5
  <2>3. \E f : L(f, n)
    BY <2>1, <2>2
  <2> QED BY <1>2, <2>3, Zenon
<1>7. PICK mark : mark = OpenMark(line)
  OBVIOUS
<1>8. \A k \in 0 .. n : mark[k] = IF k = 0 THEN NUL ELSE Next(mark[k - 1], line[k])
  BY <1>6, <1>7 DEF L
<1>9. mark[0] = NUL
  BY <1>1, <1>8
<1>10. ASSUME NEW k \in 1 .. n PROVE mark[k] = Next(mark[k - 1], line[k])
  BY <1>1, <1>8
<1> QED BY <1>7, <1>9, <1>10 DEF Next, n

\* What the k-th character does to the words in front of it.
WordStep(words, line, k) ==
    IF OpenMark(line)[k] # OpenMark(line)[k - 1] THEN words
    ELSE IF OpenMark(line)[k] = NUL /\ line[k] \in Blanks THEN Append(words, <<>>)
    ELSE [words EXCEPT ![Len(words)] = Append(@, line[k])]

\* The words at each place of a line.
LEMMA WordFacts ==
    ASSUME NEW S, NEW line \in Seq(S)
    PROVE  LET words == WordsAt(line)
           IN  /\ words[0] = << <<>> >>
               /\ \A k \in 1 .. Len(line) : words[k] = WordStep(words[k - 1], line, k)
<1> DEFINE n == Len(line)
           Next(u, k) == WordStep(u, line, k)
           L(f, k) == f = [i \in 0 .. k |-> IF i = 0 THEN << <<>> >> ELSE Next(f[i - 1], i)]
           I == {k \in 0 .. n : ~ \E f : L(f, k)}
<1>1. n \in Nat
  BY LenProperties
<1>2. (\E g : L(g, n)) => L(WordsAt(line), n)
  BY Zenon DEF WordsAt, WordStep
<1> HIDE DEF n, Next
<1>3. 0 \notin I
  <2> DEFINE f == [i \in 0 .. 0 |-> << <<>> >>]
  <2>1. \A i \in 0 .. 0 : f[i] = IF i = 0 THEN << <<>> >> ELSE Next(f[i - 1], i)
    OBVIOUS
  <2>2. L(f, 0)
    <3> HIDE DEF f
    <3> SUFFICES f = [i \in 0 .. 0 |-> f[i]]
      BY <2>1
    <3> QED BY Zenon DEF f
  <2> HIDE DEF f, L
  <2> QED BY <2>2
<1>4. ASSUME NEW k \in 1 .. n, k - 1 \notin I PROVE k \notin I
  <2>1. PICK f : L(f, k - 1)
    BY <1>1, <1>4
  <2> DEFINE g == [i \in 0 .. k |-> IF i = k THEN Next(f[k - 1], k) ELSE f[i]]
  <2>2. ASSUME NEW i \in 0 .. k
        PROVE  g[i] = IF i = 0 THEN << <<>> >> ELSE Next(g[i - 1], i)
    <3>1. \A j \in 0 .. k - 1 : f[j] = IF j = 0 THEN << <<>> >> ELSE Next(f[j - 1], j)
      BY <2>1
    <3>2. CASE i = k
      BY <3>2
    <3>3. CASE i # k
      <4>1. i \in 0 .. k - 1 /\ (i # 0 => i - 1 \in 0 .. k - 1)
        BY <3>3
      <4>2. g[i] = f[i] /\ (i # 0 => g[i - 1] = f[i - 1])
        BY <3>3, <4>1
      <4> HIDE DEF g
      <4> QED BY <3>1, <4>1, <4>2
    <3> QED BY <3>2, <3>3
  <2>3. L(g, k)
    <3> HIDE DEF g
    <3> SUFFICES g = [i \in 0 .. k |-> g[i]]
      BY <2>2
    <3> QED BY Zenon DEF g
  <2> QED BY <2>3
<1> HIDE DEF L
<1>5. I = {}
  <2> HIDE DEF I
  <2>1. I \subseteq 0 .. n
    BY DEF I
  <2> QED BY <1>1, <1>3, <1>4, <2>1, NoFirst
<1>6. L(WordsAt(line), n)
  <2>1. n \in 0 .. n
    BY <1>1
  <2>2. n \notin I
    <3> HIDE DEF I
    <3> QED BY <1>5
  <2>3. \E f : L(f, n)
    BY <2>1, <2>2
  <2> QED BY <1>2, <2>3, Zenon
<1>7. PICK words : words = WordsAt(line)
  OBVIOUS
<1>8. \A k \in 0 .. n : words[k] = IF k = 0 THEN << <<>> >> ELSE Next(words[k - 1], k)
  BY <1>6, <1>7 DEF L
<1>9. words[0] = << <<>> >>
  BY <1>1, <1>8
<1>10. ASSUME NEW k \in 1 .. n PROVE words[k] = Next(words[k - 1], k)
  BY <1>1, <1>8
<1> QED BY <1>7, <1>9, <1>10 DEF Next, n

\* The last of the words u is complete, and the next one starts.
Began(u, v) ==
    /\ Len(v) = Len(u) + 1 /\ v[Len(v)] = <<>>
    /\ \A w \in 1 .. Len(u) : v[w] = u[w]

\* The last of the words u has one more character.
Grew(u, v, c) ==
    /\ Len(v) = Len(u) /\ Len(v[Len(u)]) = Len(u[Len(u)]) + 1
    /\ \A j \in 1 .. Len(u[Len(u)]) : v[Len(u)][j] = u[Len(u)][j]
    /\ v[Len(u)][Len(u[Len(u)]) + 1] = c
    /\ \A w \in 1 .. Len(u) - 1 : v[w] = u[w]

\* Words are sequences of characters, and there is always one.
IsWords(S, u) == u \in Seq(Seq(S)) /\ Len(u) > 0

\* A word is complete.
LEMMA BeganFacts ==
    ASSUME NEW S, NEW u, IsWords(S, u)
    PROVE  IsWords(S, Append(u, <<>>)) /\ Began(u, Append(u, <<>>))
<1> DEFINE v == Append(u, <<>>)
<1>1. <<>> \in Seq(S)
  BY EmptySeq
<1>2. /\ v \in Seq(Seq(S)) /\ Len(v) = Len(u) + 1
      /\ \A w \in 1 .. Len(u) : v[w] = u[w]
      /\ v[Len(u) + 1] = <<>>
  BY <1>1, AppendProperties DEF IsWords
<1>3. Len(u) \in Nat
  BY LenProperties DEF IsWords
<1> HIDE DEF v
<1> QED BY <1>2, <1>3 DEF IsWords, Began, v

\* A character more.
LEMMA GrewFacts ==
    ASSUME NEW S, NEW u, IsWords(S, u), NEW c \in S
    PROVE  LET v == [u EXCEPT ![Len(u)] = Append(@, c)]
           IN  IsWords(S, v) /\ Grew(u, v, c)
<1> DEFINE n == Len(u)
           a == u[n]
           b == Append(a, c)
           v == [u EXCEPT ![n] = b]
<1>1. n \in Nat \ {0} /\ DOMAIN u = 1 .. n /\ u \in Seq(Seq(S))
  BY LenProperties DEF IsWords
<1>2. a \in Seq(S)
  BY <1>1, ElementOfSeq
<1>3. /\ b \in Seq(S) /\ Len(b) = Len(a) + 1
      /\ \A j \in 1 .. Len(a) : b[j] = a[j]
      /\ b[Len(a) + 1] = c
  BY <1>2, AppendProperties
<1>4. v \in Seq(Seq(S)) /\ Len(v) = n
  <2> HIDE DEF b
  <2> QED BY <1>1, <1>3, ExceptSeq
<1>5. v[n] = b /\ \A w \in 1 .. n - 1 : v[w] = u[w]
  <2> HIDE DEF b, n
  <2> QED BY <1>1
<1>6. v = [u EXCEPT ![Len(u)] = Append(@, c)]
  OBVIOUS
<1> HIDE DEF v, b
<1>7. IsWords(S, v) /\ Grew(u, v, c)
  BY <1>1, <1>3, <1>4, <1>5 DEF IsWords, Grew
<1> QED BY <1>6, <1>7

\* What a character may do to the words in front of it.
LEMMA WordStepFacts ==
    ASSUME NEW S, NEW line \in Seq(S), NEW k \in 1 .. Len(line), NEW u, IsWords(S, u)
    PROVE  LET v == WordStep(u, line, k)
               same == OpenMark(line)[k] = OpenMark(line)[k - 1]
               cuts == OpenMark(line)[k] = NUL /\ line[k] \in Blanks
           IN  /\ IsWords(S, v)
               /\ ~same => v = u
               /\ same /\ cuts => Began(u, v)
               /\ same /\ ~cuts => Grew(u, v, line[k])
<1>1. line[k] \in S
  BY ElementOfSeq
<1> QED BY <1>1, BeganFacts, GrewFacts DEF WordStep

\* At each place of a line.
LEMMA WordsType ==
    ASSUME NEW S, NEW line \in Seq(S), NEW k \in 0 .. Len(line)
    PROVE  IsWords(S, WordsAt(line)[k])
<1> DEFINE n == Len(line)
           I == {i \in 0 .. n : ~ IsWords(S, WordsAt(line)[i])}
<1>1. n \in Nat
  BY LenProperties
<1>2. 0 \notin I
  <2>1. << <<>> >> \in Seq(Seq(S)) /\ Len(<< <<>> >>) > 0
    BY EmptySeq
  <2>2. WordsAt(line)[0] = << <<>> >>
    BY WordFacts
  <2>3. IsWords(S, WordsAt(line)[0])
    BY <2>1, <2>2, Zenon DEF IsWords
  <2> QED BY <2>3
<1>3. ASSUME NEW i \in 1 .. n, i - 1 \notin I PROVE i \notin I
  <2>1. IsWords(S, WordsAt(line)[i - 1])
    BY <1>1, <1>3
  <2>2. WordsAt(line)[i] = WordStep(WordsAt(line)[i - 1], line, i)
    BY WordFacts
  <2> QED BY <2>1, <2>2, WordStepFacts
<1>4. I = {}
  <2>1. I \subseteq 0 .. n
    OBVIOUS
  <2> HIDE DEF I
  <2> QED BY <1>1, <1>2, <1>3, <2>1, NoFirst
<1> QED BY <1>4

\* The word that is open may still grow; those before it are complete.
Extends(u, v) ==
    Len(v) >= Len(u) /\ \A w \in 1 .. Len(u) - 1 : v[w] = u[w]

\* One character more of the line.
LEMMA ExtendsStep ==
    ASSUME NEW S, NEW line \in Seq(S), NEW k \in 1 .. Len(line)
    PROVE  Extends(WordsAt(line)[k - 1], WordsAt(line)[k])
<1> DEFINE u == WordsAt(line)[k - 1]
           v == WordsAt(line)[k]
<1>1. k - 1 \in 0 .. Len(line) /\ k \in 0 .. Len(line)
  BY LenProperties
<1>2. IsWords(S, u) /\ v = WordStep(u, line, k)
  BY <1>1, WordsType, WordFacts
<1>3. Len(u) \in Nat
  BY <1>2, LenProperties DEF IsWords
<1> HIDE DEF u, v
<1>4. v = u \/ Began(u, v) \/ Grew(u, v, line[k])
  BY <1>2, WordStepFacts
<1>5. Extends(u, v)
  BY <1>3, <1>4 DEF Extends, Began, Grew
<1> QED BY <1>5 DEF u, v

\* The words of a part of the line stay to its end.
LEMMA WordsStay ==
    ASSUME NEW S, NEW line \in Seq(S), NEW k \in 0 .. Len(line)
    PROVE  Extends(WordsAt(line)[k], Words(line))
<1> DEFINE n == Len(line) - k
           W(i) == WordsAt(line)[i]
           I == {i \in 0 .. n : ~ Extends(W(k), W(k + i))}
<1>1. n \in Nat /\ k \in Nat /\ Len(line) \in Nat
  BY LenProperties
<1>2. ASSUME NEW i \in 0 .. Len(line) PROVE Len(W(i)) \in Nat
  BY WordsType, LenProperties DEF IsWords
<1>3. 0 \notin I
  <2>1. Len(W(k)) \in Nat /\ k + 0 = k
    BY <1>1, <1>2
  <2> HIDE DEF W
  <2> QED BY <2>1 DEF Extends
<1>4. ASSUME NEW i \in 1 .. n, i - 1 \notin I PROVE i \notin I
  <2>1. i - 1 \in 0 .. n /\ k + i \in 1 .. Len(line) /\ (k + i) - 1 = k + (i - 1)
        /\ k + (i - 1) \in 0 .. Len(line) /\ k + i \in 0 .. Len(line)
    BY <1>1
  <2>2. Extends(W(k), W(k + (i - 1)))
    BY <1>4, <2>1
  <2>3. Extends(W((k + i) - 1), W(k + i))
    BY <2>1, ExtendsStep
  <2>4. Len(W(k)) \in Nat /\ Len(W(k + (i - 1))) \in Nat /\ Len(W(k + i)) \in Nat
    BY <1>2, <2>1
  <2> HIDE DEF W
  <2>5. Extends(W(k), W(k + i))
    BY <2>1, <2>2, <2>3, <2>4 DEF Extends
  <2> QED BY <2>5
<1>5. I = {}
  <2>1. I \subseteq 0 .. n
    OBVIOUS
  <2> HIDE DEF I
  <2> QED BY <1>1, <1>3, <1>4, <2>1, NoFirst
<1>6. n \in 0 .. n /\ k + n = Len(line)
  BY <1>1
<1> HIDE DEF W, n
<1>7. Extends(W(k), W(Len(line)))
  BY <1>5, <1>6
<1> QED BY <1>7 DEF W, Words

\* The characters that can be in the buffer.
BufferChars == {prompt[j] : j \in 0 .. PROMPT - 1}

\* promptPurify leaves the line that was typed at the start of the buffer.
LEMMA PurifiedFacts ==
    ASSUME Ended(prompt), Typed # <<>>
    PROVE  /\ Typed \in Seq(BufferChars) /\ Len(Typed) > 0 /\ Typed[Len(Typed)] \notin Blanks
           /\ Ended(Purified(prompt)) /\ Rest(Purified(prompt), 0, Typed, 0)
<1> DEFINE n == EndOf(prompt, 0)
           line == StringAt(prompt, 0)
           ink == {k \in DOMAIN line : line[k] \notin Blanks}
           a == Min(ink)
           b == Max(ink)
           first == Min({j \in 0 .. n : j = n \/ prompt[j] \notin Blanks})
           rest == StringAt(prompt, first)
           moved == Stored(prompt, 0, rest)
           last == Max({-1} \cup {j \in 0 .. n - first - 1 : moved[j] \notin Blanks})
           pure == [j \in DOMAIN prompt |-> IF j > last /\ j < n - first THEN NUL ELSE moved[j]]
<1>1. PROMPT \in Nat \ {0, 1} /\ DOMAIN prompt = 0 .. PROMPT - 1
  BY TerminalAssumption DEF Ended
<1>2. /\ n \in 0 .. PROMPT - 1 /\ prompt[n] = NUL
      /\ \A j \in 0 .. n - 1 : prompt[j] # NUL
  BY <1>1, EndOfFacts
<1>3. DOMAIN line = 1 .. n /\ \A k \in 1 .. n : line[k] = prompt[k - 1]
  <2>1. DOMAIN line = 1 .. n - 0 /\ \A k \in DOMAIN line : line[k] = prompt[0 + k - 1]
    BY StringFacts
  <2> HIDE DEF line, n
  <2> QED BY <1>2, <2>1
<1>4. line \in Seq(BufferChars) /\ Len(line) = n
  <2>1. \A k \in 1 .. n : line[k] \in BufferChars
    <3> HIDE DEF line, n
    <3> QED BY <1>1, <1>2, <1>3 DEF BufferChars
  <2>2. line = [k \in 1 .. n |-> line[k]]
    <3>1. line = [k \in DOMAIN line |-> line[k]]
      BY StringFacts
    <3> HIDE DEF line, n
    <3> QED BY <1>3, <3>1
  <2> HIDE DEF line, n
  <2> QED BY <1>2, <2>1, <2>2, IsASeq, LenProperties
<1>5. ink # {} /\ Typed = SubSeq(line, a, b)
  BY DEF Typed
<1>6. Purified(prompt) = pure
  BY DEF Purified, promptPurify
<1> HIDE DEF line, n, pure
<1>7. /\ a \in 1 .. n /\ b \in a .. n /\ line[a] \notin Blanks /\ line[b] \notin Blanks
      /\ \A k \in 1 .. a - 1 : line[k] \in Blanks
      /\ \A k \in b + 1 .. n : line[k] \in Blanks
  <2>1. ink \subseteq Nat /\ ink \subseteq Int /\ \A k \in ink : k <= n
    BY <1>2, <1>3
  <2>2. a \in ink /\ \A k \in ink : a <= k
    <3> HIDE DEF ink
    <3> QED BY <1>5, <2>1, MinFacts
  <2>3. b \in ink /\ \A k \in ink : k <= b
    <3>1. n \in Nat
      BY <1>2
    <3> HIDE DEF ink
    <3> QED BY <1>5, <2>1, <3>1, MaxFacts
  <2> HIDE DEF a, b
  <2>4. a \in 1 .. n /\ b \in 1 .. n /\ line[a] \notin Blanks /\ line[b] \notin Blanks
    BY <1>3, <2>2, <2>3
  <2>5. a <= b
    BY <2>2, <2>3
  <2>6. ASSUME NEW k \in 1 .. n, line[k] \notin Blanks PROVE a <= k /\ k <= b
    BY <1>3, <2>2, <2>3, <2>6
  <2>7. \A k \in 1 .. a - 1 : line[k] \in Blanks
    <3>1. ASSUME NEW k \in 1 .. a - 1 PROVE k \in 1 .. n /\ ~(a <= k)
      BY <1>2, <2>4
    <3> QED BY <2>6, <3>1
  <2>8. \A k \in b + 1 .. n : line[k] \in Blanks
    <3>1. ASSUME NEW k \in b + 1 .. n PROVE k \in 1 .. n /\ ~(k <= b)
      BY <1>2, <2>4
    <3> QED BY <2>6, <3>1
  <2>9. b \in a .. n
    BY <1>2, <2>4, <2>5
  <2> QED BY <2>4, <2>7, <2>8, <2>9
<1>8. first = a - 1
  <2> DEFINE J == {j \in 0 .. n : j = n \/ prompt[j] \notin Blanks}
  <2>1. J \subseteq Nat /\ n \in J
    BY <1>2
  <2>2. first \in J /\ \A j \in J : first <= j
    <3>1. first = Min(J)
      OBVIOUS
    <3> HIDE DEF J, first
    <3> QED BY <2>1, <3>1, MinFacts
  <2>3. a - 1 \in J
    <3> HIDE DEF a
    <3> QED BY <1>2, <1>3, <1>7
  <2>4. ASSUME NEW j \in 0 .. a - 2 PROVE j \notin J
    <3>1. j + 1 \in 1 .. a - 1 /\ j + 1 \in 1 .. n /\ j # n /\ (j + 1) - 1 = j
      <4> HIDE DEF a
      <4> QED BY <1>2, <1>7
    <3>2. line[j + 1] = prompt[j] /\ line[j + 1] \in Blanks
      <4> HIDE DEF a
      <4>1. line[j + 1] = prompt[(j + 1) - 1]
        BY <1>3, <3>1
      <4> QED BY <1>7, <3>1, <4>1
    <3> HIDE DEF a
    <3> QED BY <3>1, <3>2
  <2> HIDE DEF J, first, a
  <2> QED BY <1>2, <1>7, <2>1, <2>2, <2>3, <2>4
<1> HIDE DEF first, a, b
<1>9. DOMAIN moved = DOMAIN prompt
      /\ \A j \in DOMAIN prompt : moved[j] =
            IF j < n - first THEN prompt[first + j] ELSE IF j = n - first THEN NUL ELSE prompt[j]
  <2>1. EndOf(prompt, first) = n
    <3>1. n \in 0 .. PROMPT - 1 /\ first \in 0 .. n
      BY <1>2, <1>7, <1>8
    <3>2. \A j \in first .. n - 1 : prompt[j] # NUL
      BY <1>2, <3>1
    <3> QED BY <1>2, <3>1, <3>2, EndIs
  <2>2. n - first \in Nat
    BY <1>2, <1>7, <1>8
  <2>3. DOMAIN rest = 1 .. n - first /\ \A k \in 1 .. n - first : rest[k] = prompt[first + k - 1]
    <3>1. DOMAIN rest = 1 .. EndOf(prompt, first) - first
          /\ \A k \in DOMAIN rest : rest[k] = prompt[first + k - 1]
      BY StringFacts
    <3> HIDE DEF rest
    <3> QED BY <2>1, <3>1, Zenon
  <2> HIDE DEF rest
  <2>4. Len(rest) = n - first
    BY <2>2, <2>3
  <2>5. DOMAIN moved = DOMAIN prompt
        /\ \A j \in DOMAIN prompt : moved[j] =
              IF j \in 0 .. 0 + (n - first) - 1 THEN rest[j - 0 + 1]
              ELSE IF j = 0 + (n - first) THEN NUL ELSE prompt[j]
    BY <2>4 DEF Stored
  <2> HIDE DEF moved
  <2>6. ASSUME NEW j \in 0 .. PROMPT - 1, j < n - first PROVE rest[j + 1] = prompt[first + j]
    <3>1. j + 1 \in 1 .. n - first /\ first + (j + 1) - 1 = first + j
      BY <1>1, <1>2, <1>7, <1>8, <2>2, <2>6
    <3> QED BY <2>3, <3>1
  <2> QED BY <1>1, <2>2, <2>5, <2>6
<1> HIDE DEF moved
<1> DEFINE m == b - a + 1
<1>10. m \in Nat \ {0} /\ m <= n - first /\ first \in Nat /\ m <= PROMPT - 1
  BY <1>1, <1>2, <1>7, <1>8
<1>11. last = m - 1
  <2> DEFINE J == {j \in 0 .. n - first - 1 : moved[j] \notin Blanks}
             K == {-1} \cup J
  <2>1. K \subseteq Int /\ K # {} /\ n \in Nat /\ \A j \in K : j <= n
    BY <1>2, <1>10
  <2>2. last \in K /\ \A j \in K : j <= last
    <3>1. last = Max(K)
      BY DEF last
    <3> HIDE DEF K, last
    <3> QED BY <2>1, <3>1, MaxFacts
  <2>3. ASSUME NEW j \in 0 .. n - first - 1
        PROVE  moved[j] = line[a + j] /\ a + j \in 1 .. n
    <3>1. j \in DOMAIN prompt /\ j < n - first /\ a + j \in 1 .. n /\ first + j = (a + j) - 1
      BY <1>1, <1>2, <1>7, <1>8
    <3> QED BY <1>3, <1>9, <3>1
  <2>4. m - 1 \in J
    <3>1. m - 1 \in 0 .. n - first - 1 /\ a + (m - 1) = b
      BY <1>2, <1>7, <1>10
    <3> HIDE DEF m
    <3> QED BY <1>7, <2>3, <3>1
  <2>5. ASSUME NEW j \in J PROVE j <= m - 1
    <3>1. j \in 0 .. n - first - 1 /\ moved[j] = line[a + j] /\ a + j \in 1 .. n
          /\ moved[j] \notin Blanks
      BY <2>3
    <3>2. a + j \notin b + 1 .. n
      BY <1>7, <3>1
    <3> QED BY <1>2, <1>7, <3>1, <3>2
  <2> HIDE DEF J, last, m
  <2> QED BY <1>10, <2>2, <2>4, <2>5
<1> HIDE DEF last
<1>12. /\ Typed \in Seq(BufferChars) /\ Len(Typed) = m
       /\ \A i \in 1 .. m : Typed[i] = line[a + i - 1]
  <2>1. /\ a \in 1 .. Len(line) + 1 /\ b \in 0 .. Len(line) /\ a <= b + 1
    BY <1>2, <1>4, <1>7
  <2> QED BY <1>4, <1>5, <2>1, PartItems
<1>13. ASSUME NEW j \in 0 .. PROMPT - 1, j <= m
       PROVE  pure[j] = IF j < m THEN Typed[j + 1] ELSE NUL
  <2>1. pure[j] = IF j > m - 1 /\ j < n - first THEN NUL ELSE moved[j]
    BY <1>1, <1>11 DEF pure
  <2>2. CASE j < m
    <3>1. moved[j] = prompt[first + j]
      BY <1>1, <1>2, <1>9, <1>10, <2>2
    <3>2. j + 1 \in 1 .. m /\ a + (j + 1) - 1 = a + j /\ a + j \in 1 .. n /\ (a + j) - 1 = first + j
      BY <1>2, <1>7, <1>8, <2>2
    <3>3. Typed[j + 1] = prompt[first + j]
      BY <1>3, <1>12, <3>2
    <3> QED BY <1>10, <2>1, <2>2, <3>1, <3>3
  <2>3. CASE j = m
    <3>1. m < n - first \/ m = n - first
      BY <1>2, <1>10
    <3> QED BY <1>1, <1>2, <1>9, <1>10, <2>1, <2>3, <3>1
  <2> QED BY <1>13, <1>10, <2>2, <2>3
<1>14. Ended(pure)
  <2>1. DOMAIN pure = DOMAIN prompt /\ PROMPT - 1 \in DOMAIN prompt
    BY <1>1 DEF pure
  <2>2. pure[PROMPT - 1] = NUL
    <3>1. pure[PROMPT - 1] = IF PROMPT - 1 > last /\ PROMPT - 1 < n - first THEN NUL
                             ELSE moved[PROMPT - 1]
      BY <2>1 DEF pure
    <3>2. moved[PROMPT - 1] = NUL
      BY <1>2, <1>9, <1>10, <2>1 DEF Ended
    <3> QED BY <3>1, <3>2
  <2> QED BY <1>1, <2>1, <2>2 DEF Ended
<1>15. Rest(pure, 0, Typed, 0)
  <2>1. 0 + (m - 0) \in 0 .. PROMPT - 1 /\ 0 + (m - 0) = m /\ m \in 0 .. PROMPT - 1
    BY <1>1, <1>10
  <2>2. pure[m] = NUL
    BY <1>10, <1>13, <2>1
  <2>3. ASSUME NEW j \in 1 .. m PROVE pure[j - 1] = Typed[j] /\ Typed[j] # NUL
    <3>1. j - 1 \in 0 .. PROMPT - 1 /\ j - 1 < m /\ (j - 1) + 1 = j
      <4> HIDE DEF m
      <4> QED BY <1>1, <1>10, <2>1
    <3>2. pure[j - 1] = Typed[j]
      BY <1>10, <1>13, <3>1
    <3>3. a + j - 1 \in 1 .. n /\ (a + j - 1) - 1 \in 0 .. n - 1
      BY <1>2, <1>7
    <3>4. Typed[j] = prompt[(a + j - 1) - 1]
      BY <1>3, <1>12, <3>3
    <3> QED BY <1>2, <3>2, <3>3, <3>4
  <2>4. ASSUME NEW j \in 0 + 1 .. m PROVE 0 + (j - 0 - 1) = j - 1 /\ j \in 1 .. m
    BY <1>10
  <2> HIDE DEF m
  <2> QED BY <1>10, <1>12, <2>1, <2>2, <2>3, <2>4 DEF Rest
<1>16. Typed[m] = line[b]
  <2>1. m \in 1 .. m /\ a + m - 1 = b
    BY <1>2, <1>7, <1>10
  <2> HIDE DEF m
  <2> QED BY <1>12, <2>1
<1> QED BY <1>6, <1>7, <1>10, <1>12, <1>14, <1>15, <1>16

-----------------------------------------------------------------------------
(***************************************************************************)
(* The loop of shellParse                                                  *)
(***************************************************************************)

\* The strings found so far are the words that are complete, in front of
\* `begin`.
Found(buf, found, words, begin) ==
    \A w \in 1 .. Len(found) :
        Lies(buf, found[w], words[w]) /\ found[w] + Len(words[w]) < begin

\* The word that is open lies from `begin` to t.
Opened(buf, word, begin, t) ==
    /\ begin \in 0 .. t /\ Len(word) = t - begin
    /\ \A j \in 1 .. t - begin : buf[begin + j - 1] = word[j] /\ word[j] # NUL

\* At t, after k characters of the line: `words` are the words of those k.
Loop(line, buf, found, begin, t, k, words) ==
    /\ Ended(buf) /\ Rest(buf, t, line, k)
    /\ found \in Seq(Nat) /\ Len(words) = Len(found) + 1
    /\ Opened(buf, words[Len(words)], begin, t)
    /\ Found(buf, found, words, begin)

\* What is written from t on does not touch the words in front of it.
LEMMA InFrontStays ==
    ASSUME NEW buf, NEW new, NEW S, NEW words, IsWords(S, words), NEW found \in Seq(Nat),
           NEW begin, NEW t \in Nat, Len(words) = Len(found) + 1,
           Opened(buf, words[Len(words)], begin, t), Found(buf, found, words, begin),
           \A j \in 0 .. t - 1 : new[j] = buf[j]
    PROVE  Opened(new, words[Len(words)], begin, t) /\ Found(new, found, words, begin)
<1>1. Len(found) \in Nat /\ begin \in 0 .. t
  BY LenProperties DEF Opened
<1>2. Opened(new, words[Len(words)], begin, t)
  <2>1. ASSUME NEW j \in 1 .. t - begin PROVE new[begin + j - 1] = buf[begin + j - 1]
    <3>1. begin + j - 1 \in 0 .. t - 1
      BY <1>1
    <3> QED BY <3>1
  <2> QED BY <2>1 DEF Opened
<1>3. ASSUME NEW w \in 1 .. Len(found)
      PROVE  Lies(new, found[w], words[w]) /\ found[w] + Len(words[w]) < begin
  <2>1. w \in 1 .. Len(words)
    BY <1>1
  <2>2. words[w] \in Seq(S)
    BY <2>1, ElementOfSeq DEF IsWords
  <2> DEFINE i == found[w]
             n == Len(words[w])
  <2>3. /\ n \in Nat /\ i \in Nat /\ i + n \in 0 .. PROMPT - 1 /\ i + n < begin
        /\ buf[i + n] = NUL
        /\ \A j \in 1 .. n : buf[i + j - 1] = words[w][j] /\ words[w][j] # NUL
    BY <2>2, LenProperties DEF Found, Lies
  <2> HIDE DEF i, n
  <2>4. new[i + n] = buf[i + n]
    <3>1. i + n \in 0 .. t - 1
      BY <1>1, <2>3
    <3> QED BY <3>1
  <2>5. ASSUME NEW j \in 1 .. n PROVE new[i + j - 1] = buf[i + j - 1]
    <3>1. i + j - 1 \in 0 .. t - 1
      BY <1>1, <2>3
    <3> QED BY <3>1
  <2> QED BY <2>3, <2>4, <2>5 DEF Lies, i, n
<1> QED BY <1>2, <1>3 DEF Found

\* A mark of quotation is taken out.
LEMMA MarkGoes ==
    ASSUME NEW S, NEW line \in Seq(S), NEW buf, NEW found, NEW begin, NEW t, NEW k, NEW words,
           IsWords(S, words), Loop(line, buf, found, begin, t, k, words), k < Len(line)
    PROVE  LET moved == promptShift(buf, t)
           IN  /\ Loop(line, moved, found, begin, t, k + 1, words)
               /\ k + 1 = Len(line) => moved[t + 1] = NUL
<1> DEFINE moved == promptShift(buf, t)
<1>1. t \in Nat /\ Ended(buf) /\ Rest(buf, t, line, k)
  BY DEF Loop, Rest
<1>2. /\ Ended(moved)
      /\ \A j \in 0 .. t - 1 : moved[j] = buf[j]
      /\ Rest(moved, t, line, k + 1)
      /\ k + 1 = Len(line) => moved[t + 1] = NUL
  BY <1>1, ShiftFacts
<1> HIDE DEF moved
<1>3. Opened(moved, words[Len(words)], begin, t) /\ Found(moved, found, words, begin)
  BY <1>1, <1>2, InFrontStays DEF Loop
<1> QED BY <1>2, <1>3 DEF Loop, moved

\* The rest of a line is shorter by the character at t.
LEMMA RestStep ==
    ASSUME NEW S, NEW line \in Seq(S), NEW buf, NEW t, NEW k, Rest(buf, t, line, k),
           k < Len(line)
    PROVE  buf[t] = line[k + 1] /\ line[k + 1] # NUL /\ Rest(buf, t + 1, line, k + 1)
<1>1. /\ Len(line) \in Nat /\ k \in Nat /\ t \in Nat /\ k + 1 \in k + 1 .. Len(line)
      /\ t + ((k + 1) - k - 1) = t
      /\ (t + 1) + (Len(line) - (k + 1)) = t + (Len(line) - k)
  BY LenProperties DEF Rest
<1>2. buf[t] = line[k + 1] /\ line[k + 1] # NUL
  BY <1>1 DEF Rest
<1>3. ASSUME NEW j \in (k + 1) + 1 .. Len(line)
      PROVE  buf[(t + 1) + (j - (k + 1) - 1)] = line[j] /\ line[j] # NUL
  <2>1. j \in k + 1 .. Len(line) /\ (t + 1) + (j - (k + 1) - 1) = t + (j - k - 1)
    BY <1>1
  <2> QED BY <2>1 DEF Rest
<1> QED BY <1>1, <1>2, <1>3 DEF Rest

\* A blank outside of quotation marks ends the word.
LEMMA BlankCuts ==
    ASSUME NEW S, NEW line \in Seq(S), NEW buf, NEW found, NEW begin, NEW t, NEW k, NEW words,
           IsWords(S, words), Loop(line, buf, found, begin, t, k, words), k < Len(line),
           NEW next, IsWords(S, next), Began(words, next)
    PROVE  Loop(line, [buf EXCEPT ![t] = NUL], Append(found, begin), t + 1, t + 1, k + 1, next)
<1> DEFINE new == [buf EXCEPT ![t] = NUL]
           more == Append(found, begin)
           n == Len(found)
<1>1. /\ t \in Nat /\ Ended(buf) /\ Rest(buf, t, line, k) /\ n \in Nat
      /\ found \in Seq(Nat) /\ Len(words) = n + 1
      /\ k \in Nat /\ Len(line) \in Nat /\ t + (Len(line) - k) \in 0 .. PROMPT - 1
  BY LenProperties DEF Loop, Rest
<1>2. begin \in 0 .. t /\ begin \in Nat /\ Opened(buf, words[n + 1], begin, t)
  BY <1>1 DEF Loop, Opened
<1>3. /\ PROMPT \in Nat /\ DOMAIN buf = 0 .. PROMPT - 1 /\ buf[PROMPT - 1] = NUL
      /\ t \in 0 .. PROMPT - 1
  BY <1>1, TerminalAssumption DEF Ended
<1>4. /\ DOMAIN new = 0 .. PROMPT - 1 /\ new[t] = NUL
      /\ \A j \in 0 .. PROMPT - 1 : j # t => new[j] = buf[j]
  BY <1>3
<1>5. more \in Seq(Nat) /\ Len(more) = n + 1 /\ more[n + 1] = begin
      /\ \A w \in 1 .. n : more[w] = found[w]
  BY <1>1, <1>2, AppendProperties
<1> HIDE DEF new, more, n
<1>6. Ended(new)
  <2>1. PROMPT - 1 \in 0 .. PROMPT - 1
    BY <1>3
  <2>2. new[PROMPT - 1] = NUL
    BY <1>3, <1>4, <2>1
  <2> QED BY <1>4, <2>2, Zenon DEF Ended
<1>7. Rest(new, t + 1, line, k + 1)
  <2>1. Rest(buf, t + 1, line, k + 1)
    BY <1>1, RestStep, Zenon
  <2>2. (t + 1) + (Len(line) - (k + 1)) \in 0 .. PROMPT - 1 /\ (t + 1) + (Len(line) - (k + 1)) # t
    BY <1>1, <1>3
  <2>3. ASSUME NEW j \in (k + 1) + 1 .. Len(line)
        PROVE  /\ (t + 1) + (j - (k + 1) - 1) \in 0 .. PROMPT - 1
               /\ (t + 1) + (j - (k + 1) - 1) # t
    BY <1>1, <1>3
  <2> QED BY <1>4, <2>1, <2>2, <2>3 DEF Rest
<1>8. ASSUME NEW j \in 0 .. t - 1 PROVE new[j] = buf[j]
  <2>1. j \in 0 .. PROMPT - 1 /\ j # t
    BY <1>3
  <2> QED BY <1>4, <2>1
<1>9. Opened(new, words[n + 1], begin, t) /\ Found(new, found, words, begin)
  BY <1>1, <1>8, InFrontStays DEF Loop
<1>10. Len(next) = n + 2 /\ next[n + 2] = <<>> /\ \A w \in 1 .. n + 1 : next[w] = words[w]
  <2>1. n \in Nat /\ Len(words) = n + 1
    BY <1>1
  <2>2. /\ Len(next) = Len(words) + 1 /\ next[Len(next)] = <<>>
        /\ \A w \in 1 .. Len(words) : next[w] = words[w]
    BY DEF Began
  <2>3. Len(next) = n + 2
    BY <2>1, <2>2
  <2> QED BY <2>1, <2>2, <2>3
<1>11. Opened(new, next[Len(next)], t + 1, t + 1)
  BY <1>1, <1>10 DEF Opened
<1>12. Lies(new, begin, words[n + 1])
  <2>1. Len(words[n + 1]) = t - begin /\ begin + Len(words[n + 1]) = t
    BY <1>1, <1>2 DEF Opened
  <2>2. t \in 0 .. PROMPT - 1
    BY <1>1, <1>3
  <2> QED BY <1>2, <1>4, <1>9, <2>1, <2>2 DEF Lies, Opened
<1>13. ASSUME NEW w \in 1 .. Len(more)
       PROVE  Lies(new, more[w], next[w]) /\ more[w] + Len(next[w]) < t + 1
  <2>1. CASE w = n + 1
    <3>1. begin + Len(words[n + 1]) < t + 1
      BY <1>1, <1>2 DEF Opened
    <3> QED BY <1>5, <1>10, <1>12, <2>1, <3>1
  <2>2. CASE w # n + 1
    <3>1. w \in 1 .. n /\ w \in 1 .. n + 1
      BY <1>1, <1>5, <2>2
    <3>2. Lies(new, found[w], words[w]) /\ found[w] + Len(words[w]) < begin
      BY <1>9, <3>1 DEF Found, n
    <3>3. found[w] + Len(words[w]) \in Int
      BY <1>3, <3>2 DEF Lies
    <3>4. begin \in 0 .. t /\ t \in Nat
      BY <1>1, <1>2
    <3>5. found[w] + Len(words[w]) < t + 1
      BY <3>2, <3>3, <3>4
    <3> QED BY <1>5, <1>10, <3>1, <3>2, <3>5
  <2> QED BY <2>1, <2>2
<1>14. Loop(line, new, more, t + 1, t + 1, k + 1, next)
  <2>1. Len(next) = Len(more) + 1
    BY <1>1, <1>5, <1>10
  <2> QED BY <1>5, <1>6, <1>7, <1>11, <1>13, <2>1 DEF Loop, Found
<1> QED BY <1>14 DEF new, more

\* Another character is the next one of the word.
LEMMA CharStays ==
    ASSUME NEW S, NEW line \in Seq(S), NEW buf, NEW found, NEW begin, NEW t, NEW k, NEW words,
           IsWords(S, words), Loop(line, buf, found, begin, t, k, words), k < Len(line),
           NEW next, IsWords(S, next), Grew(words, next, line[k + 1])
    PROVE  Loop(line, buf, found, begin, t + 1, k + 1, next)
<1> DEFINE n == Len(words)
           a == words[n]
           b == next[n]
<1>1. t \in Nat /\ Rest(buf, t, line, k) /\ n = Len(found) + 1 /\ n \in Nat \ {0}
      /\ Len(found) \in Nat
  BY LenProperties DEF Loop, Rest, IsWords
<1>2. /\ buf[t] = line[k + 1] /\ line[k + 1] # NUL /\ Rest(buf, t + 1, line, k + 1)
  BY <1>1, RestStep
<1>3. /\ begin \in 0 .. t /\ Len(a) = t - begin
      /\ \A j \in 1 .. t - begin : buf[begin + j - 1] = a[j] /\ a[j] # NUL
  BY DEF Loop, Opened
<1>4. /\ Len(next) = n /\ Len(b) = Len(a) + 1
      /\ \A j \in 1 .. Len(a) : b[j] = a[j]
      /\ b[Len(a) + 1] = line[k + 1]
      /\ \A w \in 1 .. n - 1 : next[w] = words[w]
  BY DEF Grew
<1> HIDE DEF a, b
<1>5. begin \in 0 .. t + 1 /\ Len(b) = (t + 1) - begin
  BY <1>1, <1>3, <1>4
<1>6. ASSUME NEW j \in 1 .. (t + 1) - begin PROVE buf[begin + j - 1] = b[j] /\ b[j] # NUL
  <2>1. CASE j = (t + 1) - begin
    <3>1. begin + j - 1 = t /\ j = Len(a) + 1
      BY <1>1, <1>3, <2>1
    <3> QED BY <1>2, <1>4, <3>1
  <2>2. CASE j # (t + 1) - begin
    <3>1. j \in 1 .. t - begin /\ j \in 1 .. Len(a)
      BY <1>1, <1>3, <2>2
    <3> QED BY <1>3, <1>4, <3>1
  <2> QED BY <2>1, <2>2
<1>7. Opened(buf, next[Len(next)], begin, t + 1)
  <2>1. next[Len(next)] = b
    BY <1>4 DEF b
  <2>2. Opened(buf, b, begin, t + 1)
    BY <1>5, <1>6 DEF Opened
  <2> QED BY <2>1, <2>2
<1>8. \A w \in 1 .. Len(found) : next[w] = words[w]
  BY <1>1, <1>4
<1>9. Found(buf, found, next, begin)
  BY <1>8 DEF Loop, Found
<1> QED BY <1>1, <1>2, <1>4, <1>7, <1>9 DEF Loop

\* Two marks of quotation follow one another.
TwoMarks(line) ==
    \E k \in 1 .. Len(line) - 1 :
        /\ OpenMark(line)[k - 1] # OpenMark(line)[k]
        /\ OpenMark(line)[k] # OpenMark(line)[k + 1]

\* The state of the loop at t, after k characters.
Reached(line, s, t, k) ==
    /\ Loop(line, s.buf, s.found, s.begin, t, k, WordsAt(line)[k])
    /\ Len(s.found) <= ARGS - 1

\* It has come to an end: of the line, or of the room for arguments.
Ends(line, s) ==
    \E k \in 0 .. Len(line), t \in Nat :
        Reached(line, s, t, k) /\ (k = Len(line) \/ Len(s.found) = ARGS - 1)

\* What holds behind each turn.
Turned(line, s, t) ==
    IF s.going
    THEN \E k \in 0 .. Len(line) - 1 :
            s.open = OpenMark(line)[k] /\ Reached(line, s, t, k) /\ Len(s.found) < ARGS - 1
    ELSE Ends(line, s)

\* The character there is the next one of the line.
LEMMA NextChar ==
    ASSUME NEW S, NEW line \in Seq(S), NEW s, NEW t, NEW k, Reached(line, s, t, k),
           k < Len(line)
    PROVE  s.buf[t] = line[k + 1] /\ line[k + 1] # NUL
<1>1. PICK buf : buf = s.buf
  OBVIOUS
<1>2. Rest(buf, t, line, k)
  BY <1>1 DEF Reached, Loop
<1>3. buf[t] = line[k + 1] /\ line[k + 1] # NUL
  BY <1>2, RestStep, Zenon
<1> QED BY <1>1, <1>3

\* A turn ends as its last line has it: at the end of the line, at the last
\* argument there is room for, or before the next character.
LEMMA Settled ==
    ASSUME NEW S, NEW line \in Seq(S), NEW s, NEW t \in Nat, NEW k \in 0 .. Len(line),
           Reached(line, s, t, k), s.open = OpenMark(line)[k],
           s.going = (s.buf[t] # NUL /\ Len(s.found) < ARGS - 1)
    PROVE  Turned(line, s, t)
<1>1. /\ Len(line) \in Nat /\ k \in Nat /\ Len(s.found) \in Nat
      /\ Rest(s.buf, t, line, k) /\ Len(s.found) <= ARGS - 1
  BY LenProperties DEF Reached, Loop
<1>2. ARGS \in Nat
  BY TerminalAssumption
<1>3. CASE k < Len(line) /\ Len(s.found) < ARGS - 1
  <2>1. s.buf[t] # NUL
    BY <1>3, NextChar
  <2>2. s.going = TRUE
    BY <1>3, <2>1
  <2>3. k \in 0 .. Len(line) - 1
    BY <1>1, <1>3
  <2> QED BY <1>3, <2>2, <2>3 DEF Turned
<1>4. CASE k = Len(line)
  <2>1. t + (Len(line) - k) = t
    BY <1>1, <1>4
  <2>2. s.buf[t] = NUL
    BY <1>1, <2>1 DEF Rest
  <2>3. s.going = FALSE
    BY <2>2
  <2> QED BY <1>4, <2>3 DEF Turned, Ends
<1>5. CASE ~(Len(s.found) < ARGS - 1)
  <2>1. s.going = FALSE
    BY <1>5
  <2>2. Len(s.found) = ARGS - 1
    BY <1>1, <1>2, <1>5
  <2> QED BY <2>1, <2>2 DEF Turned, Ends
<1> QED BY <1>1, <1>3, <1>4, <1>5

\* What ParseChar leaves behind once a mark is out of the way: at a blank
\* outside of marks, and at any other character.
Cut(s, buf, t) ==
    LET splits == s.open = NUL /\ buf[t] \in Blanks
    IN  [buf |-> IF splits THEN [buf EXCEPT ![t] = NUL] ELSE buf, open |-> s.open,
         found |-> IF splits THEN Append(s.found, s.begin) ELSE s.found,
         begin |-> IF splits THEN t + 1 ELSE s.begin]

\* A character that is no mark, and is not the last if it is a blank.
LEMMA CharFacts ==
    ASSUME NEW S, NEW line \in Seq(S), NEW s, NEW t \in Nat, NEW k \in 0 .. Len(line) - 1,
           Reached(line, s, t, k), Len(s.found) < ARGS - 1, s.open = OpenMark(line)[k],
           OpenMark(line)[k + 1] = OpenMark(line)[k]
    PROVE  Reached(line, Cut(s, s.buf, t), t + 1, k + 1)
<1> DEFINE u == WordsAt(line)[k]
           v == WordsAt(line)[k + 1]
           splits == s.open = NUL /\ s.buf[t] \in Blanks
           r == Cut(s, s.buf, t)
<1>1. /\ Len(line) \in Nat /\ k \in 0 .. Len(line) /\ k < Len(line)
      /\ k + 1 \in 1 .. Len(line) /\ k + 1 \in 0 .. Len(line) /\ (k + 1) - 1 = k
  BY LenProperties
<1>2. IsWords(S, u) /\ IsWords(S, v) /\ v = WordStep(u, line, k + 1)
  <2>1. WordsAt(line)[k + 1] = WordStep(WordsAt(line)[(k + 1) - 1], line, k + 1)
    BY <1>1, WordFacts
  <2> QED BY <1>1, <2>1, WordsType
<1>3. Loop(line, s.buf, s.found, s.begin, t, k, u)
  BY DEF Reached
<1>4. s.buf[t] = line[k + 1]
  BY <1>1, NextChar
<1>5. Len(s.found) \in Nat /\ ARGS \in Nat
  BY <1>3, LenProperties, TerminalAssumption DEF Loop
<1> HIDE DEF u, v
<1>6. CASE splits
  <2>1. Began(u, v)
    BY <1>1, <1>2, <1>4, <1>6, WordStepFacts
  <2>2. Loop(line, [s.buf EXCEPT ![t] = NUL], Append(s.found, s.begin), t + 1, t + 1, k + 1, v)
    BY <1>1, <1>2, <1>3, <2>1, BlankCuts
  <2>3. /\ r.buf = [s.buf EXCEPT ![t] = NUL] /\ r.found = Append(s.found, s.begin)
        /\ r.begin = t + 1
    BY <1>6 DEF Cut
  <2>4. Len(Append(s.found, s.begin)) = Len(s.found) + 1
    <3>1. s.begin \in Nat /\ s.found \in Seq(Nat)
      BY <1>3 DEF Loop, Opened
    <3> QED BY <3>1, AppendProperties
  <2> HIDE DEF r
  <2>5. Len(r.found) <= ARGS - 1
    BY <1>5, <2>3, <2>4
  <2> QED BY <2>2, <2>3, <2>5 DEF Reached, r, v
<1>7. CASE ~splits
  <2>1. Grew(u, v, line[k + 1])
    BY <1>1, <1>2, <1>4, <1>7, WordStepFacts
  <2>2. Loop(line, s.buf, s.found, s.begin, t + 1, k + 1, v)
    BY <1>1, <1>2, <1>3, <2>1, CharStays
  <2>3. r.buf = s.buf /\ r.found = s.found /\ r.begin = s.begin
    BY <1>7 DEF Cut
  <2> HIDE DEF r
  <2>4. Len(r.found) <= ARGS - 1
    BY <1>5, <2>3
  <2> QED BY <2>2, <2>3, <2>4 DEF Reached, r, v
<1> QED BY <1>6, <1>7

\* One turn of the loop.
LEMMA TurnFacts ==
    ASSUME NEW S, NEW line \in Seq(S), line[Len(line)] \notin Blanks, ~TwoMarks(line),
           NEW s, NEW t \in Nat, s.going, Turned(line, s, t)
    PROVE  Turned(line, ParseChar(s, t), t + 1)
<1>1. PICK k \in 0 .. Len(line) - 1 :
          s.open = OpenMark(line)[k] /\ Reached(line, s, t, k) /\ Len(s.found) < ARGS - 1
  BY DEF Turned
<1>2. PICK c : c = line[k + 1]
  OBVIOUS
<1> DEFINE m == OpenMark(line)
           u == WordsAt(line)[k]
           r == ParseChar(s, t)
           mark == IF s.open = NUL THEN s.buf[t] \in Quotes ELSE s.buf[t] = s.open
           open == IF ~mark THEN s.open ELSE IF s.open = NUL THEN s.buf[t] ELSE NUL
           shifted == IF mark THEN promptShift(s.buf, t) ELSE s.buf
<1>0. SUFFICES Turned(line, r, t + 1)
  OBVIOUS
<1>3. /\ Len(line) \in Nat /\ k \in 0 .. Len(line) /\ k < Len(line)
      /\ k + 1 \in 1 .. Len(line) /\ k + 1 \in 0 .. Len(line) /\ (k + 1) - 1 = k
  BY LenProperties
<1>4. Loop(line, s.buf, s.found, s.begin, t, k, u)
  BY <1>1 DEF Reached
<1>5. s.buf[t] = c /\ c # NUL
  BY <1>1, <1>2, <1>3, NextChar
<1>6. m[k + 1] = open /\ (mark <=> m[k + 1] # m[k])
  <2>1. m[k + 1] = IF m[k] = NUL THEN IF c \in Quotes THEN c ELSE NUL
                   ELSE IF c = m[k] THEN NUL ELSE m[k]
    <3>1. m[k + 1] = IF m[(k + 1) - 1] = NUL THEN IF line[k + 1] \in Quotes THEN line[k + 1] ELSE NUL
                     ELSE IF line[k + 1] = m[(k + 1) - 1] THEN NUL ELSE m[(k + 1) - 1]
      BY <1>3, OpenMarkFacts
    <3> QED BY <1>2, <1>3, <3>1
  <2> HIDE DEF m
  <2> QED BY <1>1, <1>5, <2>1 DEF m
<1> HIDE DEF m, u
<1>7. /\ r.buf = IF open = NUL /\ shifted[t] \in Blanks THEN [shifted EXCEPT ![t] = NUL] ELSE shifted
      /\ r.open = open
      /\ r.found = IF open = NUL /\ shifted[t] \in Blanks THEN Append(s.found, s.begin) ELSE s.found
      /\ r.begin = IF open = NUL /\ shifted[t] \in Blanks THEN t + 1 ELSE s.begin
      /\ r.going = (r.buf[t + 1] # NUL /\ Len(r.found) < ARGS - 1)
  BY DEF ParseChar
<1> HIDE DEF r, open, mark, shifted
<1> DEFINE q == [buf |-> shifted, open |-> open, found |-> s.found, begin |-> s.begin]
<1>8. ASSUME NEW j \in 0 .. Len(line) - 1, Reached(line, q, t, j), open = m[j], m[j + 1] = m[j]
      PROVE  Turned(line, r, t + 1)
  <2> DEFINE p == Cut(q, q.buf, t)
  <2>1. Reached(line, p, t + 1, j + 1)
    <3>1. q.open = OpenMark(line)[j] /\ OpenMark(line)[j + 1] = OpenMark(line)[j]
          /\ Len(q.found) < ARGS - 1
      BY <1>1, <1>8 DEF m
    <3> HIDE DEF q
    <3> QED BY <1>8, <3>1, CharFacts
  <2>2. p.buf = r.buf /\ p.found = r.found /\ p.begin = r.begin
    BY <1>7 DEF Cut
  <2>3. Reached(line, r, t + 1, j + 1)
    <3> HIDE DEF p
    <3> QED BY <2>1, <2>2 DEF Reached
  <2>4. r.open = OpenMark(line)[j + 1]
    BY <1>7, <1>8 DEF m
  <2>5. t + 1 \in Nat /\ j + 1 \in 0 .. Len(line)
    BY <1>3
  <2> QED BY <1>7, <2>3, <2>4, <2>5, Settled
<1>9. CASE ~mark
  <2>1. shifted = s.buf /\ open = s.open
    BY <1>9 DEF shifted, open
  <2>2. Reached(line, q, t, k)
    BY <1>1, <2>1 DEF Reached
  <2>3. open = m[k] /\ m[k + 1] = m[k]
    BY <1>1, <1>6, <1>9, <2>1 DEF m
  <2> QED BY <1>8, <2>2, <2>3
<1>10. CASE mark
  <2>1. shifted = promptShift(s.buf, t)
    BY <1>10 DEF shifted
  <2>2. IsWords(S, u) /\ WordsAt(line)[k + 1] = u
    <3>1. WordsAt(line)[k + 1] = WordStep(WordsAt(line)[(k + 1) - 1], line, k + 1)
      BY <1>3, WordFacts
    <3>2. OpenMark(line)[k + 1] # OpenMark(line)[(k + 1) - 1]
      BY <1>3, <1>6, <1>10 DEF m
    <3>3. IsWords(S, u)
      BY <1>3, WordsType DEF u
    <3> QED BY <1>3, <3>1, <3>2, <3>3, WordStepFacts DEF u
  <2>3. /\ Loop(line, shifted, s.found, s.begin, t, k + 1, u)
        /\ k + 1 = Len(line) => shifted[t + 1] = NUL
    <3>1. PICK buf : buf = s.buf
      OBVIOUS
    <3>2. PICK found : found = s.found
      OBVIOUS
    <3>3. PICK begin : begin = s.begin
      OBVIOUS
    <3>4. Loop(line, buf, found, begin, t, k, u)
      BY <1>4, <3>1, <3>2, <3>3
    <3>5. PICK moved : moved = promptShift(buf, t)
      OBVIOUS
    <3>6. /\ Loop(line, moved, found, begin, t, k + 1, u)
          /\ k + 1 = Len(line) => moved[t + 1] = NUL
      BY <1>3, <2>2, <3>4, <3>5, MarkGoes
    <3> QED BY <2>1, <3>1, <3>2, <3>3, <3>5, <3>6
  <2>4. Reached(line, q, t, k + 1)
    BY <1>1, <2>2, <2>3 DEF Reached
  <2>5. CASE k + 1 < Len(line)
    <3>1. k + 1 \in 1 .. Len(line) - 1 /\ k + 1 \in 0 .. Len(line) - 1
      BY <1>3, <2>5
    <3>2. m[(k + 1) - 1] # m[k + 1]
      BY <1>3, <1>6, <1>10
    <3>3. m[(k + 1) + 1] = m[k + 1]
      BY <3>1, <3>2 DEF TwoMarks, m
    <3> QED BY <1>6, <1>8, <2>4, <3>1, <3>3
  <2>6. CASE k + 1 = Len(line)
    <3>1. shifted[t] = NUL /\ NUL \notin Blanks
      <4>1. Rest(shifted, t, line, k + 1)
        BY <2>3 DEF Loop
      <4>2. t + (Len(line) - (k + 1)) = t
        BY <1>3, <2>6
      <4> QED BY <4>1, <4>2 DEF Rest, NUL, Blanks
    <3>2. r.buf = shifted /\ r.found = s.found /\ r.begin = s.begin /\ r.going = FALSE
      BY <1>7, <2>3, <2>6, <3>1
    <3>3. Reached(line, r, t, k + 1)
      BY <2>4, <3>2 DEF Reached
    <3> QED BY <1>3, <2>6, <3>2, <3>3 DEF Turned, Ends
  <2> QED BY <1>3, <2>5, <2>6
<1> QED BY <1>9, <1>10

\* The loop starts at the first character.
FirstTurn(buf) == [buf |-> buf, open |-> NUL, found |-> <<>>, begin |-> 0, going |-> TRUE]

\* The strings that s has found, the last one included.
Strings(s) ==
    [k \in DOMAIN Append(s.found, s.begin) |-> StringAt(s.buf, Append(s.found, s.begin)[k])]

\* The turns of the loop.
LEMMA LoopFacts ==
    ASSUME NEW buf
    PROVE  \E turn :
              /\ turn[0] = FirstTurn(buf)
              /\ \A n \in 1 .. PROMPT : turn[n] =
                    IF turn[n - 1].going THEN ParseChar(turn[n - 1], n - 1) ELSE turn[n - 1]
              /\ Parsed(buf) = Strings(turn[PROMPT])
<1> DEFINE n == PROMPT
           Next(s, k) == IF s.going THEN ParseChar(s, k - 1) ELSE s
           L(f, k) == f = [i \in 0 .. k |-> IF i = 0 THEN FirstTurn(buf) ELSE Next(f[i - 1], i)]
           I == {k \in 0 .. n : ~ \E f : L(f, k)}
<1>1. n \in Nat
  BY TerminalAssumption
<1>2. (\E g : L(g, n)) => \E g : L(g, n) /\ Parsed(buf) = Strings(g[n])
  BY Zenon DEF Parsed, Strings, FirstTurn
<1> HIDE DEF n, Next
<1>3. 0 \notin I
  <2> DEFINE f == [i \in 0 .. 0 |-> FirstTurn(buf)]
  <2>1. \A i \in 0 .. 0 : f[i] = IF i = 0 THEN FirstTurn(buf) ELSE Next(f[i - 1], i)
    OBVIOUS
  <2>2. L(f, 0)
    <3> HIDE DEF f
    <3> SUFFICES f = [i \in 0 .. 0 |-> f[i]]
      BY <2>1
    <3> QED BY Zenon DEF f
  <2> HIDE DEF f, L
  <2> QED BY <2>2
<1>4. ASSUME NEW k \in 1 .. n, k - 1 \notin I PROVE k \notin I
  <2>1. PICK f : L(f, k - 1)
    BY <1>1, <1>4
  <2> DEFINE g == [i \in 0 .. k |-> IF i = k THEN Next(f[k - 1], k) ELSE f[i]]
  <2>2. ASSUME NEW i \in 0 .. k
        PROVE  g[i] = IF i = 0 THEN FirstTurn(buf) ELSE Next(g[i - 1], i)
    <3>1. \A j \in 0 .. k - 1 : f[j] = IF j = 0 THEN FirstTurn(buf) ELSE Next(f[j - 1], j)
      BY <2>1
    <3>2. CASE i = k
      BY <3>2
    <3>3. CASE i # k
      <4>1. i \in 0 .. k - 1 /\ (i # 0 => i - 1 \in 0 .. k - 1)
        BY <3>3
      <4>2. g[i] = f[i] /\ (i # 0 => g[i - 1] = f[i - 1])
        BY <3>3, <4>1
      <4> HIDE DEF g
      <4> QED BY <3>1, <4>1, <4>2
    <3> QED BY <3>2, <3>3
  <2>3. L(g, k)
    <3> HIDE DEF g
    <3> SUFFICES g = [i \in 0 .. k |-> g[i]]
      BY <2>2
    <3> QED BY Zenon DEF g
  <2> QED BY <2>3
<1> HIDE DEF L
<1>5. I = {}
  <2> HIDE DEF I
  <2>1. I \subseteq 0 .. n
    BY DEF I
  <2> QED BY <1>1, <1>3, <1>4, <2>1, NoFirst
<1>6. PICK turn : L(turn, n) /\ Parsed(buf) = Strings(turn[n])
  <2>1. n \in 0 .. n
    BY <1>1
  <2>2. n \notin I
    <3> HIDE DEF I
    <3> QED BY <1>5
  <2>3. \E f : L(f, n)
    BY <2>1, <2>2
  <2> QED BY <1>2, <2>3, Zenon
<1>7. \A k \in 0 .. n : turn[k] = IF k = 0 THEN FirstTurn(buf) ELSE Next(turn[k - 1], k)
  BY <1>6 DEF L
<1>8. turn[0] = FirstTurn(buf)
  BY <1>1, <1>7
<1>9. ASSUME NEW k \in 1 .. n PROVE turn[k] = Next(turn[k - 1], k)
  BY <1>1, <1>7
<1> QED BY <1>6, <1>8, <1>9 DEF Next, n

\* Where the loop has come to an end, the strings are the words of the line,
\* up to the last argument there is room for.
LEMMA EndsFacts ==
    ASSUME NEW S, NEW line \in Seq(S), NEW s, Ends(line, s)
    PROVE  LET words == Words(line)
               n == Min({Len(words), ARGS})
           IN  /\ Len(Strings(s)) = n
               /\ \A k \in 1 .. IF Len(words) >= ARGS THEN n - 1 ELSE n : Strings(s)[k] = words[k]
<1>1. PICK k \in 0 .. Len(line), t \in Nat :
          Reached(line, s, t, k) /\ (k = Len(line) \/ Len(s.found) = ARGS - 1)
  BY DEF Ends
<1> DEFINE u == WordsAt(line)[k]
           words == Words(line)
           f == Len(s.found)
           n == Min({Len(words), ARGS})
           begins == Append(s.found, s.begin)
           strings == Strings(s)
<1>2. /\ Loop(line, s.buf, s.found, s.begin, t, k, u) /\ f <= ARGS - 1
      /\ Extends(u, words) /\ IsWords(S, u) /\ IsWords(S, words)
  <2>1. Len(line) \in 0 .. Len(line)
    BY LenProperties
  <2> QED BY <1>1, <2>1, WordsStay, WordsType DEF Reached, Words
<1>3. /\ s.found \in Seq(Nat) /\ f \in Nat /\ Len(u) = f + 1 /\ Len(words) \in Nat
      /\ Len(u) <= Len(words) /\ ARGS \in Nat \ {0, 1}
      /\ \A w \in 1 .. f : words[w] = u[w]
  BY <1>2, LenProperties, TerminalAssumption DEF Loop, Extends, IsWords
<1>4. s.begin \in Nat
  BY <1>2 DEF Loop, Opened
<1>5. /\ DOMAIN begins = 1 .. f + 1 /\ begins[f + 1] = s.begin
      /\ \A w \in 1 .. f : begins[w] = s.found[w]
  BY <1>3, <1>4, AppendProperties, LenProperties
<1>6. /\ DOMAIN strings = DOMAIN begins
      /\ \A w \in DOMAIN begins : strings[w] = StringAt(s.buf, begins[w])
  BY DEF Strings
<1> HIDE DEF begins, strings
<1>7. Len(strings) = f + 1
  <2>1. strings = [w \in DOMAIN begins |-> strings[w]]
    BY DEF strings, Strings, begins
  <2> QED BY <1>3, <1>5, <1>6, <2>1
<1>8. ASSUME NEW w \in 1 .. f PROVE strings[w] = words[w]
  <2>1. w \in 1 .. Len(u) /\ w \in 1 .. f + 1
    BY <1>3
  <2>2. u[w] \in Seq(S)
    BY <1>2, <2>1, ElementOfSeq DEF IsWords
  <2>3. Lies(s.buf, s.found[w], u[w])
    BY <1>2 DEF Loop, Found
  <2>4. StringAt(s.buf, s.found[w]) = u[w]
    BY <2>2, <2>3, StringIs
  <2> QED BY <1>3, <1>5, <1>6, <2>1, <2>4
<1>9. CASE f = ARGS - 1
  <2>1. Len(words) >= ARGS
    BY <1>3, <1>9
  <2>2. n = ARGS
    <3>1. {Len(words), ARGS} \subseteq Nat
      BY <1>3
    <3>2. n \in {Len(words), ARGS} /\ \A j \in {Len(words), ARGS} : n <= j
      BY <3>1, MinFacts
    <3> HIDE DEF n
    <3> QED BY <1>3, <2>1, <3>2
  <2>3. Len(strings) = n
    BY <1>3, <1>7, <1>9, <2>2
  <2>4. ASSUME NEW w \in 1 .. n - 1 PROVE strings[w] = words[w]
    <3> HIDE DEF n
    <3>1. w \in 1 .. f
      BY <1>3, <1>9, <2>2
    <3> QED BY <1>8, <3>1
  <2> HIDE DEF n
  <2> QED BY <2>1, <2>3, <2>4 DEF n, strings
<1>10. CASE f # ARGS - 1
  <2>1. k = Len(line) /\ words = u
    BY <1>1, <1>10 DEF Words
  <2>2. f < ARGS - 1 /\ Len(words) = f + 1 /\ ~(Len(words) >= ARGS)
    <3>1. f \in Nat /\ ARGS \in Nat /\ f <= ARGS - 1
      BY <1>2, <1>3
    <3>2. f < ARGS - 1 /\ Len(words) = f + 1
      BY <1>3, <1>10, <2>1, <3>1
    <3> QED BY <3>1, <3>2
  <2>3. n = f + 1
    <3>1. {Len(words), ARGS} \subseteq Nat
      BY <1>3
    <3>2. n \in {Len(words), ARGS} /\ \A j \in {Len(words), ARGS} : n <= j
      BY <3>1, MinFacts
    <3> HIDE DEF n
    <3> QED BY <1>3, <2>2, <3>2
  <2>4. strings[f + 1] = words[f + 1]
    <3>1. Opened(s.buf, u[f + 1], s.begin, t) /\ Rest(s.buf, t, line, k)
      BY <1>2, <1>3 DEF Loop
    <3>2. f + 1 \in 1 .. Len(u)
      BY <1>3
    <3>3. u[f + 1] \in Seq(S)
      BY <1>2, <3>2, ElementOfSeq DEF IsWords
    <3>4. t + (Len(line) - k) = t
      BY <1>1, <2>1
    <3>5. t \in 0 .. PROMPT - 1 /\ s.buf[t] = NUL
      BY <3>1, <3>4 DEF Rest
    <3>6. s.begin + Len(u[f + 1]) = t
      BY <1>4, <3>1 DEF Opened
    <3>7. Lies(s.buf, s.begin, u[f + 1])
      BY <1>4, <3>1, <3>5, <3>6 DEF Lies, Opened
    <3>8. StringAt(s.buf, s.begin) = u[f + 1]
      BY <3>3, <3>7, StringIs
    <3> QED BY <1>3, <1>5, <1>6, <2>1, <3>8
  <2>5. ASSUME NEW w \in 1 .. f + 1 PROVE strings[w] = words[w]
    BY <1>3, <1>8, <2>4
  <2> HIDE DEF n
  <2> QED BY <1>7, <2>2, <2>3, <2>5 DEF n, strings
<1> QED BY <1>9, <1>10

\* shellParse finds the words of the line that was typed.
LEMMA ParsedFacts ==
    ASSUME Ended(prompt), Typed # <<>>, ~TwoMarks(Typed)
    PROVE  LET words == Words(Typed)
               n == Min({Len(words), ARGS})
               strings == Parsed(Purified(prompt))
           IN  /\ Len(strings) = n
               /\ \A k \in 1 .. IF Len(words) >= ARGS THEN n - 1 ELSE n : strings[k] = words[k]
<1> DEFINE buf == Purified(prompt)
<1>1. PICK line : line = Typed
  OBVIOUS
<1>2. /\ line \in Seq(BufferChars) /\ Len(line) > 0 /\ line[Len(line)] \notin Blanks
      /\ Ended(buf) /\ Rest(buf, 0, line, 0) /\ ~TwoMarks(line)
  BY <1>1, PurifiedFacts
<1>3. PICK turn :
          /\ turn[0] = FirstTurn(buf)
          /\ \A n \in 1 .. PROMPT : turn[n] =
                IF turn[n - 1].going THEN ParseChar(turn[n - 1], n - 1) ELSE turn[n - 1]
          /\ Parsed(buf) = Strings(turn[PROMPT])
  BY LoopFacts
<1> HIDE DEF buf
<1>4. PROMPT \in Nat /\ ARGS \in Nat \ {0, 1} /\ Len(line) \in Nat
  BY <1>2, TerminalAssumption, LenProperties
<1>5. Turned(line, turn[0], 0)
  <2> DEFINE s == turn[0]
             words == << <<>> >>
  <2>1. /\ s.buf = buf /\ s.open = NUL /\ s.found = <<>> /\ s.begin = 0 /\ s.going = TRUE
    BY <1>3 DEF FirstTurn
  <2>2. WordsAt(line)[0] = words /\ OpenMark(line)[0] = NUL
    BY <1>2, WordFacts, OpenMarkFacts
  <2>3. Len(words) = 1 /\ words[1] = <<>> /\ Len(s.found) = 0 /\ s.found \in Seq(Nat)
    BY <2>1
  <2> HIDE DEF s, words
  <2>4. Opened(s.buf, words[Len(words)], 0, 0)
    BY <2>3 DEF Opened
  <2>5. Found(s.buf, s.found, words, 0)
    BY <2>3 DEF Found
  <2>6. Loop(line, s.buf, s.found, s.begin, 0, 0, words)
    BY <1>2, <2>1, <2>3, <2>4, <2>5 DEF Loop
  <2>7. Reached(line, s, 0, 0) /\ Len(s.found) < ARGS - 1
    BY <1>4, <2>2, <2>3, <2>6 DEF Reached
  <2>8. 0 \in 0 .. Len(line) - 1
    BY <1>2, <1>4
  <2> QED BY <2>1, <2>2, <2>7, <2>8 DEF Turned, s
<1> DEFINE I == {n \in 0 .. PROMPT : ~ Turned(line, turn[n], n)}
<1>6. ASSUME NEW n \in 1 .. PROMPT, n - 1 \notin I PROVE n \notin I
  <2>1. n - 1 \in 0 .. PROMPT /\ n - 1 \in Nat /\ (n - 1) + 1 = n
    BY <1>4
  <2>2. Turned(line, turn[n - 1], n - 1)
    BY <1>6, <2>1
  <2>3. CASE turn[n - 1].going
    <3>1. turn[n] = ParseChar(turn[n - 1], n - 1)
      BY <1>3, <2>3
    <3>2. PICK s : s = turn[n - 1]
      OBVIOUS
    <3>3. Turned(line, ParseChar(s, n - 1), (n - 1) + 1)
      BY <1>2, <2>1, <2>2, <2>3, <3>2, TurnFacts
    <3> QED BY <2>1, <3>1, <3>2, <3>3
  <2>4. CASE ~turn[n - 1].going
    <3>1. turn[n] = turn[n - 1]
      BY <1>3, <2>4
    <3>2. Turned(line, turn[n], n)
      BY <2>2, <2>4, <3>1 DEF Turned
    <3> QED BY <3>2
  <2> QED BY <2>3, <2>4
<1>7. I = {}
  <2>1. I \subseteq 0 .. PROMPT /\ 0 \notin I
    BY <1>5
  <2> HIDE DEF I
  <2> QED BY <1>4, <1>6, <2>1, NoFirst
<1>8. PICK s : s = turn[PROMPT]
  OBVIOUS
<1>9. Turned(line, s, PROMPT)
  <2>1. PROMPT \in 0 .. PROMPT
    BY <1>4
  <2> QED BY <1>7, <1>8, <2>1
<1>10. Ends(line, s)
  <2>1. ASSUME s.going PROVE FALSE
    <3>1. PICK k \in 0 .. Len(line) - 1 : Reached(line, s, PROMPT, k)
      BY <1>9, <2>1 DEF Turned
    <3>2. Rest(s.buf, PROMPT, line, k)
      BY <3>1 DEF Reached, Loop
    <3>3. PROMPT + (Len(line) - k) \in 0 .. PROMPT - 1
      BY <3>2 DEF Rest
    <3> QED BY <1>4, <3>1, <3>3
  <2> QED BY <1>9, <2>1 DEF Turned
<1> QED BY <1>1, <1>2, <1>3, <1>8, <1>10, EndsFacts DEF buf

\* The buffer of the shell ends in a NUL, and the arguments are those of the
\* line in it.
ArgsInv ==
    /\ Ended(prompt)
    /\ at = "execute" => args = Parsed(Purified(prompt))

\* shellRead writes in front of the last place of its buffer.
LEMMA UseCharEnds ==
    ASSUME ArgsInv, TInv, UseChar
    PROVE  ArgsInv'
<1>1. /\ position \in 0 .. PROMPT - 2 /\ PROMPT \in Nat \ {0, 1}
      /\ at' \in {"get", "parse"}
  BY TerminalAssumption DEF TInv, Reading, UseChar
<1>2. DOMAIN prompt = 0 .. PROMPT - 1 /\ prompt[PROMPT - 1] = NUL
  BY DEF ArgsInv, Ended
<1>3. prompt' = prompt \/ \E c : prompt' = [prompt EXCEPT ![position] = c]
  BY DEF UseChar
<1>4. Ended(prompt')
  BY <1>1, <1>2, <1>3 DEF Ended
<1> QED BY <1>1, <1>4 DEF ArgsInv

-----------------------------------------------------------------------------
(***************************************************************************)
(* The theorems                                                            *)
(***************************************************************************)

\* The invariant of the loop of the shell while it reads a line.
LEMMA TerminalInvariance == TerminalSpec => []TInv
<1>1. TerminalInit => TInv
  <2> SUFFICES ASSUME TerminalInit PROVE TInv
    OBVIOUS
  <2>1. screen = Cleared /\ at = "start" /\ code = NoCode /\ unread = 0
    BY DEF TerminalInit, ScreenInit
  <2>2. ScreenOK(screen)
    BY <2>1, ScreenAssumption DEF Cleared, ScreenOK
  <2> QED BY <2>1, <2>2 DEF TInv, KeysKnown, PressesCounted, HasChar, NoCode, Reading
<1>2. TInv /\ [TerminalNext]_terminalVars => TInv'
  <2> SUFFICES ASSUME TInv, [TerminalNext]_terminalVars PROVE TInv'
    OBVIOUS
  <2>1. CASE Writing /\ UNCHANGED <<keyboardVars, unread, shellVars>>
    BY <2>1, WritingStep
  <2>2. CASE Keyboard
    BY <2>2, ByteStep
  <2>3. CASE Shell
    BY <2>3, StartReadStep, GetStep, UseCharStep, CommandStep DEF Shell
  <2>4. CASE UNCHANGED terminalVars
    BY <2>4 DEF terminalVars, screenVars, keyboardVars, shellVars, TInv, KeysKnown,
         PressesCounted, HasChar, AllPrinted, Reading
  <2> QED BY <2>1, <2>2, <2>3, <2>4 DEF TerminalNext
<1> QED BY <1>1, <1>2, PTL DEF TerminalSpec

\* The characters in front of the cursor are those of the buffer of the shell
\* while a line is typed: shellRead, src/src/kernel/shell.c, and VGA_putc, src/
\* src/kernel/drivers/vga_text.c, agree on what an echo and a backspace do,
\* over line ends and scrolling.
THEOREM LineIsOnScreen == TerminalSpec => []PromptIsOnScreen
<1>1. TInv => PromptIsOnScreen
  <2> SUFFICES ASSUME TInv, at \in {"get", "convert", "use"}
               PROVE  /\ screen.line < HEIGHT /\ screen.column <= WIDTH
                      /\ screen.color = default
                      /\ ~tabbed => InFront(screen, prompt, position)
    BY DEF PromptIsOnScreen, InFront
  <2> QED BY ScreenAssumption DEF TInv, ScreenOK, Reading
<1> QED BY <1>1, TerminalInvariance, PTL

\* However the interrupts of the keyboard fall between the reads of the shell,
\* a press of a key is returned at most once: KEYBOARD_getLastKey and
\* KEYBOARD_discardLastKey, src/src/kernel/drivers/keyboard.c.
THEOREM NoPressTwice == TerminalSpec => []NoKeyTwice
<1>1. TInv => NoKeyTwice
  BY DEF TInv, PressesCounted, NoKeyTwice
<1> QED BY <1>1, TerminalInvariance, PTL

\* The strings, in any run in which the texts can be told apart.
LEMMA StringInvariance ==
    ASSUME TextsAreReadable
    PROVE  TerminalSpec => []StringInv
<1>1. TerminalInit => StringInv
  BY StringsInit
<1>2. StringInv /\ TInv /\ [TerminalNext]_terminalVars => StringInv'
  <2> SUFFICES ASSUME StringInv, TInv, [TerminalNext]_terminalVars PROVE StringInv'
    OBVIOUS
  <2>1. CASE Writing /\ UNCHANGED <<keyboardVars, unread, shellVars>>
    BY <2>1, WritingStrings
  <2>2. CASE Keyboard
    <3>1. \E b : Byte(b)
      BY <2>2 DEF Keyboard, PressChar, PressShift, PressCaps, Release, ReleaseShift, Prefix, Arrow,
         FakeShift
    <3>2. UNCHANGED <<screen, lockVars, todo, position, at>>
      BY <3>1 DEF Byte, screenVars, shellVars
    <3> QED BY <3>2, ElsewhereStrings
  <2>3. CASE GetLastKey \/ Convert \/ ShellParse
    <3>1. /\ UNCHANGED <<screen, lockVars, todo, position>>
          /\ at' \in {"get", "convert", "use"} => at \in {"get", "convert", "use"}
      BY <2>3 DEF GetLastKey, Convert, ShellParse, screenVars
    <3> QED BY <3>1, ElsewhereStrings
  <2>4. CASE StartRead \/ UseChar \/ ShellExecute
    BY <2>4, StartReadStrings, UseCharStrings, ShellExecuteStrings
  <2>5. CASE UNCHANGED terminalVars
    <3>1. UNCHANGED <<screen, lockVars, todo, position, at>>
      BY <2>5 DEF terminalVars, screenVars, shellVars
    <3> QED BY <3>1, ElsewhereStrings
  <2> QED BY <2>1, <2>2, <2>3, <2>4, <2>5 DEF TerminalNext, Shell
<1> QED BY <1>1, <1>2, TerminalInvariance, PTL DEF TerminalSpec

\* What a process prints with one call of VGA_puts or VGA_coloredPuts, src/src/
\* kernel/drivers/vga_text.c, stays together on the screen and has the colour
\* of that call, whoever prints or types at the same time, for any texts of
\* which no character is typed or is of another text.
THEOREM StringsStayWhole ==
    ASSUME TextsAreReadable
    PROVE  TerminalSpec => []StringsAreWhole
<1>1. StringInv /\ TInv => StringsAreWhole
  <2> SUFFICES ASSUME StringInv, TInv, NEW w \in Writer, NEW i \in DOMAIN screen.cells,
                      screen.cells[i].char \in ToSet(Text[w])
               PROVE  /\ screen.cells[i].color = HueOf(w)
                      /\ Manner[w] # "printf" /\ screen.cells[i].char # Last(Text[w]) =>
                           \/ i + 1 = CursorAt(screen) /\ todo[w] # <<>>
                           \/ screen.cells[i + 1].char =
                                Text[w][(CHOOSE k \in DOMAIN Text[w] :
                                            Text[w][k] = screen.cells[i].char) + 1]
    BY DEF StringsAreWhole, HueOf
  <2>1. PICK L \in [Writer -> Label] : Labelled(L)
    BY DEF StringInv
  <2>2. PICK c : c = screen.cells[i].char
    OBVIOUS
  <2>3. Coloured(screen) /\ Joined(screen, Counted(L))
    BY <2>1 DEF Labelled, Whole
  <2>4. c \in Ink(w)
    BY <2>2, <2>3 DEF Coloured, Ink
  <2>5. screen.cells[i].color = HueOf(w)
    BY <2>2, <2>3, <2>4 DEF Coloured
  <2>6. ASSUME Manner[w] # "printf", c # Last(Text[w])
        PROVE  \/ i + 1 = CursorAt(screen) /\ todo[w] # <<>>
               \/ screen.cells[i + 1].char =
                    Text[w][(CHOOSE k \in DOMAIN Text[w] : Text[w][k] = c) + 1]
    <3> DEFINE k == CHOOSE n \in DOMAIN Text[w] : Text[w][n] = c
               n == Len(Text[w])
    <3>1. n \in Nat /\ DOMAIN Text[w] = 1 .. n
      BY LenProperties DEF TextsAreReadable
    <3>2. k \in 1 .. n /\ Text[w][k] = c
      BY <2>2, <3>1 DEF ToSet
    <3> HIDE DEF k
    <3>3. k # n
      BY <2>6, <3>2 DEF Last
    <3>4. k \in 1 .. n - 1
      BY <3>1, <3>2, <3>3
    <3>5. IF i + 1 = CursorAt(screen) THEN L[w].done = k
          ELSE screen.cells[i + 1].char = Text[w][k + 1]
      BY <2>2, <2>3, <2>6, <3>2, <3>4 DEF Joined, Counted
    <3>6. L[w].done = k => todo[w] # <<>>
      <4> SUFFICES ASSUME todo[w] = <<>> PROVE L[w].done # k
        OBVIOUS
      <4>1. Leads(w, <<>>, L[w], End(w))
        BY <2>1 DEF Labelled
      <4>2. L[w].done = n
        BY <4>1, EndFacts
      <4> QED BY <3>3, <4>2
    <3> QED BY <3>5, <3>6 DEF k
  <2> QED BY <2>2, <2>5, <2>6
<1> QED BY <1>1, StringInvariance, TerminalInvariance, PTL

\* The arguments, in any run.
LEMMA ArgsInvariance == TerminalSpec => []ArgsInv
<1>1. TerminalInit => ArgsInv
  <2>1. PROMPT - 1 \in 0 .. PROMPT - 1
    BY TerminalAssumption
  <2>2. Ended(Emptied)
    BY <2>1 DEF Ended, Emptied
  <2> QED BY <2>2 DEF TerminalInit, ArgsInv
<1>2. ArgsInv /\ TInv /\ [TerminalNext]_terminalVars => ArgsInv'
  <2> SUFFICES ASSUME ArgsInv, TInv, [TerminalNext]_terminalVars PROVE ArgsInv'
    OBVIOUS
  <2>1. ASSUME UNCHANGED prompt, at' # "execute" PROVE ArgsInv'
    BY <2>1 DEF ArgsInv
  <2>2. ASSUME UNCHANGED <<prompt, at, args>> PROVE ArgsInv'
    BY <2>2 DEF ArgsInv, Purified, promptPurify
  <2>3. CASE Writing /\ UNCHANGED <<keyboardVars, unread, shellVars>>
    BY <2>2, <2>3 DEF shellVars
  <2>4. CASE Keyboard
    BY <2>2, <2>4 DEF Keyboard, PressChar, PressShift, PressCaps, Release, ReleaseShift, Prefix,
         Arrow, FakeShift, Byte, shellVars
  <2>5. CASE StartRead
    <3>1. PROMPT - 1 \in 0 .. PROMPT - 1
      BY TerminalAssumption
    <3>2. Ended(Emptied)
      BY <3>1 DEF Ended, Emptied
    <3> QED BY <2>5, <3>2 DEF StartRead, ArgsInv
  <2>6. CASE GetLastKey \/ Convert \/ ShellExecute
    BY <2>1, <2>6 DEF GetLastKey, Convert, ShellExecute
  <2>7. CASE UseChar
    BY <2>7, UseCharEnds
  <2>8. CASE ShellParse
    BY <2>8 DEF ShellParse, ArgsInv
  <2>9. CASE UNCHANGED terminalVars
    BY <2>2, <2>9 DEF terminalVars, shellVars
  <2> QED BY <2>3, <2>4, <2>5, <2>6, <2>7, <2>8, <2>9 DEF TerminalNext, Shell
<1> QED BY <1>1, <1>2, TerminalInvariance, PTL DEF TerminalSpec

\* The arguments of a command are the words of the line that was typed: what
\* promptPurify, promptShift and shellParse, src/src/kernel/shell.c, do in
\* place, over blanks, quotation marks and the last argument there is room for.
THEOREM WordsAreRight == TerminalSpec => []ArgsAreTheWords
<1>1. ArgsInv => ArgsAreTheWords
  BY ParsedFacts DEF ArgsInv, ArgsAreTheWords, TwoMarks
<1> QED BY <1>1, ArgsInvariance, PTL
=============================================================================

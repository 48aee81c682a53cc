------------------------------- MODULE Screen -------------------------------
(***************************************************************************)
(* The text screen, src/src/kernel/drivers/vga_text.c, and the processes   *)
(* that print on it: with VGA_puts or VGA_coloredPuts, which keep the      *)
(* recursive vga_lock for the whole string, or with printf, which takes it *)
(* for each character.  vga_lock is the FifoLock Mutex is shown to be.     *)
(***************************************************************************)
EXTENDS Integers, Sequences, SequencesExt

CONSTANTS
    Writer,   \* processes that print
    nobody,   \* no process
    Text,     \* what each prints, once: characters, no two alike
    Manner,   \* how: "printf", "puts", "colored"
    Colour,   \* in which colour, if "colored"
    default,  \* defaultColor
    WIDTH, HEIGHT,  \* 80 and 25
    TAB             \* distance of the tabulator stops: 4

ASSUME ScreenAssumption ==
    /\ {WIDTH, HEIGHT, TAB} \subseteq Nat \ {0} /\ WIDTH % TAB = 0
    /\ nobody \notin Writer
    /\ Manner \in [Writer -> {"printf", "puts", "colored"}]
    /\ \A w \in Writer : IsInjective(Text[w])

VARIABLES
    screen,  \* line, column, currentColor and the cells
    holder, depth, queue,  \* vga_lock
    todo     \* the steps each writer still has to take

lockVars == <<holder, depth, queue>>
screenVars == <<screen, lockVars, todo>>

Lock == INSTANCE FifoLock WITH Client <- Writer

-----------------------------------------------------------------------------
(***************************************************************************)
(* What the characters do                                                  *)
(***************************************************************************)
BS == "backspace"

Blank(color) == [char |-> " ", color |-> color]

\* Where updateCursor puts the cursor.
CursorAt(s) == s.line * WIDTH + s.column

\* scrollUp: the first row goes to the memory in front of the screen.
ScrollUp(s) ==
    [s EXCEPT !.cells = [i \in DOMAIN s.cells |->
        IF i + WIDTH \in DOMAIN s.cells THEN s.cells[i + WIDTH] ELSE Blank(s.color)]]

NewLine(s) ==
    IF s.line < HEIGHT - 1 THEN [s EXCEPT !.line = @ + 1, !.column = 0]
    ELSE [ScrollUp(s) EXCEPT !.column = 0]

\* The line is full only when the next character comes.
Wrapped(s) == IF s.column = WIDTH THEN NewLine(s) ELSE s

Backspace(s) ==
    LET back == IF s.column > 0 THEN [s EXCEPT !.column = @ - 1]
                ELSE IF s.line > 0 THEN [s EXCEPT !.line = @ - 1, !.column = WIDTH - 1]
                ELSE s
    IN  [back EXCEPT !.cells[CursorAt(back)] = Blank(s.color)]

Tabulated(s) ==
    LET n == TAB - (s.column % TAB)
    IN  [s EXCEPT !.column = @ + n,
                  !.cells = [i \in DOMAIN @ |->
                      IF i \in CursorAt(s) .. CursorAt(s) + n - 1 THEN Blank(s.color) ELSE @[i]]]

Printed(s, c) ==
    [s EXCEPT !.column = @ + 1, !.cells[CursorAt(s)] = [char |-> c, color |-> s.color]]

\* VGA_putc.
Putc(s, c) ==
    CASE c = "\n" -> NewLine(s)
      [] c = "\r" -> [s EXCEPT !.column = 0]
      [] c = BS -> Backspace(s)
      [] c = "\t" -> Tabulated(Wrapped(s))
      [] OTHER -> Printed(Wrapped(s), c)

\* VGA_clr.
Cleared ==
    [line |-> 0, column |-> 0, color |-> default,
     cells |-> [i \in 0 .. WIDTH * HEIGHT - 1 |-> Blank(default)]]

-----------------------------------------------------------------------------
(***************************************************************************)
(* The functions, as sequences of steps                                    *)
(***************************************************************************)
Locked(steps) == <<[op |-> "acquire"]>> \o steps \o <<[op |-> "release"]>>

VGA_putc(c) == Locked(<<[op |-> "putc", char |-> c]>>)

VGA_setCurrentColor(color) == Locked(<<[op |-> "color", color |-> color]>>)

VGA_setColorToDefault == Locked(<<[op |-> "color", color |-> default]>>)

Chars(s) == FlattenSeq([k \in DOMAIN s |-> VGA_putc(s[k])])

VGA_puts(s) == Locked(Chars(s))

\* Mutated, to show that StringsAreWhole can fail: no lock around the calls.
ColoredPutsOpen(s, color) ==
    VGA_setCurrentColor(color) \o VGA_puts(s) \o VGA_setColorToDefault

VGA_coloredPuts(s, color) ==
    Locked(VGA_setCurrentColor(color) \o VGA_puts(s) \o VGA_setColorToDefault)

\* fputs of stdio.c: VFS_write calls VGA_putc for one character at a time.
printf(s) == Chars(s)

Prints(w) ==
    CASE Manner[w] = "printf" -> printf(Text[w])
      [] Manner[w] = "puts" -> VGA_puts(Text[w])
      [] Manner[w] = "colored" -> VGA_coloredPuts(Text[w], Colour[w])

-----------------------------------------------------------------------------
(***************************************************************************)
(* The processes, after the VGA_clr of init_process                        *)
(***************************************************************************)
ScreenInit ==
    /\ screen = Cleared
    /\ Lock!Init
    /\ todo = [w \in Writer |-> Prints(w)]

At(w, op) == todo[w] # <<>> /\ Head(todo[w]).op = op /\ w \notin ToSet(queue)

GoOn(w) == todo' = [todo EXCEPT ![w] = Tail(@)]

TakeLock(w) == At(w, "acquire") /\ Lock!Acquire(w) /\ GoOn(w) /\ UNCHANGED screen

GiveLock(w) == At(w, "release") /\ Lock!Release(w) /\ GoOn(w) /\ UNCHANGED screen

PutChar(w) ==
    /\ At(w, "putc")
    /\ screen' = Putc(screen, Head(todo[w]).char)
    /\ GoOn(w)
    /\ UNCHANGED lockVars

SetColor(w) ==
    /\ At(w, "color")
    /\ screen' = [screen EXCEPT !.color = Head(todo[w]).color]
    /\ GoOn(w)
    /\ UNCHANGED lockVars

Writing == \E w \in Writer : TakeLock(w) \/ GiveLock(w) \/ PutChar(w) \/ SetColor(w)

AllPrinted == \A w \in Writer : todo[w] = <<>>

-----------------------------------------------------------------------------
(***************************************************************************)
(* Properties                                                              *)
(***************************************************************************)

\* What a process prints with one call of VGA_puts or VGA_coloredPuts stays
\* together on the screen, whoever prints at the same time, and every
\* character has the colour of the call that printed it.
StringsAreWhole ==
    \A w \in Writer, i \in DOMAIN screen.cells :
        LET cell == screen.cells[i]
        IN  i < CursorAt(screen) /\ cell.char \in ToSet(Text[w]) =>
            /\ cell.color = IF Manner[w] = "colored" THEN Colour[w] ELSE default
            /\ Manner[w] # "printf" /\ cell.char # Last(Text[w]) =>
                \/ i + 1 = CursorAt(screen) /\ todo[w] # <<>>
                \/ LET k == CHOOSE k \in DOMAIN Text[w] : Text[w][k] = cell.char
                   IN  screen.cells[i + 1].char = Text[w][k + 1]
=============================================================================

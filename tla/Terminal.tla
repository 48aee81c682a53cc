------------------------------ MODULE Terminal ------------------------------
(***************************************************************************)
(* The shell, src/src/kernel/shell.c, between the keyboard driver,         *)
(* src/src/kernel/drivers/keyboard.c, and the Screen.  It is the loop that *)
(* main.c has behind the one start() stays in, so that no process but the  *)
(* shell reads keys; it starts when the writers of Screen are done.  The   *)
(* commands themselves are left out.                                       *)
(*                                                                         *)
(* The interrupt handler of the keyboard runs between any two accesses of  *)
(* the shell to what they share.                                           *)
(***************************************************************************)
EXTENDS Screen, FiniteSetsExt

CONSTANTS
    PROMPT,     \* MAX_CHAR_PROMPT: 256
    ARGS,       \* MAX_CMD_ARGS: 64
    Key,        \* keys with a character: [plain, shifted]
    special,    \* the character of an arrow's code, without its prefix
    promptColour,
    MaxKeys     \* bound: keys pressed

NUL == "NUL"
Blanks == {" ", "\t"}
Quotes == {"'", "\""}

ASSUME TerminalAssumption ==
    /\ {PROMPT, ARGS, MaxKeys} \subseteq Nat \ {0, 1}
    /\ \A k \in Key : {k.plain, k.shifted} \cap {NUL, "\r"} = {}
    /\ special \notin {NUL, "\r", "\t"}

VARIABLES
    code,      \* g_scancode: [kind, key]; a byte of the keyboard
    shift,     \* g_shiftPressed
    caps,      \* g_capsLockOn
    extended,  \* g_extended
    prefix,    \* the keyboard has sent 0xE0, the code comes next
    pressed,   \* keys pressed so far
    unread,    \* characters pressed that no getchar returned yet
    at,        \* where the shell is
    key,       \* the key getchar read, then its character
    prompt, position,  \* of shellRead
    tabbed,    \* a tabulator was typed in this line
    args       \* of shellParse: argc strings

keyboardVars == <<code, shift, caps, extended, prefix, pressed>>
shellVars == <<at, key, prompt, position, tabbed, args>>
terminalVars == <<screenVars, keyboardVars, unread, shellVars>>

NoCode == [kind |-> "none"]
Emptied == [i \in 0 .. PROMPT - 1 |-> NUL]

TerminalInit ==
    /\ ScreenInit
    /\ code = NoCode
    /\ shift = FALSE /\ caps = FALSE /\ extended = FALSE /\ prefix = FALSE
    /\ pressed = 0 /\ unread = 0
    /\ at = "start" /\ key = NoCode
    /\ prompt = Emptied /\ position = 0 /\ tabbed = FALSE /\ args = <<>>

-----------------------------------------------------------------------------
(***************************************************************************)
(* KEYBOARD_interruptHandler, once for each byte the keyboard sends        *)
(***************************************************************************)
HasChar(c) == c.kind \in {"char", "arrow"}

\* A byte reaches the handler, which keeps nothing but the last one.
Byte(b) ==
    /\ code' = b
    /\ unread' = IF HasChar(b) THEN unread + 1 ELSE unread
    /\ UNCHANGED <<screenVars, shellVars>>

MayPress == ~prefix /\ pressed < MaxKeys /\ at # "start" /\ pressed' = pressed + 1

\* A key with a character; its code is that of an arrow after a prefix.
PressChar ==
    /\ MayPress
    /\ \E k \in Key : Byte([kind |-> "char", key |-> k])
    /\ extended' = FALSE
    /\ UNCHANGED <<shift, caps, prefix>>

\* The handler takes the code for that of a special key while g_extended is
\* set, and shift and caps lock are not seen.
PressShift ==
    /\ MayPress
    /\ Byte([kind |-> "shift"])
    /\ shift' = (shift \/ ~extended)
    /\ extended' = FALSE
    /\ UNCHANGED <<caps, prefix>>

PressCaps ==
    /\ MayPress
    /\ Byte([kind |-> "caps"])
    /\ caps' = IF extended THEN caps ELSE ~caps
    /\ extended' = FALSE
    /\ UNCHANGED <<shift, prefix>>

\* A break code, or the answer of the keyboard to the new state of its lamps.
Release ==
    /\ ~prefix
    /\ Byte([kind |-> "other"])
    /\ UNCHANGED <<shift, caps, extended, prefix, pressed>>

ReleaseShift ==
    /\ ~prefix
    /\ shift
    /\ Byte([kind |-> "other"])
    /\ shift' = FALSE
    /\ UNCHANGED <<caps, extended, prefix, pressed>>

\* 0xE0; then the code of the arrow pressed, or released: then g_extended
\* stays set.
Prefix ==
    /\ MayPress
    /\ Byte([kind |-> "other"])
    /\ prefix' = TRUE /\ extended' = TRUE
    /\ UNCHANGED <<shift, caps>>

Arrow ==
    /\ prefix /\ prefix' = FALSE
    /\ \/ Byte([kind |-> "arrow"]) /\ extended' = FALSE
       \/ Byte([kind |-> "other"]) /\ UNCHANGED extended
    /\ UNCHANGED <<shift, caps, pressed>>

\* The shift code a keyboard sends of itself around such a key: pressed it
\* only clears g_extended, released it clears g_shiftPressed.
FakeShift ==
    /\ prefix /\ prefix' = FALSE
    /\ \/ Byte([kind |-> "shift"]) /\ extended' = FALSE /\ UNCHANGED shift
       \/ Byte([kind |-> "other"]) /\ shift' = FALSE /\ UNCHANGED extended
    /\ UNCHANGED <<caps, pressed>>

Keyboard ==
    PressChar \/ PressShift \/ PressCaps \/ Release \/ ReleaseShift \/ Prefix \/ Arrow
        \/ FakeShift

-----------------------------------------------------------------------------
(***************************************************************************)
(* getchar and shellRead                                                   *)
(***************************************************************************)

\* KEYBOARD_scanToAscii.
Ascii(c) ==
    CASE c.kind = "char" -> IF shift # caps THEN c.key.shifted ELSE c.key.plain
      [] c.kind = "arrow" -> special
      [] OTHER -> NUL

\* The prompt is printed and shellRead starts with an empty buffer.
StartRead ==
    /\ at = "start" /\ AllPrinted
    /\ at' = "get"
    /\ screen' = [Putc([screen EXCEPT !.color = promptColour], ">") EXCEPT !.color = default]
    /\ prompt' = Emptied /\ position' = 0 /\ tabbed' = FALSE /\ args' = <<>>
    /\ UNCHANGED <<lockVars, todo, keyboardVars, unread, key>>

\* KEYBOARD_getLastKey, which keeps its mutex; only the shell asks for it.
GetLastKey ==
    /\ at = "get" /\ at' = "convert"
    /\ key' = code
    /\ UNCHANGED <<screenVars, keyboardVars, unread, prompt, position, tabbed, args>>

Convert ==
    /\ at = "convert"
    /\ IF Ascii(key) = NUL THEN at' = "get" /\ UNCHANGED key
       ELSE at' = "use" /\ key' = [kind |-> "read", char |-> Ascii(key)]
    /\ UNCHANGED <<screenVars, keyboardVars, unread, prompt, position, tabbed, args>>

\* Mutated forms: the key is not discarded; a backspace is not echoed.
DiscardedNot == code
EchoedNot(c) == IF c = BS THEN screen ELSE Putc(screen, c)

\* KEYBOARD_discardLastKey.
Discarded == NoCode

Echoed(c) == Putc(screen, c)

\* getchar returns; shellRead stores the character and echoes it.  A full
\* buffer ends the line as the return key does.
UseChar ==
    /\ at = "use"
    /\ code' = Discarded
    /\ unread' = unread - 1
    /\ tabbed' = (tabbed \/ key.char = "\t")
    /\ LET c == key.char
       IN  \/ /\ c = BS /\ position = 0
              /\ at' = "get"
              /\ UNCHANGED <<screen, prompt, position>>
           \/ /\ c = BS /\ position > 0
              /\ screen' = Echoed(c) /\ position' = position - 1
              /\ at' = "get"
              /\ UNCHANGED prompt
           \/ /\ c = "\n"
              /\ screen' = Echoed(c) /\ prompt' = [prompt EXCEPT ![position] = NUL]
              /\ at' = "parse"
              /\ UNCHANGED position
           \/ /\ c \notin {BS, "\n"}
              /\ prompt' = [prompt EXCEPT ![position] = c]
              /\ position' = position + 1
              /\ IF position' < PROMPT - 1 THEN screen' = Echoed(c) /\ at' = "get"
                 ELSE screen' = Putc(Echoed(c), "\n") /\ at' = "parse"
    /\ key' = NoCode
    /\ UNCHANGED <<lockVars, todo, shift, caps, extended, prefix, pressed, args>>

-----------------------------------------------------------------------------
(***************************************************************************)
(* shellParse                                                              *)
(***************************************************************************)

\* The string at i, and where it ends.
EndOf(buf, i) == Min({j \in i .. PROMPT : j = PROMPT \/ buf[j] = NUL})
StringAt(buf, i) == [k \in 1 .. EndOf(buf, i) - i |-> buf[i + k - 1]]

\* s in the buffer from i on, with its NUL; the rest stays.
Stored(buf, i, s) ==
    [j \in DOMAIN buf |->
        IF j \in i .. i + Len(s) - 1 THEN s[j - i + 1] ELSE IF j = i + Len(s) THEN NUL ELSE buf[j]]

\* promptPurify moves the string over its leading blanks and cuts those at
\* its end; what was beyond the new end stays in the buffer.
promptPurify(buf) ==
    LET n == EndOf(buf, 0)
        first == Min({j \in 0 .. n : j = n \/ buf[j] \notin Blanks})
        moved == Stored(buf, 0, StringAt(buf, first))
        last == Max({-1} \cup {j \in 0 .. n - first - 1 : moved[j] \notin Blanks})
    IN  [j \in DOMAIN buf |-> IF j > last /\ j < n - first THEN NUL ELSE moved[j]]

\* promptShift by one place: the character at i is gone.
promptShift(buf, i) == Stored(buf, i, StringAt(buf, i + 1))

\* One turn of the loop of shellParse, at the character `end`: a quotation
\* mark that opens or closes goes, and a blank outside of them ends a string.
ParseChar(s, end) ==
    LET mark == IF s.open = NUL THEN s.buf[end] \in Quotes ELSE s.buf[end] = s.open
        open == IF ~mark THEN s.open ELSE IF s.open = NUL THEN s.buf[end] ELSE NUL
        shifted == IF mark THEN promptShift(s.buf, end) ELSE s.buf
        splits == open = NUL /\ shifted[end] \in Blanks
        cut == IF splits THEN [shifted EXCEPT ![end] = NUL] ELSE shifted
        found == IF splits THEN Append(s.found, s.begin) ELSE s.found
    IN  [buf |-> cut, open |-> open, found |-> found,
         begin |-> IF splits THEN end + 1 ELSE s.begin,
         going |-> cut[end + 1] # NUL /\ Len(found) < ARGS - 1]

\* The loop, for the line in the buffer; the string it ends in is the last.
Parsed(line) ==
    LET turn[n \in 0 .. PROMPT] ==
            IF n = 0 THEN [buf |-> line, open |-> NUL, found |-> <<>>, begin |-> 0,
                           going |-> TRUE]
            ELSE LET s == turn[n - 1] IN IF s.going THEN ParseChar(s, n - 1) ELSE s
        last == turn[PROMPT]
        begins == Append(last.found, last.begin)
    IN  [k \in DOMAIN begins |-> StringAt(last.buf, begins[k])]

\* Mutated: the line is taken as it was typed.
PurifiedNot(buf) == buf

Purified(buf) == promptPurify(buf)

ShellParse ==
    /\ at = "parse" /\ at' = "execute"
    /\ args' = Parsed(Purified(prompt))
    /\ UNCHANGED <<screenVars, keyboardVars, unread, key, prompt, position, tabbed>>

\* shellExecute, the command aside, ends with a new line.
ShellExecute ==
    /\ at = "execute" /\ at' = "start"
    /\ screen' = Putc(screen, "\n")
    /\ UNCHANGED <<lockVars, todo, keyboardVars, unread, key, prompt, position, tabbed, args>>

Shell == StartRead \/ GetLastKey \/ Convert \/ UseChar \/ ShellParse \/ ShellExecute

TerminalNext ==
    \/ Writing /\ UNCHANGED <<keyboardVars, unread, shellVars>>
    \/ Keyboard
    \/ Shell

TerminalSpec == TerminalInit /\ [][TerminalNext]_terminalVars

-----------------------------------------------------------------------------
(***************************************************************************)
(* Properties                                                              *)
(***************************************************************************)

\* While a line is typed, over line ends, scrolling and backspaces, the
\* cursor is on the screen and writes in the default colour, and the
\* characters in front of it are those of the buffer.  A tabulator takes
\* several cells of the screen and a backspace gives one of them back: behind
\* one the two disagree until the line ends.
PromptIsOnScreen ==
    at \in {"get", "convert", "use"} =>
        /\ screen.line < HEIGHT /\ screen.column <= WIDTH /\ screen.color = default
        /\ \A k \in 1 .. position :
            ~tabbed /\ CursorAt(screen) - k \in DOMAIN screen.cells =>
                screen.cells[CursorAt(screen) - k] =
                    [char |-> prompt[position - k], color |-> default]

\* Texts for which StringsAreWhole means something, whoever types beside: a
\* character on the screen shows which text it is of, none is rubbed out or
\* written over, and a string that is to stay together has no line ends.
KeyChar == {k.plain : k \in Key} \cup {k.shifted : k \in Key} \cup {special}

Ink(w) == ToSet(Text[w]) \ {"\n", "\t"}

TextsAreReadable ==
    \A w \in Writer :
        /\ Text[w] \in Seq(ToSet(Text[w]))
        /\ ToSet(Text[w]) \cap {" ", "\r", BS} = {}
        /\ Manner[w] # "printf" => ToSet(Text[w]) = Ink(w)
        /\ Ink(w) \cap (KeyChar \cup {">"}) = {}
        /\ \A v \in Writer \ {w} : Ink(w) \cap Ink(v) = {}

\* getchar returns no press of a key twice, however it is interrupted.
NoKeyTwice == unread >= 0

\* The line of the user, without the blanks around it: the marks of quotation
\* open at each place, and the words they and the blanks make.
Typed ==
    LET line == StringAt(prompt, 0)
        ink == {k \in DOMAIN line : line[k] \notin Blanks}
    IN  IF ink = {} THEN <<>> ELSE SubSeq(line, Min(ink), Max(ink))

OpenMark(line) ==
    LET mark[k \in 0 .. Len(line)] ==
            IF k = 0 THEN NUL
            ELSE IF mark[k - 1] = NUL THEN IF line[k] \in Quotes THEN line[k] ELSE NUL
            ELSE IF line[k] = mark[k - 1] THEN NUL ELSE mark[k - 1]
    IN  mark

\* The words that the first k characters make, the last of them open: a mark
\* that opens or closes is in none, a blank outside of marks starts the next.
WordsAt(line) ==
    LET mark == OpenMark(line)
        words[k \in 0 .. Len(line)] ==
            IF k = 0 THEN << <<>> >>
            ELSE LET before == words[k - 1]
                 IN  IF mark[k] # mark[k - 1] THEN before
                     ELSE IF mark[k] = NUL /\ line[k] \in Blanks THEN Append(before, <<>>)
                     ELSE [before EXCEPT ![Len(before)] = Append(@, line[k])]
    IN  words

Words(line) == WordsAt(line)[Len(line)]

\* args are the words of the line; the last that fits is the rest of the
\* line as it was typed.  Not so where two marks of quotation follow one
\* another: shellParse steps over the second; nor for a line of blanks, of
\* which it reads what promptPurify left behind.
ArgsAreTheWords ==
    LET words == Words(Typed)
        n == Min({Len(words), ARGS})
        mark == OpenMark(Typed)
        twoMarks == \E k \in 1 .. Len(Typed) - 1 :
            mark[k - 1] # mark[k] /\ mark[k] # mark[k + 1]
    IN  at = "execute" /\ Typed # <<>> /\ ~twoMarks =>
            /\ Len(args) = n
            /\ \A k \in 1 .. IF Len(words) >= ARGS THEN n - 1 ELSE n : args[k] = words[k]
=============================================================================

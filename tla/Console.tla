------------------------------ MODULE Console ------------------------------
(***************************************************************************)
(* The text console: kernel/print.c and kernel/lib/putchar.asm, shared by  *)
(* the main thread and the interrupt handlers that print (the timer's and  *)
(* the keyboard's).                                                        *)
(*                                                                         *)
(* put_c reads the cursor from the VGA registers, writes a cell and writes *)
(* the cursor back.  What keeps a handler from doing the same in between,  *)
(* and from printing into the middle of a string, is the interrupt flag:   *)
(* every function of print.c disables interrupts and restores what it      *)
(* found, and they call each other.                                        *)
(*                                                                         *)
(* put_uint, put_int and put_16uint print their digits the way put_str     *)
(* prints its argument; how digits are computed is left out.               *)
(***************************************************************************)
EXTENDS Integers, Sequences

CONSTANTS
    Cols, Rows,  \* 80 and 25
    Glyph,       \* the characters that have a picture
    Blank,       \* no picture: '\0', or the spaces of a cleared screen
    Text         \* the strings that are printed

Control == {"\\0", "\\b", "\\r", "\\n"}

ASSUME SizeAssumption == Cols \in Nat \ {0} /\ Rows \in Nat \ {0}
ASSUME GlyphAssumption ==
    Blank \notin Glyph /\ Glyph \cap Control = {}
ASSUME TextAssumption == Text \subseteq Seq(Glyph \cup Control)

Size == Cols * Rows
Cell == 0 .. Size - 1

Context == {"main", "irq"}
Intr == {"INTR_ON", "INTR_OFF"}

VARIABLES
    screen,    \* the characters of the text memory
    cursor,    \* the cursor registers of the VGA
    intr,      \* the IF bit of eflags
    irq,       \* whether an interrupt handler has interrupted main
    place,     \* where each context is in print.c:
               \*   "idle"  not in it
               \*   "str"   in put_str, at the test of its loop
               \*   "char"  in put_char, about to call put_c
               \*   "put"   in put_c, the cursor is in bx
    text,      \* what put_str has left to print
    inner,     \* whether put_char was called by put_str
    strOld,    \* put_str's local old_status
    charOld,   \* put_char's local old_status
    arg,       \* put_char's argument
    bx         \* the register put_c keeps the cursor in

conVars == << screen, cursor, intr, irq, place, text, inner, strOld, charOld,
              arg, bx >>

\* The MBR clears the screen and sets the cursor; M and L are written only by
\* a boot that fails.  init_all has enabled interrupts.
ConsoleInit ==
    /\ screen = [i \in Cell |-> Blank]
    /\ cursor = 0
    /\ intr = "INTR_ON"
    /\ irq = FALSE
    /\ place = [c \in Context |-> "idle"]
    /\ text = [c \in Context |-> << >>]
    /\ inner = [c \in Context |-> FALSE]
    /\ strOld = [c \in Context |-> "INTR_ON"]
    /\ charOld = [c \in Context |-> "INTR_ON"]
    /\ arg = [c \in Context |-> "\\0"]
    /\ bx = [c \in Context |-> 0]

-----------------------------------------------------------------------------
(***************************************************************************)
(* put_c, on a screen s with the cursor at p: the new screen and cursor.   *)
(***************************************************************************)

\* Mutated form: the cell keeps its character.
is_backspace_keep(s, p) ==
    [screen |-> s, cursor |-> IF p = 0 THEN 0 ELSE p - 1]

is_backspace(s, p) ==
    IF p = 0 THEN [screen |-> s, cursor |-> 0]
    ELSE [screen |-> [s EXCEPT ![p - 1] = Blank], cursor |-> p - 1]

roll_screen(s) ==
    [screen |-> [i \in Cell |-> IF i + Cols < Size THEN s[i + Cols] ELSE Blank],
     cursor |-> Size - Cols]

is_line_feed(s, p) ==
    LET next == p - (p % Cols) + Cols
    IN  IF next < Size THEN [screen |-> s, cursor |-> next] ELSE roll_screen(s)

\* Behind the last cell the code runs on into is_backspace.
put_other(s, p, c) ==
    LET written == [s EXCEPT ![p] = c]
    IN  IF p + 1 < Size THEN [screen |-> written, cursor |-> p + 1]
        ELSE is_backspace(written, p + 1)

put_c(s, p, c) ==
    CASE c = "\\0"          -> [screen |-> s, cursor |-> p]
      [] c = "\\b"          -> is_backspace(s, p)
      [] c \in {"\\r", "\\n"} -> is_line_feed(s, p)
      [] c \in Glyph        -> put_other(s, p, c)

-----------------------------------------------------------------------------
\* The context that executes.
Runs(c) == irq <=> c = "irq"
At(c, p) == Runs(c) /\ place[c] = p
Goto(c, p) == place' = [place EXCEPT ![c] = p]

\* An interrupt whose handler prints; its gate clears IF.
interrupt ==
    /\ intr = "INTR_ON"
    /\ ~ irq
    /\ irq' = TRUE
    /\ intr' = "INTR_OFF"
    /\ UNCHANGED << screen, cursor, place, text, inner, strOld, charOld, arg,
                    bx >>

\* iretd restores the flags of what was interrupted.
iretd ==
    /\ At("irq", "idle")
    /\ irq' = FALSE
    /\ intr' = "INTR_ON"
    /\ UNCHANGED << screen, cursor, place, text, inner, strOld, charOld, arg,
                    bx >>

put_str(c, s) ==
    /\ At(c, "idle")
    /\ strOld' = [strOld EXCEPT ![c] = intr]
    /\ intr' = "INTR_OFF"
    /\ text' = [text EXCEPT ![c] = s]
    /\ Goto(c, "str")
    /\ UNCHANGED << screen, cursor, irq, inner, charOld, arg, bx >>

\* put_char, called by the loop of put_str or from elsewhere.
put_char(c, ch) ==
    /\ \/ /\ At(c, "idle")
          /\ inner' = [inner EXCEPT ![c] = FALSE]
          /\ UNCHANGED text
       \/ /\ At(c, "str")
          /\ text[c] # << >>
          /\ ch = Head(text[c])
          /\ inner' = [inner EXCEPT ![c] = TRUE]
          /\ text' = [text EXCEPT ![c] = Tail(@)]
    /\ charOld' = [charOld EXCEPT ![c] = intr]
    /\ intr' = "INTR_OFF"
    /\ arg' = [arg EXCEPT ![c] = ch]
    /\ Goto(c, "char")
    /\ UNCHANGED << screen, cursor, irq, strOld, bx >>

read_cursor(c) ==
    /\ At(c, "char")
    /\ bx' = [bx EXCEPT ![c] = cursor]
    /\ Goto(c, "put")
    /\ UNCHANGED << screen, cursor, intr, irq, text, inner, strOld, charOld,
                    arg >>

\* Mutated form: put_char enables interrupts in place of restoring the flag.
write_cell_enable(c) ==
    LET out == put_c(screen, bx[c], arg[c]) IN
    /\ At(c, "put")
    /\ screen' = out.screen
    /\ cursor' = out.cursor
    /\ intr' = "INTR_ON"
    /\ Goto(c, IF inner[c] THEN "str" ELSE "idle")
    /\ UNCHANGED << irq, text, inner, strOld, charOld, arg, bx >>

\* The rest of put_c, and the end of put_char.
write_cell(c) ==
    LET out == put_c(screen, bx[c], arg[c]) IN
    /\ At(c, "put")
    /\ screen' = out.screen
    /\ cursor' = out.cursor
    /\ intr' = charOld[c]
    /\ Goto(c, IF inner[c] THEN "str" ELSE "idle")
    /\ UNCHANGED << irq, text, inner, strOld, charOld, arg, bx >>

\* Mutated form: the flag is not restored.
end_str_no_restore(c) ==
    /\ At(c, "str")
    /\ text[c] = << >>
    /\ Goto(c, "idle")
    /\ UNCHANGED << screen, cursor, intr, irq, text, inner, strOld, charOld,
                    arg, bx >>

end_str(c) ==
    /\ At(c, "str")
    /\ text[c] = << >>
    /\ intr' = strOld[c]
    /\ Goto(c, "idle")
    /\ UNCHANGED << screen, cursor, irq, text, inner, strOld, charOld, arg, bx >>

ConsoleNext ==
    \/ interrupt \/ iretd
    \/ \E c \in Context :
         \/ \E s \in Text : put_str(c, s)
         \/ \E ch \in Glyph \cup Control : put_char(c, ch)
         \/ read_cursor(c) \/ write_cell(c) \/ end_str(c)

ConsoleSpec == ConsoleInit /\ [][ConsoleNext]_conVars

-----------------------------------------------------------------------------
ConsoleTypeOK ==
    /\ screen \in [Cell -> Glyph \cup {Blank}]
    /\ cursor \in Cell
    /\ intr \in Intr
    /\ irq \in BOOLEAN
    /\ place \in [Context -> {"idle", "str", "char", "put"}]
    /\ text \in [Context -> Seq(Glyph \cup Control)]
    /\ inner \in [Context -> BOOLEAN]
    /\ strOld \in [Context -> Intr]
    /\ charOld \in [Context -> Intr]
    /\ arg \in [Context -> Glyph \cup Control]
    /\ bx \in [Context -> Cell]

\* Text ends at the cursor: whatever lines, backspaces and scrolling did, no
\* character is left at the cursor or behind it.
NothingBehindCursor == \A i \in Cell : i >= cursor => screen[i] = Blank

\* print.c: nested calls do not enable interrupts early.  No handler runs,
\* let alone prints, while the main thread is inside a print function.
StringsWhole == irq => place["main"] = "idle"

\* The cursor put_c has read is the cursor until it writes: no other
\* character is printed in between, so none is overwritten.
CursorFresh == \A c \in Context : place[c] = "put" => bx[c] = cursor

\* Outside print.c the flag is what the caller had: on in the main thread,
\* off in a handler, which is therefore not interrupted itself.
IntrRestored ==
    /\ ~ irq /\ place["main"] = "idle" => intr = "INTR_ON"
    /\ irq => intr = "INTR_OFF"

=============================================================================

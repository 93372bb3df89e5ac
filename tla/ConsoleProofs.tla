--------------------------- MODULE ConsoleProofs ---------------------------
(***************************************************************************)
(* Proofs about the console: whatever the size of the screen and the texts *)
(* printed, the cursor stays on the screen with nothing behind it, and no  *)
(* handler prints while another print is in progress.                      *)
(***************************************************************************)
EXTENDS Console, SequenceTheorems, TLAPS

-----------------------------------------------------------------------------
(***************************************************************************)
(* The screen.                                                             *)
(***************************************************************************)

LEMMA SizeFacts == Size \in Nat /\ Cols \in Nat /\ Cols > 0 /\ Cols <= Size
<1>1. Cols \in Nat \ {0} /\ Rows \in Nat \ {0}
  BY SizeAssumption
<1>2. \A n, r \in Nat \ {0} : n * r \in Nat /\ n <= n * r
  BY SMT
<1> QED BY <1>1, <1>2, SMT DEF Size

\* The start of the next line is behind every cell of this line.
LEMMA NextLine ==
    ASSUME NEW p \in Cell
    PROVE  p - (p % Cols) + Cols \in Nat /\ p < p - (p % Cols) + Cols
<1>1. p \in Nat /\ Cols \in Nat /\ Cols > 0
  BY SizeFacts, SMT DEF Cell
<1>2. p % Cols \in 0 .. Cols - 1
  BY <1>1, SMT
<1>3. p % Cols <= p
  <2>1. p = Cols * (p \div Cols) + (p % Cols) /\ p \div Cols \in Nat
    BY <1>1, SMT
  <2>2. \A n, q \in Nat : n * q >= 0
    BY SMT
  <2> QED BY <1>1, <1>2, <2>1, <2>2, SMT
<1> QED BY <1>1, <1>2, <1>3, SMT

Screen == [Cell -> Glyph \cup {Blank}]

\* NothingBehindCursor, of a screen s with the cursor at p.
Clear(s, p) == \A i \in Cell : i >= p => s[i] = Blank

Good(out) ==
    out.screen \in Screen /\ out.cursor \in Cell /\ Clear(out.screen, out.cursor)

LEMMA BackspaceGood ==
    ASSUME NEW s \in Screen, NEW p \in 0 .. Size,
           \A i \in Cell : i >= p => s[i] = Blank
    PROVE  Good(is_backspace(s, p))
<1>1. CASE p = 0
  BY <1>1, SizeFacts, SMT DEF Good, is_backspace, Clear, Cell
<1>2. CASE p # 0
  <2> DEFINE t == [s EXCEPT ![p - 1] = Blank]
  <2>1. p - 1 \in Cell
    BY <1>2, SizeFacts, SMT DEF Cell
  <2>2. t \in Screen
    BY <2>1 DEF Screen
  <2>3. \A i \in Cell : t[i] = IF i = p - 1 THEN Blank ELSE s[i]
    BY <2>1 DEF Screen
  <2>4. Clear(t, p - 1)
    <3> SUFFICES ASSUME NEW i \in Cell, i >= p - 1
                 PROVE  t[i] = Blank
      BY <2>1, SMT DEF Clear, Cell
    <3>1. i = p - 1 \/ i >= p
      BY <2>1, SMT DEF Cell
    <3> QED BY <1>2, <2>3, <3>1, SMT DEF Cell
  <2>5. is_backspace(s, p) = [screen |-> t, cursor |-> p - 1]
    BY <1>2 DEF is_backspace
  <2> HIDE DEF t
  <2> QED BY <2>1, <2>2, <2>4, <2>5 DEF Good
<1> QED BY <1>1, <1>2

LEMMA RollGood ==
    ASSUME NEW s \in Screen
    PROVE  Good(roll_screen(s))
<1> DEFINE t == [i \in Cell |-> IF i + Cols < Size THEN s[i + Cols] ELSE Blank]
<1>1. t \in Screen
  <2> SUFFICES ASSUME NEW i \in Cell
               PROVE  t[i] \in Glyph \cup {Blank}
    BY DEF Screen
  <2>1. i + Cols < Size => i + Cols \in Cell
    BY SizeFacts, SMT DEF Cell
  <2> QED BY <2>1 DEF Screen
<1>2. Size - Cols \in Cell
  BY SizeFacts, SMT DEF Cell
<1>3. Clear(t, Size - Cols)
  <2> SUFFICES ASSUME NEW i \in Cell, i >= Size - Cols
               PROVE  t[i] = Blank
    BY <1>2, SMT DEF Clear, Cell
  <2>1. ~ (i + Cols < Size)
    BY SizeFacts, SMT DEF Cell
  <2> QED BY <2>1
<1>4. roll_screen(s) = [screen |-> t, cursor |-> Size - Cols]
  BY DEF roll_screen
<1> HIDE DEF t
<1> QED BY <1>1, <1>2, <1>3, <1>4 DEF Good

LEMMA LineFeedGood ==
    ASSUME NEW s \in Screen, NEW p \in Cell, Clear(s, p)
    PROVE  Good(is_line_feed(s, p))
<1> DEFINE next == p - (p % Cols) + Cols
<1>1. next \in Nat /\ p < next
  BY NextLine
<1>2. CASE next < Size
  <2>1. is_line_feed(s, p) = [screen |-> s, cursor |-> next]
    BY <1>2 DEF is_line_feed
  <2> HIDE DEF next
  <2>2. next \in Cell
    BY <1>1, <1>2, SizeFacts, SMT DEF Cell
  <2>3. Clear(s, next)
    BY <1>1, SMT DEF Clear, Cell
  <2> QED BY <2>1, <2>2, <2>3 DEF Good
<1>3. CASE ~ (next < Size)
  <2>1. is_line_feed(s, p) = roll_screen(s)
    BY <1>3 DEF is_line_feed
  <2> QED BY <2>1, RollGood
<1> QED BY <1>2, <1>3

LEMMA OtherGood ==
    ASSUME NEW s \in Screen, NEW p \in Cell, Clear(s, p), NEW c \in Glyph
    PROVE  Good(put_other(s, p, c))
<1> DEFINE t == [s EXCEPT ![p] = c]
<1>1. t \in Screen
  BY DEF Screen
<1>2. \A i \in Cell : i > p => t[i] = Blank
  <2> TAKE i \in Cell
  <2> HAVE i > p
  <2>1. t[i] = s[i]
    BY SMT DEF Screen, Cell
  <2> QED BY <2>1, SMT DEF Clear, Cell
<1>3. CASE p + 1 < Size
  <2>1. put_other(s, p, c) = [screen |-> t, cursor |-> p + 1]
    BY <1>3 DEF put_other
  <2> HIDE DEF t
  <2>2. p + 1 \in Cell
    BY <1>3, SizeFacts, SMT DEF Cell
  <2>3. Clear(t, p + 1)
    BY <1>2, SMT DEF Clear, Cell
  <2> QED BY <1>1, <2>1, <2>2, <2>3 DEF Good
<1>4. CASE ~ (p + 1 < Size)
  <2>1. put_other(s, p, c) = is_backspace(t, p + 1)
    BY <1>4 DEF put_other
  <2> HIDE DEF t
  <2>2. p + 1 \in 0 .. Size
    BY SizeFacts, SMT DEF Cell
  <2>3. \A i \in Cell : i >= p + 1 => t[i] = Blank
    BY <1>2, SMT DEF Cell
  <2> QED BY <1>1, <2>1, <2>2, <2>3, BackspaceGood
<1> QED BY <1>3, <1>4

\* put_c keeps the cursor on the screen and the cells behind it blank.
LEMMA PutGood ==
    ASSUME NEW s \in Screen, NEW p \in Cell, Clear(s, p),
           NEW c \in Glyph \cup Control
    PROVE  Good(put_c(s, p, c))
<1>0. Glyph \cap Control = {}
  BY GlyphAssumption
<1>1. CASE c = "\\0"
  <2>1. put_c(s, p, c) = [screen |-> s, cursor |-> p]
    BY <1>0, <1>1 DEF put_c, Control
  <2> QED BY <2>1 DEF Good
<1>2. CASE c = "\\b"
  <2>1. put_c(s, p, c) = is_backspace(s, p)
    BY <1>0, <1>2 DEF put_c, Control
  <2>2. p \in 0 .. Size
    BY SizeFacts, SMT DEF Cell
  <2> QED BY <2>1, <2>2, BackspaceGood DEF Clear
<1>3. CASE c \in {"\\r", "\\n"}
  <2>1. put_c(s, p, c) = is_line_feed(s, p)
    BY <1>0, <1>3 DEF put_c, Control
  <2> QED BY <2>1, LineFeedGood
<1>4. CASE c \in Glyph
  <2>1. put_c(s, p, c) = put_other(s, p, c)
    BY <1>0, <1>4 DEF put_c, Control
  <2> QED BY <1>4, <2>1, OtherGood
<1> QED BY <1>1, <1>2, <1>3, <1>4 DEF Control

-----------------------------------------------------------------------------
(***************************************************************************)
(* The interrupt flag.  What makes the properties inductive is what the    *)
(* saved flags are: the outermost print function of a context has saved    *)
(* what its caller had, every inner one has saved INTR_OFF.                *)
(***************************************************************************)

\* The flag a context has outside print.c.
Outside(c) == IF c = "main" THEN "INTR_ON" ELSE "INTR_OFF"

FlagsNested ==
    /\ irq => place["main"] = "idle"
    /\ ~ irq => place["irq"] = "idle"
    /\ \A c \in Context : place[c] # "idle" => intr = "INTR_OFF"
    /\ \A c \in Context :
         /\ place[c] = "str" => strOld[c] = Outside(c)
         /\ place[c] \in {"char", "put"} =>
                IF inner[c] THEN charOld[c] = "INTR_OFF" /\ strOld[c] = Outside(c)
                ELSE charOld[c] = Outside(c)

ConsoleInv ==
    /\ ConsoleTypeOK
    /\ FlagsNested
    /\ IntrRestored
    /\ CursorFresh
    /\ NothingBehindCursor

LEMMA ConsoleInitInv == ConsoleInit => ConsoleInv
<1> SUFFICES ASSUME ConsoleInit PROVE ConsoleInv
  OBVIOUS
<1>1. screen = [i \in Cell |-> Blank]
  BY DEF ConsoleInit
<1>2. 0 \in Cell
  BY SizeFacts, SMT DEF Cell
<1>3. ConsoleTypeOK
  <2>1. screen \in [Cell -> Glyph \cup {Blank}] /\ cursor \in Cell
    BY <1>1, <1>2 DEF ConsoleInit
  <2>2. text \in [Context -> Seq(Glyph \cup Control)]
    BY DEF ConsoleInit
  <2>3. "\\0" \in Control
    BY DEF Control
  <2> QED BY <1>2, <2>1, <2>2, <2>3 DEF ConsoleInit, ConsoleTypeOK, Intr
<1>4. FlagsNested /\ IntrRestored /\ CursorFresh
  BY DEF ConsoleInit, FlagsNested, IntrRestored, CursorFresh, Context
<1>5. NothingBehindCursor
  BY <1>1, <1>2, SMT DEF ConsoleInit, NothingBehindCursor, Cell
<1> QED BY <1>3, <1>4, <1>5 DEF ConsoleInv

LEMMA ConsoleStep == ConsoleInv /\ [ConsoleNext]_conVars => ConsoleInv'
<1> SUFFICES ASSUME ConsoleInv, [ConsoleNext]_conVars PROVE ConsoleInv'
  OBVIOUS
<1> USE DEF ConsoleInv
<1>1. CASE interrupt
  <2>1. ConsoleTypeOK'
    BY <1>1 DEF interrupt, ConsoleTypeOK, Intr
  <2>2. place["main"] = "idle" /\ place["irq"] = "idle"
    BY <1>1 DEF interrupt, FlagsNested, Context
  <2>3. FlagsNested' /\ IntrRestored' /\ CursorFresh'
    BY <1>1, <2>2 DEF interrupt, FlagsNested, IntrRestored, CursorFresh, Context
  <2>4. NothingBehindCursor'
    BY <1>1 DEF interrupt, NothingBehindCursor
  <2> QED BY <2>1, <2>3, <2>4
<1>2. CASE iretd
  <2>1. ConsoleTypeOK'
    BY <1>2 DEF iretd, ConsoleTypeOK, Intr
  <2>2. place["main"] = "idle" /\ place["irq"] = "idle"
    BY <1>2 DEF iretd, FlagsNested, At, Runs
  <2>3. FlagsNested' /\ IntrRestored' /\ CursorFresh'
    BY <1>2, <2>2 DEF iretd, FlagsNested, IntrRestored, CursorFresh, Context
  <2>4. NothingBehindCursor'
    BY <1>2 DEF iretd, NothingBehindCursor
  <2> QED BY <2>1, <2>3, <2>4
<1>3. ASSUME NEW c \in Context, NEW s \in Text, put_str(c, s) PROVE ConsoleInv'
  <2>0. At(c, "idle")
    BY <1>3 DEF put_str
  <2>1. ConsoleTypeOK'
    <3>1. s \in Seq(Glyph \cup Control)
      BY TextAssumption
    <3> QED BY <1>3, <3>1 DEF put_str, Goto, ConsoleTypeOK, Intr
  <2>2. intr = Outside(c)
    BY <2>0 DEF At, Runs, IntrRestored, Outside, Context
  <2>3. FlagsNested'
    BY <1>3, <2>0, <2>2 DEF put_str, Goto, At, Runs, FlagsNested, ConsoleTypeOK, Context
  <2>4. IntrRestored' /\ CursorFresh'
    BY <1>3, <2>0 DEF put_str, Goto, At, Runs, FlagsNested, IntrRestored, CursorFresh, ConsoleTypeOK, Context
  <2>5. NothingBehindCursor'
    BY <1>3 DEF put_str, NothingBehindCursor
  <2> QED BY <2>1, <2>3, <2>4, <2>5
<1>4. ASSUME NEW c \in Context, NEW ch \in Glyph \cup Control, put_char(c, ch)
      PROVE  ConsoleInv'
  <2>0. At(c, "idle") \/ At(c, "str")
    BY <1>4 DEF put_char
  <2>1. ConsoleTypeOK'
    <3>1. text[c] # << >> => Tail(text[c]) \in Seq(Glyph \cup Control)
      BY DEF ConsoleTypeOK
    <3>2. text' \in [Context -> Seq(Glyph \cup Control)]
      BY <1>4, <3>1 DEF put_char, ConsoleTypeOK
    <3>3. inner' \in [Context -> BOOLEAN]
      BY <1>4 DEF put_char, ConsoleTypeOK
    <3> QED BY <1>4, <3>2, <3>3 DEF put_char, Goto, ConsoleTypeOK, Intr
  <2>2. FlagsNested'
    <3>1. CASE At(c, "idle") /\ inner' = [inner EXCEPT ![c] = FALSE]
      <4>1. intr = Outside(c)
        BY <3>1 DEF At, Runs, IntrRestored, Outside, Context
      <4> QED BY <1>4, <3>1, <4>1
            DEF put_char, Goto, At, Runs, FlagsNested, ConsoleTypeOK, Context
    <3>2. CASE At(c, "str") /\ inner' = [inner EXCEPT ![c] = TRUE]
      <4>1. intr = "INTR_OFF" /\ strOld[c] = Outside(c)
        BY <3>2 DEF At, FlagsNested
      <4> QED BY <1>4, <3>2, <4>1
            DEF put_char, Goto, At, Runs, FlagsNested, ConsoleTypeOK, Context
    <3> QED BY <1>4, <3>1, <3>2 DEF put_char
  <2>3. IntrRestored' /\ CursorFresh'
    BY <1>4, <2>0 DEF put_char, Goto, At, Runs, FlagsNested, IntrRestored, CursorFresh, ConsoleTypeOK, Context
  <2>4. NothingBehindCursor'
    BY <1>4 DEF put_char, NothingBehindCursor
  <2> QED BY <2>1, <2>2, <2>3, <2>4
<1>5. ASSUME NEW c \in Context, read_cursor(c) PROVE ConsoleInv'
  <2>1. ConsoleTypeOK'
    BY <1>5 DEF read_cursor, Goto, ConsoleTypeOK
  <2>2. FlagsNested'
    BY <1>5 DEF read_cursor, Goto, At, Runs, FlagsNested, ConsoleTypeOK, Context
  <2>3. IntrRestored'
    BY <1>5 DEF read_cursor, Goto, At, Runs, FlagsNested, IntrRestored, ConsoleTypeOK, Context
  <2>4. CursorFresh'
    BY <1>5 DEF read_cursor, Goto, CursorFresh, ConsoleTypeOK
  <2>5. NothingBehindCursor'
    BY <1>5 DEF read_cursor, NothingBehindCursor
  <2> QED BY <2>1, <2>2, <2>3, <2>4, <2>5
<1>6. ASSUME NEW c \in Context, write_cell(c) PROVE ConsoleInv'
  <2>0. At(c, "put")
    BY <1>6 DEF write_cell
  <2>1. Good(put_c(screen, bx[c], arg[c]))
    <3>1. bx[c] = cursor
      BY <2>0 DEF At, CursorFresh
    <3>2. Clear(screen, cursor) /\ screen \in Screen /\ cursor \in Cell
          /\ arg[c] \in Glyph \cup Control
      BY DEF NothingBehindCursor, Clear, Screen, ConsoleTypeOK
    <3> QED BY <3>1, <3>2, PutGood
  <2>2. screen' \in Screen /\ cursor' \in Cell /\ Clear(screen', cursor')
    BY <1>6, <2>1 DEF write_cell, Good
  <2>3. ConsoleTypeOK'
    BY <1>6, <2>2 DEF write_cell, Goto, ConsoleTypeOK, Screen
  <2>4. FlagsNested'
    BY <1>6, <2>0 DEF write_cell, Goto, At, Runs, FlagsNested, ConsoleTypeOK, Context
  <2>5. IntrRestored'
    BY <1>6, <2>0 DEF write_cell, Goto, At, Runs, FlagsNested, IntrRestored, Outside, ConsoleTypeOK, Context
  <2>6. CursorFresh'
    <3> SUFFICES ASSUME NEW d \in Context, place'[d] = "put" PROVE FALSE
      BY DEF CursorFresh
    <3>1. d # c
      BY <1>6 DEF write_cell, Goto, ConsoleTypeOK
    <3>2. place[d] = "put"
      BY <1>6, <3>1 DEF write_cell, Goto, ConsoleTypeOK
    <3>3. place[d] = "idle"
      BY <2>0, <3>1 DEF At, Runs, FlagsNested, Context
    <3> QED BY <3>2, <3>3
  <2>7. NothingBehindCursor'
    BY <2>2 DEF NothingBehindCursor, Clear
  <2> QED BY <2>3, <2>4, <2>5, <2>6, <2>7
<1>7. ASSUME NEW c \in Context, end_str(c) PROVE ConsoleInv'
  <2>1. ConsoleTypeOK'
    BY <1>7 DEF end_str, Goto, ConsoleTypeOK
  <2>2. FlagsNested'
    BY <1>7 DEF end_str, Goto, At, Runs, FlagsNested, ConsoleTypeOK, Context
  <2>3. IntrRestored'
    BY <1>7 DEF end_str, Goto, At, Runs, FlagsNested, IntrRestored, Outside, ConsoleTypeOK, Context
  <2>4. CursorFresh'
    BY <1>7 DEF end_str, Goto, CursorFresh, ConsoleTypeOK
  <2>5. NothingBehindCursor'
    BY <1>7 DEF end_str, NothingBehindCursor
  <2> QED BY <2>1, <2>2, <2>3, <2>4, <2>5
<1>8. CASE UNCHANGED conVars
  BY <1>8 DEF conVars, ConsoleTypeOK, FlagsNested, IntrRestored, CursorFresh, NothingBehindCursor
<1> QED BY <1>1, <1>2, <1>3, <1>4, <1>5, <1>6, <1>7, <1>8 DEF ConsoleNext

LEMMA ConsoleAlways == ConsoleSpec => []ConsoleInv
<1> QED BY ConsoleInitInv, ConsoleStep, PTL DEF ConsoleSpec

\* putchar.asm, for any size of screen and whatever is printed: the cursor
\* never leaves the screen, and no character is left behind it by a line
\* feed, a backspace, the wrap at the end of a line or scrolling.
THEOREM CursorStaysOnScreen == ConsoleSpec => [](ConsoleTypeOK /\ NothingBehindCursor)
<1>1. ConsoleInv => ConsoleTypeOK /\ NothingBehindCursor
  BY DEF ConsoleInv
<1> QED BY <1>1, ConsoleAlways, PTL

\* print.c, for any texts: its functions may call each other and be called by
\* handlers.  None is interrupted, the cursor put_c has read is current until
\* put_c writes it back, and each function leaves the flag as it found it.
THEOREM PrintingIsAtomic == ConsoleSpec => [](StringsWhole /\ CursorFresh /\ IntrRestored)
<1>1. ConsoleInv => StringsWhole /\ CursorFresh /\ IntrRestored
  BY DEF ConsoleInv, FlagsNested, StringsWhole
<1> QED BY <1>1, ConsoleAlways, PTL

\* Nested calls of the functions of print.c give the interrupt flag back as
\* they found it, in main and in a handler.
THEOREM FlagRestored == ConsoleSpec => []IntrRestored
<1>1. (StringsWhole /\ CursorFresh /\ IntrRestored) => IntrRestored
  OBVIOUS
<1> QED BY <1>1, PrintingIsAtomic, PTL

=============================================================================

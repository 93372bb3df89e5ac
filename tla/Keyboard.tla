------------------------------ MODULE Keyboard ------------------------------
(***************************************************************************)
(* The keyboard driver: kernel/keyboard.c, and the keyboard with its       *)
(* controller as the driver sees them.                                     *)
(*                                                                         *)
(* A key is its make code; the codes above 0xff arrive as two bytes, in    *)
(* two interrupts.  The bytes wait in the controller until the handler     *)
(* reads them, one per interrupt and with interrupts disabled, so a call   *)
(* of the handler is one step.  What was held when a key went down has to  *)
(* be rebuilt from the order of the bytes alone.                           *)
(*                                                                         *)
(* keymap is a pair <<row, column>> here; rows with twice the same         *)
(* character have one column.  Pause, whose code starts with 0xe1, and an  *)
(* overflow of the controller are left out.                                *)
(***************************************************************************)
EXTENDS Integers, Sequences, FiniteSets

CONSTANTS
    Key,        \* the make codes of the keys of the keyboard
    Repeating,  \* the keys whose make code is repeated while they are held
    MaxDown,    \* bound: the keys held at once
    MaxWire     \* bound: the bytes in the controller

prefix == 224            \* 0xe0

ASSUME KeyAssumption ==
    \A k \in Key : k \in Nat /\ k \div 256 \in {0, prefix} /\ k % 256 \in 1 .. 95
ASSUME RepeatingAssumption == Repeating \subseteq Key
ASSUME BoundAssumption == MaxDown \in Nat /\ MaxWire \in Nat

Extended(code) == 256 * prefix + code

shift_l_make == 42       \* 0x2a
shift_r_make == 54       \* 0x36
alt_l_make == 56         \* 0x38
alt_r_make == Extended(alt_l_make)
ctrl_l_make == 29        \* 0x1d
ctrl_r_make == Extended(ctrl_l_make)
caps_lock_make == 58     \* 0x3a

ctrl  == {ctrl_l_make, ctrl_r_make}
shift == {shift_l_make, shift_r_make}
alt   == {alt_l_make, alt_r_make}

VARIABLES
    down,    \* the keys held down
    latest,  \* the key pressed last, if it is still down: the one that repeats
    caps,    \* the states caps lock may be in for the user: it changes at each
             \* press, and may be in either once it has been held for long
    wire,    \* the bytes in the controller
    ctrl_status, shift_status, alt_status, caps_lock_status, ext_scancode,
    typed    \* history: what the last interrupt printed, and what it might

flags == << ctrl_status, shift_status, alt_status, caps_lock_status >>
kbdVars == << down, latest, caps, wire, flags, ext_scancode, typed >>

KbdInit ==
    /\ down = {} /\ latest = 0 /\ caps = {0}
    /\ wire = << >>
    /\ ctrl_status = 0 /\ shift_status = 0 /\ alt_status = 0
    /\ caps_lock_status = 0 /\ ext_scancode = 0
    /\ typed = [got |-> << >>, meant |-> {<< >>}]

-----------------------------------------------------------------------------
(***************************************************************************)
(* keymap.                                                                 *)
(***************************************************************************)
\* esc, backspace, tab, enter, * and space.
OneColumn == {1, 14, 15, 28, 55, 57}

\* keymap[row][column]; << >> is the character 0.
keymap(row, column) ==
    IF row \in {k % 256 : k \in ctrl \cup shift \cup alt} \cup {caps_lock_make}
    THEN << >>
    ELSE << row, IF row \in OneColumn THEN 0 ELSE column >>

\* The codes that have a row in keymap, 0x01 to 0x3a, and those of the letters.
Rows == 1 .. caps_lock_make
Letters == 16 .. 25 \cup 30 .. 38 \cup 44 .. 50

\* What somebody who presses k, with the keys in d down and caps lock on (1) or
\* off (0), wants to see.
Meant(k, d, lock) ==
    IF k \notin Rows THEN << >>
    ELSE LET shifted == d \cap shift # {}
             upper   == IF k \in Letters THEN shifted # (lock = 1) ELSE shifted
         IN  keymap(k, IF upper THEN 1 ELSE 0)

-----------------------------------------------------------------------------
(***************************************************************************)
(* The keyboard.  Each byte carries, for the properties, what it may       *)
(* print.                                                                  *)
(***************************************************************************)
Byte(b, meant) == [byte |-> b, meant |-> meant]

Bytes(k, code, meant) ==
    (IF k > 255 THEN << Byte(prefix, {<< >>}) >> ELSE << >>) \o << Byte(code, meant) >>

make(k)  == Bytes(k, k % 256, {Meant(k, down', c) : c \in caps'})
break(k) == Bytes(k, (k % 256) + 128, {<< >>})

Send(bytes) ==
    /\ Len(wire) + Len(bytes) <= MaxWire
    /\ wire' = wire \o bytes
    /\ UNCHANGED << flags, ext_scancode, typed >>

press(k) ==
    /\ k \notin down
    /\ Cardinality(down) < MaxDown
    /\ down' = down \cup {k}
    /\ latest' = k
    /\ caps' = IF k = caps_lock_make THEN {1 - c : c \in caps} ELSE caps
    /\ Send(make(k))

repeat(k) ==
    /\ k = latest /\ k \in Repeating
    /\ caps' = IF k = caps_lock_make THEN {0, 1} ELSE caps
    /\ UNCHANGED << down, latest >>
    /\ Send(make(k))

release(k) ==
    /\ k \in down
    /\ down' = down \ {k}
    /\ latest' = IF k = latest THEN 0 ELSE latest
    /\ UNCHANGED caps
    /\ Send(break(k))

-----------------------------------------------------------------------------
(***************************************************************************)
(* intr_keyboard_handler, by what it reads: the prefix, the code of a key  *)
(* that went up or the code of a key that went down.                       *)
(***************************************************************************)
Read(got) ==
    /\ wire # << >>
    /\ wire' = Tail(wire)
    /\ typed' = [got |-> got, meant |-> Head(wire).meant]
    /\ UNCHANGED << down, latest, caps >>

scancode ==
    IF ext_scancode = 1 THEN Extended(Head(wire).byte) ELSE Head(wire).byte

is_break == scancode % 256 >= 128

prefix_used == ext_scancode' = 0

\* Mutated form: any key that goes up clears the flag.
cleared_by_any(status, keys) == 0
cleared(status, keys)  == IF scancode - 128 \in keys THEN 0 ELSE status
recorded(status, keys) == IF scancode \in keys THEN 1 ELSE status

toggled(status)    == IF scancode = caps_lock_make THEN 1 - status ELSE status

\* Which column of keymap: the signs know only shift, all others caps lock,
\* too.
Signs == 1 .. 13 \cup {26, 27, 39, 40, 41, 43, 51, 52, 53}

\* Mutated form: shift and caps lock together give capitals.
column_or(code) ==
    IF shift_status = 1 \/ (code \notin Signs /\ caps_lock_status = 1) THEN 1 ELSE 0

column(code) ==
    IF code \in Signs THEN shift_status
    ELSE IF shift_status + caps_lock_status = 1 THEN 1 ELSE 0

\* The codes the driver knows.
Known(code) == code \in Rows \cup {alt_r_make, ctrl_r_make}

read_prefix ==
    /\ Read(<< >>)
    /\ Head(wire).byte = prefix
    /\ ext_scancode' = 1
    /\ UNCHANGED flags

break_code ==
    /\ Read(<< >>)
    /\ Head(wire).byte # prefix
    /\ is_break
    /\ prefix_used
    /\ ctrl_status' = cleared(ctrl_status, ctrl)
    /\ shift_status' = cleared(shift_status, shift)
    /\ alt_status' = cleared(alt_status, alt)
    /\ UNCHANGED caps_lock_status

make_code ==
    /\ Read(IF Known(scancode) THEN keymap(scancode % 256, column(scancode)) ELSE << >>)
    /\ Head(wire).byte # prefix
    /\ ~ is_break
    /\ prefix_used
    /\ ctrl_status' = recorded(ctrl_status, ctrl)
    /\ shift_status' = recorded(shift_status, shift)
    /\ alt_status' = recorded(alt_status, alt)
    /\ caps_lock_status' = toggled(caps_lock_status)

intr_keyboard_handler == read_prefix \/ break_code \/ make_code

KbdNext ==
    \/ \E k \in Key : press(k) \/ repeat(k) \/ release(k)
    \/ intr_keyboard_handler

KbdSpec == KbdInit /\ [][KbdNext]_kbdVars

-----------------------------------------------------------------------------

\* A character is printed for the keys that have one, and it is the one of
\* the keys that were held when the key went down, however late the bytes
\* are read and whatever has been pressed and released since.  Once caps lock
\* has been held for long, letters in either case are accepted: the driver then
\* toggles at each repetition, and keyboard.c:120 counts it as one press.
TypedAsMeant == typed.got \in typed.meant

\* keyboard.c: the variables record whether a control key has been pressed
\* and not yet released, once all bytes are read.
FlagsFollowKeys ==
    wire = << >> =>
        /\ ctrl_status = 1 <=> down \cap ctrl # {}
        /\ shift_status = 1 <=> down \cap shift # {}
        /\ alt_status = 1 <=> down \cap alt # {}

=============================================================================

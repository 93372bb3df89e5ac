----------------------------- MODULE MCKeyboard -----------------------------
EXTENDS Keyboard

\* q, 1 and space; one control key of each kind, of one byte and of two;
\* caps lock; arrow up and the / of the keypad, which the driver ignores.
MCKey == {16, 2, 57, shift_l_make, ctrl_r_make, alt_l_make,
          caps_lock_make, Extended(72), Extended(53)}

\* The keyboard has two shift keys.
ShiftKeys == {16, shift_l_make, shift_r_make}
=============================================================================

---------------------------- MODULE MCInterrupts ----------------------------
EXTENDS Interrupts

\* Exceptions without and with an error code: divide error, page fault.
MCFault == {0, 14}

=============================================================================

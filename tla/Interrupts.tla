----------------------------- MODULE Interrupts -----------------------------
(***************************************************************************)
(* From a line of the interrupt controller to a handler and back:          *)
(* idt_init of kernel/interrupt.c, the entries of kernel/lib/interrupt.asm,*)
(* and the 8259A and the processor as this code uses them.                 *)
(*                                                                         *)
(* An interrupt or exception makes the processor push flags, cs and eip,   *)
(* some exceptions an error code; the entry pushes a 0 in its place for    *)
(* the others, so that intr_exit can pop the same words for all.  Every    *)
(* entry, also that of an exception, ends the interrupt at the 8259A       *)
(* before it calls the handler.  Handlers run with interrupts disabled     *)
(* (module Console: what they print restores the flag), but an exception   *)
(* can be raised in them.                                                  *)
(*                                                                         *)
(* Only the master is modelled: the slave hangs on its line 2, which stays *)
(* masked.  What the handlers do is left out, except that the keyboard's   *)
(* reads the byte, without which its line does not rise again.             *)
(***************************************************************************)
EXTENDS Integers, Sequences

CONSTANTS
    Fault,     \* the exceptions that are raised
    MaxFaults  \* bound: exceptions and spurious interrupts

\* Faults and traps; not the aborts, from which there is no return.
ASSUME FaultAssumption ==
    Fault \subseteq {0, 1, 3, 4, 5, 6, 7, 10, 11, 12, 13, 14, 16, 17, 19}
ASSUME MaxFaultsAssumption == MaxFaults \in Nat

IDT_DESC_CNT == 34
Timer == 0      \* the lines of the master
Kbd   == 1
Line  == 0 .. 7
Raised   == -1  \* what else makes the processor enter a gate
Spurious == -2
GP    == 13     \* general protection exception

VARIABLES
    pc,         \* where the main thread is in init_all
    written,    \* the words pic_init has written
    gates,      \* the gates of the IDT that point to their entry
    idt_table,  \* the handler each entry calls
    idtr,       \* whether the IDT is loaded
    pic,        \* the 8259A: base, imr, irr, isr, and in icw the
                \* initialization word it waits for, or 0
    intr,       \* the IF bit of eflags
    active,     \* the interrupts and exceptions that have not returned: vec,
                \* cause, at (the place in the entry), and words, its stack
    full,       \* whether the keyboard's controller has a byte
    deaf,       \* history: a byte was waiting when pic_init began
    ran,        \* whether main has run since the last tick
    faults      \* exceptions and spurious interrupts so far

initVars == << pc, written, gates, idt_table, idtr >>
devVars == << full, deaf, ran, faults >>
intrVars == << initVars, pic, intr, active, devVars >>

\* loader.asm has disabled interrupts.  The BIOS has put the master at vector 8
\* and left no interrupt unfinished; a tick or a byte can have come since.
IntrInit ==
    /\ pc = "idt_desc_init" /\ written = 0
    /\ gates = {} /\ idt_table = [v \in {} |-> ""] /\ idtr = FALSE
    /\ full \in BOOLEAN
    /\ \E tick \in SUBSET {Timer}, mask \in {{}, Line} :
           pic = [base |-> 8, imr |-> mask, isr |-> {}, icw |-> 0,
                  irr |-> tick \cup IF full THEN {Kbd} ELSE {}]
    /\ intr = "INTR_OFF" /\ active = << >>
    /\ deaf = FALSE /\ ran = TRUE /\ faults = 0

-----------------------------------------------------------------------------
(***************************************************************************)
(* The 8259A.  ICW1 forgets masks and requests, a line has to rise again;  *)
(* an end of interrupt takes the one of the highest priority.              *)
(***************************************************************************)
EOI == 32
Bits(v) == {n \in Line : (v \div 2^n) % 2 = 1}
IsFirst(n, S) == n \in S /\ \A m \in S : n <= m

Out(p, port, v) ==
    CASE port = "ctrl" /\ v = EOI ->
            [p EXCEPT !.isr = {n \in @ : ~ IsFirst(n, p.isr)}]
      [] port = "ctrl" /\ v # EOI ->
            [p EXCEPT !.icw = 2, !.imr = {}, !.irr = {}]
      [] port = "data" /\ p.icw = 0 -> [p EXCEPT !.imr = Bits(v)]
      [] port = "data" /\ p.icw = 2 -> [p EXCEPT !.base = v, !.icw = 3]
      [] port = "data" /\ p.icw > 2 -> [p EXCEPT !.icw = (@ + 1) % 5]

\* The requests it passes on.
Requested ==
    {n \in pic.irr \ pic.imr : \A m \in pic.isr : n < m}

-----------------------------------------------------------------------------
(***************************************************************************)
(* idt_init and intr_enable, with interrupts disabled.                     *)
(***************************************************************************)
Then(p, q) == pc = p /\ pc' = q

idt_desc_init ==
    /\ Then("idt_desc_init", "interrput_init")
    /\ gates' = 0 .. IDT_DESC_CNT - 1
    /\ UNCHANGED << written, idt_table, idtr, pic, intr, active, devVars >>

\* Mutated form: the handlers are registered at the lines' numbers from the end.
Handlers_swapped ==
    [v \in 0 .. IDT_DESC_CNT - 1 |->
        CASE v = 32 -> "intr_keyboard_handler"
          [] v = 33 -> "intr_timer_handler"
          [] OTHER  -> "general_intr_handle"]

Handlers ==
    [v \in 0 .. IDT_DESC_CNT - 1 |->
        CASE v = 32 -> "intr_timer_handler"
          [] v = 33 -> "intr_keyboard_handler"
          [] OTHER  -> "general_intr_handle"]

interrput_init ==
    /\ Then("interrput_init", "pic_init")
    /\ idt_table' = Handlers
    /\ UNCHANGED << written, gates, idtr, pic, intr, active, devVars >>

\* Mutated form: the keyboard's line stays masked.
Words_masked ==
    << << "ctrl", 17 >>, << "data", 32 >>, << "data", 4 >>, << "data", 1 >>,
       << "data", 254 >> >>

\* ICW1 to ICW4 and the mask, 0xfc.
Words ==
    << << "ctrl", 17 >>, << "data", 32 >>, << "data", 4 >>, << "data", 1 >>,
       << "data", 252 >> >>

pic_init ==
    LET w == Words[written + 1] IN
    /\ Then("pic_init", IF written + 1 = Len(Words) THEN "lidt" ELSE "pic_init")
    /\ written' = written + 1
    /\ pic' = Out(pic, w[1], w[2])
    /\ deaf' = IF written = 0 THEN full ELSE deaf
    /\ UNCHANGED << gates, idt_table, idtr, intr, active, full, ran, faults >>

lidt ==
    /\ Then("lidt", "intr_enable")
    /\ idtr' = TRUE
    /\ UNCHANGED << written, gates, idt_table, pic, intr, active, devVars >>

intr_enable ==
    /\ Then("intr_enable", "main")
    /\ intr' = "INTR_ON"
    /\ UNCHANGED << written, gates, idt_table, idtr, pic, active, devVars >>

-----------------------------------------------------------------------------
(***************************************************************************)
(* The main thread after that.  A request that is passed on is taken       *)
(* before its next instruction.                                            *)
(***************************************************************************)
InMain ==
    pc = "main" /\ active = << >> /\ (intr = "INTR_ON" => Requested = {})

\* An instruction of main; print functions disable interrupts and restore them.
run(status) ==
    /\ InMain
    /\ intr' = status
    /\ ran' = TRUE
    /\ UNCHANGED << initVars, pic, active, full, deaf, faults >>

-----------------------------------------------------------------------------
(***************************************************************************)
(* The processor goes through a gate; a vector without one is a general    *)
(* protection exception, and without a gate for that the machine restarts. *)
(***************************************************************************)
ErrorCode == {10, 11, 12, 13, 14, 17}
Gate(v) == idtr /\ v \in gates

Enter(v, cause) ==
    LET vec == IF Gate(v) THEN v ELSE GP
        err == IF vec \in ErrorCode THEN << "error" >> ELSE << >> IN
    /\ active' = Append(active, [vec |-> vec, cause |-> cause, at |-> "entry",
                                 words |-> << intr, "cs", "eip" >> \o err])
    /\ intr' = "INTR_OFF"
    /\ pc' = IF Gate(vec) THEN pc ELSE "reset"
    /\ UNCHANGED << written, gates, idt_table, idtr >>

interrupt(n) ==
    /\ intr = "INTR_ON"
    /\ IsFirst(n, Requested)
    /\ pic' = [pic EXCEPT !.irr = @ \ {n}, !.isr = @ \cup {n}]
    /\ Enter(pic.base + n, n)
    /\ UNCHANGED devVars

\* A request that is gone when it is acknowledged: the 8259A gives the vector of
\* its last line and has nothing in service.
spurious ==
    /\ intr = "INTR_ON"
    /\ faults < MaxFaults
    /\ faults' = faults + 1
    /\ Enter(pic.base + 7, Spurious)
    /\ UNCHANGED << pic, full, deaf, ran >>

\* The place of what is executed, after n places were left.
top == active[Len(active)]
At(p) == active # << >> /\ top.at = p

\* An exception in main or in a handler.
exception(v) ==
    /\ pc = "main" /\ (active # << >> => top.at = "handler")
    /\ faults < MaxFaults
    /\ faults' = faults + 1
    /\ Enter(v, Raised)
    /\ UNCHANGED << pic, full, deaf, ran >>

-----------------------------------------------------------------------------
(***************************************************************************)
(* interrupt.asm.                                                          *)
(***************************************************************************)
Advance(p, pushed) ==
    active' = [active EXCEPT ![Len(active)] =
                  [top EXCEPT !.at = p, !.words = @ \o pushed]]

\* Mutated form: every entry pushes a 0.
VECTOR_zero(v) == << "error" >>

\* VECTOR's second argument: nothing where the processor has pushed a code.
VECTOR(v) ==
    IF v \in 10 .. 14 \cup {8, 17, 30} THEN << >> ELSE << "error" >>

entry ==
    /\ At("entry")
    /\ Advance("eoi", VECTOR(top.vec) \o << "segments", "registers" >>)
    /\ UNCHANGED << initVars, pic, intr, devVars >>

\* Mutated form: the interrupt is not ended.
eoi_not ==
    /\ At("eoi")
    /\ Advance("handler", << "vector" >>)
    /\ UNCHANGED << initVars, pic, intr, devVars >>

eoi ==
    /\ At("eoi")
    /\ pic' = Out(pic, "ctrl", EOI)
    /\ Advance("handler", << "vector" >>)
    /\ UNCHANGED << initVars, intr, devVars >>

\* call [idt_table + n * 4].
call ==
    /\ At("handler")
    /\ Advance("exit", << >>)
    /\ full' = IF idt_table[top.vec] = "intr_keyboard_handler" THEN FALSE ELSE full
    /\ UNCHANGED << initVars, pic, intr, deaf, ran, faults >>

\* add esp,4; popad; four pops; add esp,4; iretd.
intr_exit ==
    LET w == top.words IN
    /\ At("exit")
    /\ intr' = w[Len(w) - 6]
    /\ active' = SubSeq(active, 1, Len(active) - 1)
    /\ UNCHANGED << initVars, pic, devVars >>

-----------------------------------------------------------------------------
(***************************************************************************)
(* The devices.  The line of the keyboard is high as long as a byte waits; *)
(* the handlers take less time than there is between two ticks.            *)
(***************************************************************************)
Rises(n) == pic' = [pic EXCEPT !.irr = @ \cup {n}]

tick ==
    /\ ran
    /\ ran' = FALSE
    /\ Rises(Timer)
    /\ UNCHANGED << initVars, intr, active, full, deaf, faults >>

byte ==
    /\ ~ full
    /\ full' = TRUE
    /\ Rises(Kbd)
    /\ UNCHANGED << initVars, intr, active, deaf, ran, faults >>

\* What the processor goes on with by itself.
Execute ==
    \/ idt_desc_init \/ interrput_init \/ pic_init \/ lidt \/ intr_enable
    \/ run("INTR_ON")
    \/ \E n \in Line : interrupt(n)
    \/ entry \/ eoi \/ call \/ intr_exit

IntrNext ==
    \/ Execute
    \/ run("INTR_OFF")
    \/ spurious \/ \E v \in Fault : exception(v)
    \/ tick \/ byte

IntrSpec == IntrInit /\ [][IntrNext]_intrVars /\ WF_intrVars(Execute)

-----------------------------------------------------------------------------

\* What intr_exit and iretd pop is what was pushed, word by word, with and
\* without an error code and for a handler that was itself interrupted by an
\* exception: what was interrupted goes on, with its flags.
FramesWhole ==
    \A k \in 1 .. Len(active) :
        active[k].at = "exit" =>
            /\ Len(active[k].words) = 7
            /\ SubSeq(active[k].words, 2, 7) =
                  << "cs", "eip", "error", "segments", "registers", "vector" >>
            /\ active[k].words[1] = "INTR_ON" => k = 1

\* Each handler is called for what it handles: the numbers pic_init gives the
\* lines, the gates and idt_table agree, and what is entered has a gate.
HandlerMeant ==
    /\ pc # "reset"
    /\ \A k \in 1 .. Len(active) :
          LET a == active[k] IN
          /\ a.vec \in DOMAIN idt_table
          /\ idt_table[a.vec] = "intr_timer_handler" <=> a.cause = Timer
          /\ idt_table[a.vec] = "intr_keyboard_handler" <=> a.cause = Kbd

\* interrupt.c:120, a spurious interrupt is returned from without handling:
\* general_intr_handle is called with the number of the last line.
SpuriousIgnored ==
    \A k \in 1 .. Len(active) :
        active[k].cause = Spurious /\ active[k].at = "handler"
            => active[k].vec = 39

\* At most one interrupt is being handled, below exceptions raised in its
\* handler, however many requests wait; and it does not hold up others at the
\* 8259A, whose entry of an exception ends none.
OneInterrupt ==
    /\ \A k \in 1 .. Len(active) : active[k].cause \in Line => k = 1
    /\ pic.isr = IF active # << >> /\ active[1].cause \in Line
                    /\ active[1].at \in {"entry", "eoi"}
                 THEN {active[1].cause} ELSE {}

\* A byte from the keyboard is read in the end, however late the interrupt is
\* taken; not one that waited when pic_init began, after which the line cannot
\* rise any more.
KeyboardHeard == (written > 0 /\ full /\ ~ deaf) ~> ~ full

=============================================================================

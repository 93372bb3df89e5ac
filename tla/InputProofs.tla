---------------------------- MODULE InputProofs ----------------------------
(***************************************************************************)
(* What comes in, for every set of exceptions and of keys: Interrupts,     *)
(* whose entries return to what they interrupted, and Keyboard, whose      *)
(* handler prints what was meant and knows which control keys are held.    *)
(***************************************************************************)
EXTENDS Interrupts, Keyboard, SequenceTheorems, TLAPS

Flag == {"INTR_ON", "INTR_OFF"}
Word == Flag \cup {"cs", "eip", "error", "segments", "registers", "vector"}
Place == {"entry", "eoi", "handler", "exit"}
Frame == [vec : Int, cause : {Timer, Kbd, Raised, Spurious}, at : Place,
          words : Seq(Word)]

\* The order in which the words are pushed; the first is the flags.
Pushed == << "INTR_OFF", "cs", "eip", "error", "segments", "registers", "vector" >>

\* How many words an interrupt has pushed at each place of its entry.
Depth(a) ==
    CASE a.at = "entry" -> IF a.vec \in ErrorCode THEN 4 ELSE 3
      [] a.at = "eoi"   -> 6
      [] OTHER          -> 7

\* They are those, in that order; only the flags are not the same for all.
WordsOK(a) ==
    /\ Len(a.words) = Depth(a)
    /\ a.words[1] \in Flag
    /\ \A i \in 2 .. Len(a.words) : a.words[i] = Pushed[i]

\* The vectors of each cause.
VecOK(a) ==
    /\ a.cause = Timer    => a.vec = 32
    /\ a.cause = Kbd      => a.vec = 33
    /\ a.cause = Raised   => a.vec \in Fault
    /\ a.cause = Spurious => a.vec = GP

FrameOK(a) == VecOK(a) /\ WordsOK(a)

\* The values of the variables.
IntrTypeOK ==
    /\ pc \in {"idt_desc_init", "interrput_init", "pic_init", "lidt",
               "intr_enable", "main"}
    /\ written \in 0 .. 5
    /\ pic \in [base : Int, imr : SUBSET Line, irr : SUBSET Line,
                isr : SUBSET Line, icw : {0, 2, 3, 4}]
    /\ intr \in Flag
    /\ active \in Seq(Frame)

\* How far idt_init is tells what the tables and the 8259A hold.
Started ==
    /\ pc \in {"idt_desc_init", "interrput_init"} => written = 0
    /\ pc = "pic_init" => written < 5
    /\ pc \in {"lidt", "intr_enable", "main"} => written = 5
    /\ pc # "idt_desc_init" => gates = 0 .. 33
    /\ pc \notin {"idt_desc_init", "interrput_init"} => idt_table = Handlers
    /\ pc \in {"intr_enable", "main"} => idtr = TRUE
    /\ pc # "main" => intr = "INTR_OFF" /\ active = << >>
    /\ pic.icw = IF written \in 1 .. 3 THEN written + 1 ELSE 0
    /\ written > 1 => pic.base = 32
    /\ written = 5 => pic.imr = 2 .. 7

\* Only what interrupted main has the flags of main, with interrupts enabled;
\* what is below the top has called its handler.
Nested ==
    /\ active # << >> => intr = "INTR_OFF"
    /\ \A k \in 1 .. Len(active) :
           /\ k < Len(active) => active[k].at = "handler"
           /\ active[k].words[1] = "INTR_ON" => k = 1

\* The inductive invariant of the interrupts.
IntrInv ==
    /\ IntrTypeOK /\ Started /\ Nested /\ OneInterrupt
    /\ \A k \in 1 .. Len(active) : FrameOK(active[k])

\* The last word of pic_init, 0xfc, masks all lines but two.
LEMMA Mask == Bits(252) = 2 .. 7
<1> DEFINE bit(n) == (252 \div 2^n) % 2
<1>1. bit(0) = 0
  <2>1. 2^0 = 1 /\ (252 \div 1) % 2 = 0
    OBVIOUS
  <2> QED
    BY <2>1, Zenon
<1>2. bit(1) = 0
  <2>1. 2^1 = 2 /\ (252 \div 2) % 2 = 0
    OBVIOUS
  <2> QED
    BY <2>1, Zenon
<1>3. bit(2) = 1
  <2>1. 2^2 = 4 /\ (252 \div 4) % 2 = 1
    OBVIOUS
  <2> QED
    BY <2>1, Zenon
<1>4. bit(3) = 1
  <2>1. 2^3 = 8 /\ (252 \div 8) % 2 = 1
    OBVIOUS
  <2> QED
    BY <2>1, Zenon
<1>5. bit(4) = 1
  <2>1. 2^4 = 16 /\ (252 \div 16) % 2 = 1
    OBVIOUS
  <2> QED
    BY <2>1, Zenon
<1>6. bit(5) = 1
  <2>1. 2^5 = 32 /\ (252 \div 32) % 2 = 1
    OBVIOUS
  <2> QED
    BY <2>1, Zenon
<1>7. bit(6) = 1
  <2>1. 2^6 = 64 /\ (252 \div 64) % 2 = 1
    OBVIOUS
  <2> QED
    BY <2>1, Zenon
<1>8. bit(7) = 1
  <2>1. 2^7 = 128 /\ (252 \div 128) % 2 = 1
    OBVIOUS
  <2> QED
    BY <2>1, Zenon
<1>9. Bits(252) = {n \in Line : bit(n) = 1}
  BY DEF Bits
<1> HIDE DEF bit
<1> QED
  BY <1>1, <1>2, <1>3, <1>4, <1>5, <1>6, <1>7, <1>8, <1>9 DEF Line

\* The invariant when init_all calls idt_init.
LEMMA IntrInit1 == IntrInit => IntrInv
<1> SUFFICES ASSUME IntrInit PROVE IntrInv
  OBVIOUS
<1>1. IntrTypeOK
  BY DEF IntrInit, IntrTypeOK, Line, Timer, Kbd, Flag
<1>2. Started /\ Nested
  BY DEF IntrInit, Started, Nested
<1>3. OneInterrupt
  BY DEF IntrInit, OneInterrupt
<1> QED
  BY <1>1, <1>2, <1>3 DEF IntrInv, IntrInit

\* A frame that is entered.
LEMMA EnterStep ==
    ASSUME IntrInv, pc = "main", NEW v \in Int,
           NEW cause \in {Timer, Kbd, Raised, Spurious},
           /\ cause = Timer    => v = 32
           /\ cause = Kbd      => v = 33
           /\ cause = Raised   => v \in Fault
           /\ cause = Spurious => v > 33,
           active # << >> => top.at = "handler",
           Enter(v, cause)
    PROVE  /\ pc' = pc /\ active' \in Seq(Frame) /\ intr' = "INTR_OFF"
           /\ Nested' /\ UNCHANGED << written, gates, idt_table, idtr >>
           /\ Len(active') = Len(active) + 1
           /\ \A k \in 1 .. Len(active) : active'[k] = active[k]
           /\ active'[Len(active)+1].cause = cause
           /\ active'[Len(active)+1].at = "entry"
           /\ \A k \in 1 .. Len(active') : FrameOK(active'[k])
<1> DEFINE vec == IF Gate(v) THEN v ELSE GP
           err == IF vec \in ErrorCode THEN << "error" >> ELSE << >>
           words == << intr, "cs", "eip" >> \o err
           a == [vec |-> vec, cause |-> cause, at |-> "entry", words |-> words]
<1>0. /\ active \in Seq(Frame) /\ intr \in Flag /\ idtr = TRUE
      /\ gates = 0 .. 33
  BY DEF IntrInv, IntrTypeOK, Started
<1>1. /\ vec \in Int /\ Gate(vec)
      /\ cause = Timer => vec = 32
      /\ cause = Kbd => vec = 33
      /\ cause = Raised => vec \in Fault
      /\ cause = Spurious => vec = GP
  BY <1>0, FaultAssumption DEF Gate, GP
<1>2. /\ << intr, "cs", "eip" >> \in Seq(Word)
      /\ Len(<< intr, "cs", "eip" >>) = 3
      /\ << "error" >> \in Seq(Word) /\ Len(<< "error" >>) = 1
  BY <1>0 DEF Word
<1>3. /\ words \in Seq(Word)
      /\ words[1] = intr /\ words[2] = "cs" /\ words[3] = "eip"
      /\ vec \in ErrorCode => Len(words) = 4 /\ words[4] = "error"
      /\ vec \notin ErrorCode => Len(words) = 3
  BY <1>2
<1> HIDE DEF words, vec
<1>4. a \in Frame
  BY <1>1, <1>3 DEF Frame, Place
<1>5. FrameOK(a)
  <2>1. VecOK(a)
    BY <1>1 DEF VecOK
  <2>2. \A i \in 2 .. Len(words) : words[i] = Pushed[i]
    BY <1>3 DEF Pushed
  <2>3. Len(words) = Depth(a)
    BY <1>3 DEF Depth
  <2>4. a.words = words
    OBVIOUS
  <2>5. WordsOK(a)
    BY <1>0, <1>3, <2>2, <2>3, <2>4, Zenon DEF WordsOK
  <2> QED
    BY <2>1, <2>5 DEF FrameOK
<1>6. /\ active' = Append(active, a) /\ intr' = "INTR_OFF"
      /\ pc' = IF Gate(vec) THEN pc ELSE "reset"
      /\ UNCHANGED << written, gates, idt_table, idtr >>
  BY DEF Enter, vec, words
<1>7. /\ active' \in Seq(Frame) /\ Len(active') = Len(active) + 1
      /\ \A k \in 1 .. Len(active) : active'[k] = active[k]
      /\ active'[Len(active) + 1] = a
  BY <1>0, <1>4, <1>6
<1>8. Nested'
  <2>1. active # << >> => Len(active) \in 1 .. Len(active)
    BY <1>0
  <2>2. ASSUME NEW k \in 1 .. Len(active)
        PROVE  /\ active[k].at = "handler"
               /\ active[k].words[1] = "INTR_ON" => k = 1
    BY <1>0, <2>1 DEF IntrInv, Nested, top
  <2>3. a.words[1] = "INTR_ON" => Len(active) = 0
    BY <1>0, <1>3 DEF IntrInv, Nested
  <2> QED
    BY <1>0, <1>6, <1>7, <2>2, <2>3 DEF Nested
<1>9. \A k \in 1 .. Len(active') : FrameOK(active'[k])
  BY <1>0, <1>5, <1>7 DEF IntrInv
<1> QED
  BY <1>1, <1>6, <1>7, <1>8, <1>9

\* The steps of init_all, with interrupts disabled.
\* The steps of idt_init, and of what enables interrupts.
BootStep ==
    idt_desc_init \/ interrput_init \/ pic_init \/ lidt \/ intr_enable

\* The words of pic_init, one by one.
LEMMA WordsMeant ==
    ASSUME NEW n \in 0 .. 4
    PROVE  Words[n + 1] = CASE n = 0 -> << "ctrl", 17 >>
                            [] n = 1 -> << "data", 32 >>
                            [] n = 2 -> << "data", 4 >>
                            [] n = 3 -> << "data", 1 >>
                            [] n = 4 -> << "data", 252 >>
  BY DEF Words

\* The words of pic_init take the 8259A from any state to vectors 32 to 39, all
\* lines but those of the timer and the keyboard masked.
LEMMA PicInitStep ==
    ASSUME IntrInv, pic_init
    PROVE  IntrInv'
<1>1. /\ written \in 0 .. 4 /\ pc = "pic_init" /\ written' = written + 1
      /\ pc' = IF written = 4 THEN "lidt" ELSE "pic_init"
      /\ intr = "INTR_OFF" /\ active = << >>
      /\ UNCHANGED << gates, idt_table, idtr, intr, active >>
  BY DEF IntrInv, IntrTypeOK, Started, pic_init, Then, Words
<1>2. pic.isr = {}
  BY <1>1 DEF IntrInv, OneInterrupt
<1>3. /\ pic \in [base : Int, imr : SUBSET Line, irr : SUBSET Line,
                  isr : SUBSET Line, icw : {0, 2, 3, 4}]
      /\ pic.icw = IF written \in 1 .. 3 THEN written + 1 ELSE 0
      /\ written > 1 => pic.base = 32
  BY DEF IntrInv, IntrTypeOK, Started
<1>4. /\ pic' \in [base : Int, imr : SUBSET Line, irr : SUBSET Line,
                   isr : SUBSET Line, icw : {0, 2, 3, 4}]
      /\ pic'.icw = IF written' \in 1 .. 3 THEN written' + 1 ELSE 0
      /\ written' > 1 => pic'.base = 32
      /\ written' = 5 => pic'.imr = 2 .. 7
      /\ pic'.isr = {}
  <2>1. CASE written = 0
    <3>1. pic' = [pic EXCEPT !.icw = 2, !.imr = {}, !.irr = {}]
      BY <2>1, WordsMeant DEF pic_init, Out, EOI
    <3>2. /\ pic' \in [base : Int, imr : SUBSET Line, irr : SUBSET Line,
                       isr : SUBSET Line, icw : {0, 2, 3, 4}]
          /\ pic'.icw = 2 /\ pic'.isr = {}
      BY <1>2, <1>3, <3>1
    <3> QED
      BY <1>1, <2>1, <3>2
  <2>2. CASE written = 1
    <3>1. pic.icw = 2 /\ Words[written + 1] = << "data", 32 >>
      BY <1>3, <2>2, WordsMeant
    <3>2. pic' = Out(pic, "data", 32)
      BY <3>1 DEF pic_init
    <3>3. pic' = [pic EXCEPT !.base = 32, !.icw = 3]
      BY <3>1, <3>2 DEF Out
    <3>4. /\ pic' \in [base : Int, imr : SUBSET Line, irr : SUBSET Line,
                       isr : SUBSET Line, icw : {0, 2, 3, 4}]
          /\ pic'.icw = 3 /\ pic'.base = 32 /\ pic'.isr = {}
      <4> DEFINE p == [pic EXCEPT !.base = 32]
      <4>1. /\ p \in [base : Int, imr : SUBSET Line, irr : SUBSET Line,
                      isr : SUBSET Line, icw : {0, 2, 3, 4}]
            /\ p.base = 32 /\ p.isr = {}
        BY <1>2, <1>3
      <4>2. pic' = [p EXCEPT !.icw = 3]
        BY <1>3, <3>3
      <4> HIDE DEF p
      <4> QED
        BY <4>1, <4>2
    <3> QED
      BY <1>1, <2>2, <3>4
  <2>3. CASE written = 2
    <3>1. pic' = [pic EXCEPT !.icw = 4]
      BY <1>3, <2>3, WordsMeant DEF pic_init, Out
    <3> QED
      BY <1>1, <1>2, <1>3, <2>3, <3>1
  <2>4. CASE written = 3
    <3>1. pic' = [pic EXCEPT !.icw = 0]
      BY <1>3, <2>4, WordsMeant DEF pic_init, Out
    <3> QED
      BY <1>1, <1>2, <1>3, <2>4, <3>1
  <2>5. CASE written = 4
    <3>1. pic' = [pic EXCEPT !.imr = 2 .. 7]
      <4>1. pic.icw = 0 /\ Words[written + 1] = << "data", 252 >>
        BY <1>3, <2>5, WordsMeant
      <4>2. pic' = Out(pic, "data", 252)
        BY <4>1 DEF pic_init
      <4> QED
        BY <4>1, <4>2, Mask DEF Out
    <3>2. 2 .. 7 \subseteq Line
      BY DEF Line
    <3> QED
      BY <1>1, <1>2, <1>3, <2>5, <3>1, <3>2
  <2> QED
    BY <1>1, <2>1, <2>2, <2>3, <2>4, <2>5
<1>5. IntrTypeOK'
  BY <1>1, <1>4 DEF IntrInv, IntrTypeOK
<1>6. Started'
  BY <1>1, <1>4 DEF IntrInv, Started
<1>7. Nested' /\ OneInterrupt' /\ \A k \in 1 .. Len(active') : FrameOK(active'[k])
  BY <1>1, <1>4 DEF Nested, OneInterrupt
<1> QED
  BY <1>5, <1>6, <1>7 DEF IntrInv

\* idt_init runs with interrupts disabled, and nothing is active.
LEMMA BootKeepsInv ==
    ASSUME IntrInv, BootStep
    PROVE  IntrInv'
<1>1. CASE pic_init
  BY <1>1, PicInitStep
<1>2. ASSUME ~ pic_init PROVE IntrInv'
  <2>1. /\ active = << >> /\ active' = << >> /\ UNCHANGED << pic, written >>
        /\ pc' \in {"interrput_init", "pic_init", "intr_enable", "main"}
    BY <1>2 DEF BootStep, idt_desc_init, interrput_init, lidt, intr_enable,
                Then, IntrInv, Started
  <2>2. Started'
    BY <1>2, <2>1 DEF BootStep, idt_desc_init, interrput_init, lidt,
                intr_enable, Then, IntrInv, IntrTypeOK, Started, IDT_DESC_CNT
  <2>3. IntrTypeOK'
    BY <1>2, <2>1 DEF BootStep, idt_desc_init, interrput_init, lidt,
                intr_enable, Then, IntrInv, IntrTypeOK, Started, Flag
  <2>4. Nested' /\ OneInterrupt'
        /\ \A k \in 1 .. Len(active') : FrameOK(active'[k])
    BY <2>1 DEF Nested, OneInterrupt, IntrInv
  <2> QED
    BY <2>2, <2>3, <2>4 DEF IntrInv
<1> QED
  BY <1>1, <1>2

\* An interrupt is taken in main, which no other interrupts: the one in service
\* is the first that is active.
LEMMA InterruptStep ==
    ASSUME IntrInv, NEW n \in Line, interrupt(n)
    PROVE  IntrInv'
<1>1. /\ pc = "main" /\ written = 5 /\ active = << >> /\ intr = "INTR_ON"
      /\ pic.base = 32 /\ pic.imr = 2 .. 7 /\ pic.isr = {} /\ idtr = TRUE
      /\ gates = 0 .. 33 /\ idt_table = Handlers
      /\ Len(active) = 0
  <2>1. intr = "INTR_ON"
    BY DEF interrupt
  <2>2. pc = "main" /\ active = << >>
    BY <2>1 DEF IntrInv, Started, Nested
  <2>3. pic.isr = {}
    BY <2>2 DEF IntrInv, OneInterrupt
  <2>4. /\ written = 5 /\ gates = 0 .. 33 /\ idt_table = Handlers
        /\ idtr = TRUE /\ pic.base = 32 /\ pic.imr = 2 .. 7
    BY <2>2 DEF IntrInv, Started
  <2> QED
    BY <2>1, <2>2, <2>3, <2>4
<1>2. /\ n \in {0, 1} /\ n \in pic.irr
  BY <1>1 DEF interrupt, IsFirst, Requested, Line
<1>3. /\ pic' = [pic EXCEPT !.irr = @ \ {n}, !.isr = @ \cup {n}]
      /\ Enter(32 + n, n)
  BY <1>1 DEF interrupt
<1>4. n \in {Timer, Kbd, Raised, Spurious}
  BY <1>2 DEF Timer, Kbd
<1>5. n = Timer => 32 + n = 32
  BY DEF Timer
<1>6. n = Kbd => 32 + n = 33
  BY DEF Kbd
<1>7. n # Raised /\ n # Spurious
  BY <1>2 DEF Raised, Spurious
<1>8. /\ pc' = pc /\ active' \in Seq(Frame) /\ intr' = "INTR_OFF"
      /\ Nested' /\ UNCHANGED << written, gates, idt_table, idtr >>
      /\ Len(active') = 1
      /\ active'[1].cause = n /\ active'[1].at = "entry"
      /\ \A k \in 1 .. Len(active') : FrameOK(active'[k])
  <2>1. /\ pc' = pc /\ active' \in Seq(Frame) /\ intr' = "INTR_OFF"
        /\ Nested' /\ UNCHANGED << written, gates, idt_table, idtr >>
        /\ Len(active') = Len(active) + 1
        /\ active'[Len(active) + 1].cause = n
        /\ active'[Len(active) + 1].at = "entry"
        /\ \A k \in 1 .. Len(active') : FrameOK(active'[k])
    <3>1. 32 + n \in Int /\ n # Raised /\ n # Spurious
      BY <1>2, <1>7
    <3>2. active # << >> => top.at = "handler"
      BY <1>1
    <3> HIDE DEF interrupt
    <3> QED
      BY <1>1, <1>3, <1>4, <1>5, <1>6, <3>1, <3>2, EnterStep
  <2> QED
    BY <1>1, <2>1
<1>9. /\ pic' \in [base : Int, imr : SUBSET Line, irr : SUBSET Line,
                   isr : SUBSET Line, icw : {0, 2, 3, 4}]
      /\ pic'.isr = {n} /\ pic'.imr = 2 .. 7 /\ pic'.base = 32
      /\ pic'.icw = pic.icw
  <2>1. pic \in [base : Int, imr : SUBSET Line, irr : SUBSET Line,
                  isr : SUBSET Line, icw : {0, 2, 3, 4}]
    BY DEF IntrInv, IntrTypeOK
  <2> QED
    BY <1>1, <1>3, <2>1
<1>10. IntrTypeOK' /\ Started'
  BY <1>1, <1>8, <1>9 DEF IntrInv, IntrTypeOK, Started, Flag
<1>11. OneInterrupt'
  <2>1. active' # << >>
    <3>1. active' \in Seq(Frame) /\ Len(active') = 1
      BY <1>8
    <3> QED
      BY <3>1
  <2>2. \A k \in 1 .. Len(active') : k = 1
    BY <1>8
  <2> QED
    BY <1>8, <1>9, <2>1, <2>2 DEF OneInterrupt
<1> QED
  BY <1>8, <1>10, <1>11 DEF IntrInv

\* Exceptions and spurious interrupts leave the 8259A as it is.
LEMMA RaisedStep ==
    ASSUME IntrInv, spurious \/ \E v \in Fault : exception(v)
    PROVE  IntrInv'
<1>1. PICK v \in Int, cause \in {Raised, Spurious} :
          /\ cause = Raised   => v \in Fault
          /\ cause = Spurious => v > 33
          /\ pc = "main" /\ (active # << >> => top.at = "handler")
          /\ Enter(v, cause) /\ UNCHANGED pic
  <2>1. CASE spurious
    <3>1. /\ intr = "INTR_ON" /\ active = << >> /\ pc = "main"
          /\ pic.base + 7 = 39
      BY <2>1 DEF spurious, IntrInv, Started, Nested
    <3>2. Enter(39, Spurious) /\ UNCHANGED pic
      BY <2>1, <3>1 DEF spurious
    <3>3. Spurious # Raised
      BY DEF Spurious, Raised
    <3> QED
      BY <3>1, <3>2, <3>3
  <2>2. ASSUME NEW v \in Fault, exception(v)
        PROVE  /\ v \in Int /\ pc = "main"
               /\ (active # << >> => top.at = "handler")
               /\ Enter(v, Raised) /\ UNCHANGED pic /\ Spurious # Raised
    BY <2>2, FaultAssumption DEF exception, Spurious, Raised
  <2> QED
    BY <2>1, <2>2
<1>2. cause # Timer /\ cause # Kbd /\ cause \notin Line
  BY <1>1 DEF Raised, Spurious, Timer, Kbd, Line
<1>3. /\ pc' = pc /\ active' \in Seq(Frame) /\ intr' = "INTR_OFF"
      /\ Nested' /\ UNCHANGED << written, gates, idt_table, idtr >>
      /\ Len(active') = Len(active) + 1
      /\ \A k \in 1 .. Len(active) : active'[k] = active[k]
      /\ active'[Len(active) + 1].cause = cause
      /\ \A k \in 1 .. Len(active') : FrameOK(active'[k])
  BY <1>1, <1>2, EnterStep
<1>4. IntrTypeOK' /\ Started'
  BY <1>1, <1>3 DEF IntrInv, IntrTypeOK, Started, Flag
<1>5. OneInterrupt'
  <2>1. /\ active \in Seq(Frame) /\ active' # << >>
        /\ active # << >> => 1 \in 1 .. Len(active)
    BY <1>3 DEF IntrInv, IntrTypeOK
  <2>2. \A k \in 1 .. Len(active') : active'[k].cause \in Line => k = 1
    BY <1>2, <1>3, <2>1 DEF IntrInv, OneInterrupt
  <2>3. CASE active = << >>
    <3>1. Len(active) = 0 /\ active'[1].cause \notin Line
      BY <1>2, <1>3, <2>3
    <3>2. pic'.isr = {}
      BY <1>1, <2>3 DEF IntrInv, OneInterrupt
    <3> QED
      BY <2>2, <3>1, <3>2, Zenon DEF OneInterrupt
  <2>4. CASE active # << >>
    BY <1>1, <1>3, <2>1, <2>2, <2>4 DEF IntrInv, OneInterrupt
  <2> QED
    BY <2>3, <2>4
<1> QED
  BY <1>3, <1>4, <1>5 DEF IntrInv

\* A step of an entry: the place and the words of what is at the top change.
LEMMA AdvanceStep ==
    ASSUME IntrInv, NEW p \in Place \ {"entry"}, NEW pushed \in Seq(Word),
           active # << >>, top.at # p, top.at # "exit",
           Advance(p, pushed),
           /\ p = "eoi" => Len(top.words) + Len(pushed) = 6
           /\ p # "eoi" => Len(top.words) + Len(pushed) = 7
           /\ \A i \in 1 .. Len(pushed) : pushed[i] = Pushed[Len(top.words) + i]
    PROVE  /\ active' \in Seq(Frame) /\ Len(active') = Len(active)
           /\ \A k \in 1 .. Len(active) :
                 /\ active'[k].cause = active[k].cause
                 /\ active'[k].vec = active[k].vec
                 /\ active'[k].at = IF k = Len(active) THEN p ELSE active[k].at
                 /\ active'[k].words[1] = active[k].words[1]
                 /\ FrameOK(active'[k])
<1> DEFINE n == Len(active)
           a == [top EXCEPT !.at = p, !.words = @ \o pushed]
<1>1. active \in Seq(Frame) /\ n \in 1 .. n /\ top = active[n]
  BY DEF IntrInv, IntrTypeOK, top
<1>2. /\ top \in Frame /\ FrameOK(top) /\ top.words \in Seq(Word)
      /\ Len(top.words) \in Nat
  <2>1. top \in Frame /\ FrameOK(top)
    BY <1>1 DEF IntrInv
  <2>2. top.words \in Seq(Word)
    BY <2>1 DEF Frame
  <2> QED
    BY <2>1, <2>2, LenProperties
<1>3. /\ a \in Frame /\ a.at = p /\ a.cause = top.cause /\ a.vec = top.vec
      /\ a.words = top.words \o pushed
  <2> DEFINE b == [top EXCEPT !.at = p]
  <2>1. /\ b \in Frame /\ b.at = p /\ b.cause = top.cause /\ b.vec = top.vec
        /\ b.words = top.words
    BY <1>2 DEF Frame
  <2>2. a = [b EXCEPT !.words = top.words \o pushed]
    BY <1>2 DEF Frame
  <2>3. top.words \o pushed \in Seq(Word)
    BY <1>2
  <2>4. /\ a \in Frame /\ a.at = b.at /\ a.cause = b.cause /\ a.vec = b.vec
        /\ a.words = top.words \o pushed
    <3> HIDE DEF a, b
    <3> QED
      BY <2>1, <2>2, <2>3 DEF Frame
  <2> HIDE DEF a, b
  <2> QED
    BY <2>1, <2>4
<1>4. active' = [active EXCEPT ![n] = a]
  BY <1>1 DEF Advance
<1>5. Len(top.words) \in 3 .. 7
  BY <1>2 DEF FrameOK, WordsOK, Depth
<1>6. FrameOK(a) /\ a.words[1] = top.words[1]
  <2> DEFINE w == top.words \o pushed
  <2>1. /\ Len(w) = Len(top.words) + Len(pushed)
        /\ \A i \in 1 .. Len(top.words) : w[i] = top.words[i]
        /\ \A i \in Len(top.words) + 1 .. Len(w) :
               w[i] = pushed[i - Len(top.words)]
    BY <1>2
  <2> HIDE DEF a, w
  <2>2. \A i \in 2 .. Len(top.words) : top.words[i] = Pushed[i]
    BY <1>2 DEF FrameOK, WordsOK
  <2>3. \A i \in 2 .. Len(w) : w[i] = Pushed[i]
    <3> TAKE i \in 2 .. Len(w)
    <3>1. CASE i <= Len(top.words)
      BY <1>5, <2>1, <2>2, <3>1
    <3>2. CASE i > Len(top.words)
      <4>1. /\ i - Len(top.words) \in 1 .. Len(pushed)
            /\ w[i] = pushed[i - Len(top.words)]
            /\ Len(top.words) + (i - Len(top.words)) = i
        BY <1>5, <2>1, <3>2
      <4> QED
        BY <4>1
    <3> QED
      BY <1>5, <3>1, <3>2
  <2>4. Len(w) = Depth(a)
    BY <1>3, <2>1 DEF Depth, Place
  <2>5. w[1] = top.words[1] /\ w[1] \in Flag
    BY <1>2, <1>5, <2>1 DEF FrameOK, WordsOK
  <2>6. a.words = w
    BY <1>3 DEF w
  <2>7. WordsOK(a)
    BY <2>3, <2>4, <2>5, <2>6, Zenon DEF WordsOK
  <2>8. VecOK(a)
    BY <1>2, <1>3, Zenon DEF FrameOK, VecOK
  <2> QED
    BY <2>5, <2>6, <2>7, <2>8, Zenon DEF FrameOK
<1> HIDE DEF a
<1>7. /\ active' \in Seq(Frame) /\ Len(active') = n
      /\ active'[n] = a
      /\ \A k \in 1 .. n : k # n => active'[k] = active[k]
  BY <1>1, <1>3, <1>4
<1>8. \A k \in 1 .. n : FrameOK(active[k])
  BY DEF IntrInv
<1> QED
  BY <1>1, <1>3, <1>6, <1>7, <1>8

\* After such a step what was nested is nested.
LEMMA AdvanceNested ==
    ASSUME IntrInv, active # << >>, NEW p,
           active' \in Seq(Frame), Len(active') = Len(active), intr' = intr,
           \A k \in 1 .. Len(active) :
               /\ active'[k].at = IF k = Len(active) THEN p ELSE active[k].at
               /\ active'[k].words[1] = active[k].words[1]
    PROVE  Nested'
<1>1. active \in Seq(Frame)
  BY DEF IntrInv, IntrTypeOK
<1> QED
  BY <1>1 DEF IntrInv, Nested

\* What VECTOR and the entry push makes the words of an exception with an error
\* code and of one without the same.
LEMMA EntryStep ==
    ASSUME IntrInv, entry
    PROVE  IntrInv'
<1> DEFINE pushed == VECTOR(top.vec) \o << "segments", "registers" >>
<1>1. /\ active # << >> /\ top.at = "entry" /\ Advance("eoi", pushed)
      /\ UNCHANGED << initVars, pic, intr >>
  BY DEF entry, At
<1>2. active \in Seq(Frame) /\ Len(active) \in 1 .. Len(active)
  BY <1>1 DEF IntrInv, IntrTypeOK
<1>3. FrameOK(top)
  BY <1>2 DEF IntrInv, top
<1>4. /\ top.vec \in ErrorCode => Len(top.words) = 4
      /\ top.vec \notin ErrorCode => Len(top.words) = 3
      /\ top.cause \in {Timer, Kbd, Raised, Spurious}
  <2>1. top \in Frame
    BY <1>2 DEF top
  <2>2. Len(top.words) = Depth(top)
    BY <1>3 DEF FrameOK, WordsOK
  <2> QED
    BY <1>1, <2>1, <2>2 DEF Depth, Frame
<1>5. /\ top.vec \in ErrorCode => VECTOR(top.vec) = << >>
      /\ top.vec \notin ErrorCode => VECTOR(top.vec) = << "error" >>
  BY <1>3, <1>4, FaultAssumption DEF FrameOK, VecOK, VECTOR, ErrorCode, GP
<1>6. /\ pushed \in Seq(Word)
      /\ top.vec \in ErrorCode =>
             /\ Len(pushed) = 2
             /\ pushed[1] = "segments" /\ pushed[2] = "registers"
      /\ top.vec \notin ErrorCode =>
             /\ Len(pushed) = 3 /\ pushed[1] = "error"
             /\ pushed[2] = "segments" /\ pushed[3] = "registers"
  <2>1. << "segments", "registers" >> \in Seq(Word) /\ << "error" >> \in Seq(Word)
    BY DEF Word
  <2>2. CASE top.vec \in ErrorCode
    <3>1. pushed = << "segments", "registers" >>
      BY <1>5, <2>1, <2>2, ConcatEmptySeq
    <3> HIDE DEF pushed
    <3> QED
      BY <2>1, <2>2, <3>1
  <2>3. CASE top.vec \notin ErrorCode
    <3>1. pushed = << "error" >> \o << "segments", "registers" >>
      BY <1>5, <2>3
    <3> HIDE DEF pushed
    <3> QED
      BY <2>1, <2>3, <3>1
  <2> QED
    BY <2>2, <2>3
<1> HIDE DEF pushed
<1>7. /\ Len(top.words) + Len(pushed) = 6
      /\ \A i \in 1 .. Len(pushed) : pushed[i] = Pushed[Len(top.words) + i]
  <2>1. /\ Pushed[4] = "error" /\ Pushed[5] = "segments"
        /\ Pushed[6] = "registers"
    BY DEF Pushed
  <2>2. ASSUME top.vec \in ErrorCode
        PROVE  \A i \in 1 .. 2 : pushed[i] = Pushed[4 + i]
    BY <1>6, <2>1, <2>2
  <2>3. ASSUME top.vec \notin ErrorCode
        PROVE  \A i \in 1 .. 3 : pushed[i] = Pushed[3 + i]
    BY <1>6, <2>1, <2>3
  <2>4. CASE top.vec \in ErrorCode
    <3>1. Len(top.words) = 4 /\ Len(pushed) = 2
      BY <1>4, <1>6, <2>4
    <3> QED
      BY <2>2, <2>4, <3>1
  <2>5. CASE top.vec \notin ErrorCode
    <3>1. Len(top.words) = 3 /\ Len(pushed) = 3
      BY <1>4, <1>6, <2>5
    <3> QED
      BY <2>3, <2>5, <3>1
  <2> QED
    BY <2>4, <2>5
<1>8. "eoi" \in Place \ {"entry"}
  BY DEF Place
<1>9. /\ active' \in Seq(Frame) /\ Len(active') = Len(active)
      /\ \A k \in 1 .. Len(active) :
            /\ active'[k].cause = active[k].cause
            /\ active'[k].vec = active[k].vec
            /\ active'[k].at = IF k = Len(active) THEN "eoi" ELSE active[k].at
            /\ active'[k].words[1] = active[k].words[1]
            /\ FrameOK(active'[k])
  BY <1>1, <1>6, <1>7, <1>8, AdvanceStep
<1>10. Nested'
  BY <1>1, <1>9, AdvanceNested
<1>11. IntrTypeOK' /\ Started'
  BY <1>1, <1>9 DEF IntrInv, IntrTypeOK, Started, initVars, Nested
<1>12. OneInterrupt'
  <2>1. 1 \in 1 .. Len(active) /\ active' # << >>
    BY <1>1, <1>2, <1>9
  <2>2. active'[1].at \in {"entry", "eoi"} <=> active[1].at \in {"entry", "eoi"}
    BY <1>1, <1>9, <2>1 DEF top
  <2> QED
    BY <1>1, <1>9, <2>1, <2>2 DEF IntrInv, OneInterrupt
<1> QED
  BY <1>9, <1>10, <1>11, <1>12 DEF IntrInv

\* The entry of an interrupt ends the one that is in service, its own; that of
\* an exception ends none, because the one it interrupts has ended its own.
LEMMA EoiStep ==
    ASSUME IntrInv, eoi
    PROVE  IntrInv'
<1>1. /\ active # << >> /\ top.at = "eoi" /\ Advance("handler", << "vector" >>)
      /\ pic' = Out(pic, "ctrl", EOI)
      /\ UNCHANGED << initVars, intr >>
  BY DEF eoi, At
<1>2. /\ active \in Seq(Frame) /\ Len(active) \in 1 .. Len(active)
      /\ 1 \in 1 .. Len(active)
  BY <1>1 DEF IntrInv, IntrTypeOK
<1>3. Len(top.words) = 6
  <2>1. Len(top.words) = Depth(top)
    BY <1>2 DEF IntrInv, top, FrameOK, WordsOK
  <2> QED
    BY <1>1, <2>1 DEF Depth
<1>4. /\ << "vector" >> \in Seq(Word) /\ Len(<< "vector" >>) = 1
      /\ << "vector" >>[1] = Pushed[7]
  BY DEF Word, Pushed
<1>5. "handler" \in Place \ {"entry"}
  BY DEF Place
<1>6. /\ active' \in Seq(Frame) /\ Len(active') = Len(active)
      /\ \A k \in 1 .. Len(active) :
            /\ active'[k].cause = active[k].cause
            /\ active'[k].vec = active[k].vec
            /\ active'[k].at = IF k = Len(active) THEN "handler" ELSE active[k].at
            /\ active'[k].words[1] = active[k].words[1]
            /\ FrameOK(active'[k])
  <2>1. /\ Len(top.words) + Len(<< "vector" >>) = 7
        /\ \A i \in 1 .. Len(<< "vector" >>) :
               << "vector" >>[i] = Pushed[Len(top.words) + i]
        /\ "handler" # "eoi" /\ top.at # "handler" /\ top.at # "exit"
    BY <1>1, <1>3, <1>4
  <2> QED
    BY <1>1, <1>4, <1>5, <2>1, AdvanceStep, Zenon
<1>7. Nested'
  BY <1>1, <1>6, AdvanceNested
<1>8. /\ pic \in [base : Int, imr : SUBSET Line, irr : SUBSET Line,
                  isr : SUBSET Line, icw : {0, 2, 3, 4}]
      /\ pic' = [pic EXCEPT !.isr = {n \in pic.isr : ~ IsFirst(n, pic.isr)}]
  <2>1. pic \in [base : Int, imr : SUBSET Line, irr : SUBSET Line,
                  isr : SUBSET Line, icw : {0, 2, 3, 4}]
    BY DEF IntrInv, IntrTypeOK
  <2>2. EOI = 32
    BY DEF EOI
  <2> QED
    BY <1>1, <2>1, <2>2, Zenon DEF Out
<1>9. pic'.isr = {}
  <2>1. \A n, m \in pic.isr : n = m
    BY DEF IntrInv, OneInterrupt
  <2>2. \A n \in pic.isr : IsFirst(n, pic.isr)
    <3> TAKE n \in pic.isr
    <3>1. \A m \in pic.isr : n <= m
      BY <1>8, <2>1 DEF Line
    <3> QED
      BY <3>1 DEF IsFirst
  <2> QED
    BY <1>8, <2>2
<1>10. IntrTypeOK' /\ Started'
  <2>1. /\ pic' \in [base : Int, imr : SUBSET Line, irr : SUBSET Line,
                     isr : SUBSET Line, icw : {0, 2, 3, 4}]
        /\ pic'.base = pic.base /\ pic'.imr = pic.imr /\ pic'.icw = pic.icw
    BY <1>8
  <2>2. IntrTypeOK'
    BY <1>1, <1>6, <2>1 DEF IntrInv, IntrTypeOK, initVars
  <2> QED
    BY <1>1, <2>1, <2>2 DEF IntrInv, Started, initVars
<1>11. OneInterrupt'
  <2>1. active'[1].at = "handler"
    BY <1>1, <1>2, <1>6 DEF IntrInv, Nested
  <2> QED
    BY <1>6, <1>9, <2>1 DEF IntrInv, OneInterrupt
<1> QED
  BY <1>6, <1>7, <1>10, <1>11 DEF IntrInv

\* The entry calls the handler, which leaves the stack as it was.
LEMMA CallStep ==
    ASSUME IntrInv, call
    PROVE  IntrInv'
<1>1. /\ active # << >> /\ top.at = "handler" /\ Advance("exit", << >>)
      /\ UNCHANGED << initVars, pic, intr >>
  BY DEF call, At
<1>2. /\ active \in Seq(Frame) /\ Len(active) \in 1 .. Len(active)
      /\ 1 \in 1 .. Len(active)
  BY <1>1 DEF IntrInv, IntrTypeOK
<1>3. Len(top.words) = 7
  <2>1. Len(top.words) = Depth(top)
    BY <1>2 DEF IntrInv, top, FrameOK, WordsOK
  <2> QED
    BY <1>1, <2>1 DEF Depth
<1>4. << >> \in Seq(Word) /\ Len(<< >>) = 0
  BY EmptySeq
<1>5. "exit" \in Place \ {"entry"}
  BY DEF Place
<1>6. /\ active' \in Seq(Frame) /\ Len(active') = Len(active)
      /\ \A k \in 1 .. Len(active) :
            /\ active'[k].cause = active[k].cause
            /\ active'[k].vec = active[k].vec
            /\ active'[k].at = IF k = Len(active) THEN "exit" ELSE active[k].at
            /\ active'[k].words[1] = active[k].words[1]
            /\ FrameOK(active'[k])
  <2>1. /\ Len(top.words) + Len(<< >>) = 7
        /\ \A i \in 1 .. Len(<< >>) : << >>[i] = Pushed[Len(top.words) + i]
        /\ "exit" # "eoi" /\ top.at # "exit"
    BY <1>1, <1>3, <1>4
  <2> QED
    BY <1>1, <1>4, <1>5, <2>1, AdvanceStep, Zenon
<1>7. Nested'
  BY <1>1, <1>6, AdvanceNested
<1>8. IntrTypeOK' /\ Started'
  BY <1>1, <1>6 DEF IntrInv, IntrTypeOK, Started, initVars, Nested
<1>9. OneInterrupt'
  <2>1. /\ active'[1].at \notin {"entry", "eoi"}
        /\ active[1].at \notin {"entry", "eoi"}
    BY <1>1, <1>2, <1>6 DEF IntrInv, Nested, top
  <2> QED
    BY <1>1, <1>2, <1>6, <2>1 DEF IntrInv, OneInterrupt
<1> QED
  BY <1>6, <1>7, <1>8, <1>9 DEF IntrInv

\* What iretd pops as flags is what was pushed as flags.
LEMMA ExitStep ==
    ASSUME IntrInv, intr_exit
    PROVE  IntrInv'
<1>1. /\ active # << >> /\ top.at = "exit"
      /\ intr' = top.words[Len(top.words) - 6]
      /\ active' = SubSeq(active, 1, Len(active) - 1)
      /\ UNCHANGED << initVars, pic >>
  BY DEF intr_exit, At
<1>2. /\ active \in Seq(Frame) /\ Len(active) \in 1 .. Len(active)
      /\ 1 \in 1 .. Len(active)
  BY <1>1 DEF IntrInv, IntrTypeOK
<1>3. /\ active' \in Seq(Frame) /\ Len(active') = Len(active) - 1
      /\ \A k \in 1 .. Len(active) - 1 : active'[k] = active[k]
  <2>1. \A k \in 1 .. Len(active) - 1 : active[k] \in Frame
    BY <1>2
  <2> QED
    <3> DEFINE n == Len(active) - 1
    <3>1. n \in Nat /\ n \in Int /\ 1 \in Int /\ n - 1 + 1 = n
          /\ active' = SubSeq(active, 1, n)
          /\ \A i \in 1 .. n : active[i] \in Frame /\ 1 + i - 1 = i
      BY <1>1, <1>2, <2>1
    <3> HIDE DEF n
    <3>2. /\ active' \in Seq(Frame)
          /\ Len(active') = IF 1 <= n THEN n - 1 + 1 ELSE 0
          /\ \A i \in 1 .. n - 1 + 1 : active'[i] = active[1 + i - 1]
      <4>1. \A i \in 1 .. n : active[i] \in Frame
        BY <3>1
      <4>2. /\ SubSeq(active, 1, n) \in Seq(Frame)
            /\ Len(SubSeq(active, 1, n)) = IF 1 <= n THEN n - 1 + 1 ELSE 0
            /\ \A i \in 1 .. n - 1 + 1 :
                  SubSeq(active, 1, n)[i] = active[1 + i - 1]
        BY <3>1, <4>1, SubSeqProperties, SMT
      <4> QED
        BY <3>1, <4>2, Zenon
    <3>3. Len(active') = n /\ \A i \in 1 .. n : active'[i] = active[i]
      BY <3>1, <3>2
    <3> QED
      BY <3>2, <3>3 DEF n
<1>4. FrameOK(top)
  BY <1>2 DEF IntrInv, top
<1>5. intr' = top.words[1] /\ intr' \in Flag
  <2>1. Len(top.words) = Depth(top) /\ top.words[1] \in Flag
    BY <1>4 DEF FrameOK, WordsOK
  <2>2. Len(top.words) = 7
    BY <1>1, <2>1 DEF Depth
  <2> QED
    BY <1>1, <2>1, <2>2
<1>6. Nested'
  <2>1. active' # << >> => Len(active) # 1
    BY <1>3, EmptySeq
  <2>2. intr' = "INTR_ON" => Len(active) = 1
    BY <1>2, <1>5 DEF IntrInv, Nested, top
  <2>3. active' # << >> => intr' = "INTR_OFF"
    BY <1>5, <2>1, <2>2 DEF Flag
  <2>4. \A k \in 1 .. Len(active) - 1 :
            /\ active[k].at = "handler"
            /\ active[k].words[1] = "INTR_ON" => k = 1
    BY <1>2 DEF IntrInv, Nested
  <2> QED
    BY <1>2, <1>3, <2>3, <2>4 DEF Nested
<1>7. IntrTypeOK' /\ Started'
  BY <1>1, <1>3, <1>5 DEF IntrInv, IntrTypeOK, Started, initVars
<1>8. OneInterrupt'
  <2>1. active[1].at \notin {"entry", "eoi"}
    BY <1>1, <1>2 DEF IntrInv, Nested, top
  <2>2. pic.isr = {}
    BY <2>1 DEF IntrInv, OneInterrupt
  <2>3. \A k \in 1 .. Len(active') : active'[k].cause \in Line => k = 1
    BY <1>2, <1>3 DEF IntrInv, OneInterrupt
  <2>4. active' # << >> => active'[1].at \notin {"entry", "eoi"}
    BY <1>2, <1>3, <2>1
  <2> QED
    BY <1>1, <2>2, <2>3, <2>4 DEF OneInterrupt
<1>9. \A k \in 1 .. Len(active') : FrameOK(active'[k])
  BY <1>2, <1>3 DEF IntrInv
<1> QED
  BY <1>6, <1>7, <1>8, <1>9 DEF IntrInv

\* What main and the devices do.
LEMMA OutsideStep ==
    ASSUME IntrInv,
           \/ run("INTR_ON") \/ run("INTR_OFF") \/ tick \/ byte
           \/ UNCHANGED intrVars
    PROVE  IntrInv'
<1>1. /\ UNCHANGED << initVars, active >> /\ intr' \in Flag
      /\ active # << >> => intr' = intr
      /\ pc # "main" => intr' = intr
      /\ \/ UNCHANGED pic
         \/ pic' = [pic EXCEPT !.irr = @ \cup {Timer}]
         \/ pic' = [pic EXCEPT !.irr = @ \cup {Kbd}]
  BY DEF run, InMain, tick, byte, Rises, intrVars, initVars, devVars, IntrInv,
         IntrTypeOK, Flag
<1>2. /\ pic \in [base : Int, imr : SUBSET Line, irr : SUBSET Line,
                  isr : SUBSET Line, icw : {0, 2, 3, 4}]
      /\ Timer \in Line /\ Kbd \in Line
  BY DEF IntrInv, IntrTypeOK, Line, Timer, Kbd
<1>3. /\ pic' \in [base : Int, imr : SUBSET Line, irr : SUBSET Line,
                   isr : SUBSET Line, icw : {0, 2, 3, 4}]
      /\ pic'.icw = pic.icw /\ pic'.base = pic.base /\ pic'.imr = pic.imr
      /\ pic'.isr = pic.isr
  BY <1>1, <1>2
<1>4. IntrTypeOK' /\ Started' /\ Nested' /\ OneInterrupt'
  BY <1>1, <1>3
     DEF IntrInv, IntrTypeOK, Started, Nested, OneInterrupt, initVars
<1>5. \A k \in 1 .. Len(active') : FrameOK(active'[k])
  BY <1>1 DEF IntrInv
<1> QED
  BY <1>4, <1>5 DEF IntrInv

\* Each step keeps the invariant.
LEMMA IntrStep == IntrInv /\ [IntrNext]_intrVars => IntrInv'
<1> SUFFICES ASSUME IntrInv, [IntrNext]_intrVars PROVE IntrInv'
  OBVIOUS
<1>1. CASE BootStep
  BY <1>1, BootKeepsInv
<1>2. ASSUME NEW n \in Line, interrupt(n) PROVE IntrInv'
  BY <1>2, InterruptStep
<1>3. CASE spurious \/ \E v \in Fault : exception(v)
  BY <1>3, RaisedStep
<1>4. CASE entry
  BY <1>4, EntryStep
<1>5. CASE eoi
  BY <1>5, EoiStep
<1>6. CASE call
  BY <1>6, CallStep
<1>7. CASE intr_exit
  BY <1>7, ExitStep
<1>8. CASE \/ run("INTR_ON") \/ run("INTR_OFF") \/ tick \/ byte
           \/ UNCHANGED intrVars
  BY <1>8, OutsideStep
<1> QED
  BY <1>1, <1>2, <1>3, <1>4, <1>5, <1>6, <1>7, <1>8
     DEF IntrNext, Execute, BootStep

\* Whatever interrupts and exceptions come, one inside the other: main and the
\* handlers they interrupt go on with the flags and words they had.
THEOREM InterruptsReturn == IntrSpec => []FramesWhole
<1>1. IntrInv => FramesWhole
  <2> SUFFICES ASSUME IntrInv, NEW k \in 1 .. Len(active),
                      active[k].at = "exit"
               PROVE  /\ Len(active[k].words) = 7
                      /\ SubSeq(active[k].words, 2, 7) =
                            << "cs", "eip", "error", "segments", "registers",
                               "vector" >>
                      /\ active[k].words[1] = "INTR_ON" => k = 1
    BY DEF FramesWhole
  <2> DEFINE w == active[k].words
             s == SubSeq(w, 2, 7)
  <2>1. /\ w \in Seq(Word) /\ Len(w) = Depth(active[k])
        /\ \A i \in 2 .. Len(w) : w[i] = Pushed[i]
    <3>1. active[k] \in Frame /\ WordsOK(active[k])
      BY DEF IntrInv, IntrTypeOK, FrameOK
    <3> QED
      BY <3>1 DEF Frame, WordsOK
  <2>2. Len(w) = 7
    BY <2>1 DEF Depth
  <2>3. s \in Seq(Word) /\ Len(s) = 6 /\ \A i \in 1 .. 6 : s[i] = Pushed[i + 1]
    <3>1. \A i \in 2 .. 7 : w[i] \in Word
      BY <2>1, <2>2
    <3>2. s \in Seq(Word) /\ Len(s) = 6 /\ \A i \in 1 .. 6 : s[i] = w[2 + i - 1]
      <4> HIDE DEF w
      <4> QED
        BY <3>1, SubSeqProperties
    <3> HIDE DEF s, w
    <3> QED
      BY <2>1, <2>2, <3>2
  <2>4. s = << "cs", "eip", "error", "segments", "registers", "vector" >>
    <3> HIDE DEF s
    <3> QED
      BY <2>3 DEF Pushed
  <2>5. w[1] = "INTR_ON" => k = 1
    BY DEF IntrInv, Nested
  <2> QED
    BY <2>2, <2>4, <2>5
<1> QED
  BY <1>1, IntrInit1, IntrStep, PTL DEF IntrSpec

\* Whatever comes, the gates, the vectors of pic_init and idt_table agree.
THEOREM HandlersMeant == IntrSpec => []HandlerMeant
<1>1. IntrInv => HandlerMeant
  <2> SUFFICES ASSUME IntrInv PROVE HandlerMeant
    OBVIOUS
  <2>1. pc # "reset"
    BY DEF IntrInv, IntrTypeOK
  <2>2. ASSUME NEW k \in 1 .. Len(active)
        PROVE  LET a == active[k] IN
               /\ a.vec \in DOMAIN idt_table
               /\ idt_table[a.vec] = "intr_timer_handler" <=> a.cause = Timer
               /\ idt_table[a.vec] = "intr_keyboard_handler" <=> a.cause = Kbd
    <3> DEFINE a == active[k]
    <3>1. active \in Seq(Frame) /\ active # << >> /\ a \in Frame
      BY EmptySeq DEF IntrInv, IntrTypeOK
    <3>2. idt_table = Handlers
      BY <3>1 DEF IntrInv, Started
    <3>3. VecOK(a) /\ a.cause \in {Timer, Kbd, Raised, Spurious}
      BY <3>1 DEF IntrInv, FrameOK, Frame
    <3>4. \/ a.cause = Timer /\ a.vec = 32
          \/ a.cause = Kbd /\ a.vec = 33
          \/ a.cause \in {Raised, Spurious} /\ a.vec \in 0 .. 31
      <4>1. Fault \subseteq 0 .. 31
        BY FaultAssumption
      <4> QED
        <5> HIDE DEF a
        <5>1. CASE a.cause = Raised
          BY <3>3, <4>1, <5>1 DEF VecOK
        <5>2. CASE a.cause = Spurious
          BY <3>3, <5>2 DEF VecOK, GP
        <5>3. CASE a.cause \in {Timer, Kbd}
          BY <3>3, <5>3 DEF VecOK
        <5> QED
          BY <3>3, <5>1, <5>2, <5>3
    <3>5. /\ Timer # Kbd /\ Timer \notin {Raised, Spurious}
          /\ Kbd \notin {Raised, Spurious}
      BY DEF Timer, Kbd, Raised, Spurious
    <3>6. /\ DOMAIN Handlers = 0 .. 33
          /\ Handlers[32] = "intr_timer_handler"
          /\ Handlers[33] = "intr_keyboard_handler"
          /\ \A v \in 0 .. 31 : Handlers[v] = "general_intr_handle"
      BY DEF Handlers, IDT_DESC_CNT
    <3>7. /\ a.vec \in DOMAIN idt_table
          /\ idt_table[a.vec] = "intr_timer_handler" <=> a.cause = Timer
          /\ idt_table[a.vec] = "intr_keyboard_handler" <=> a.cause = Kbd
      <4> HIDE DEF a
      <4>1. CASE a.cause = Timer /\ a.vec = 32
        BY <3>2, <3>5, <3>6, <4>1
      <4>2. CASE a.cause = Kbd /\ a.vec = 33
        BY <3>2, <3>5, <3>6, <4>2
      <4>3. CASE a.cause \in {Raised, Spurious} /\ a.vec \in 0 .. 31
        <5>1. /\ a.cause # Timer /\ a.cause # Kbd
              /\ Handlers[a.vec] = "general_intr_handle"
          BY <3>5, <3>6, <4>3
        <5>2. a.vec \in 0 .. 33
          BY <4>3
        <5> QED
          BY <3>2, <3>6, <5>1, <5>2
      <4> QED
        BY <3>4, <4>1, <4>2, <4>3
    <3> QED
      BY <3>3, <3>7 DEF VecOK
  <2> QED
    BY <2>1, <2>2 DEF HandlerMeant
<1> QED
  BY <1>1, IntrInit1, IntrStep, PTL DEF IntrSpec

\* Whatever requests wait, one interrupt is handled at a time, and the entry of
\* an exception ends none.
THEOREM OneAtATime == IntrSpec => []OneInterrupt
<1>1. IntrInv => OneInterrupt
  BY DEF IntrInv
<1> QED
  BY <1>1, IntrInit1, IntrStep, PTL DEF IntrSpec


-----------------------------------------------------------------------------

\* The keyboards whose keys the variables of keyboard.c can follow: they record
\* for two keys at once whether one is held.
OneKeyEach ==
    \A keys \in {ctrl, shift, alt} : \A j, k \in Key \cap keys : j = k

\* What the driver records: which kinds of keys are held, caps lock and prefix.
Bit == {0, 1}
State == [ctrl : Bit, shift : Bit, alt : Bit, caps : Bit, ext : Bit]

\* What it has recorded.
Recorded ==
    [ctrl |-> ctrl_status, shift |-> shift_status, alt |-> alt_status,
     caps |-> caps_lock_status, ext |-> ext_scancode]

\* What it should have recorded if d are held, caps lock is c, and all is read.
AnyOf(keys, d) == IF d \cap keys # {} THEN 1 ELSE 0

Held(d, c) ==
    [ctrl |-> AnyOf(ctrl, d), shift |-> AnyOf(shift, d), alt |-> AnyOf(alt, d),
     caps |-> c, ext |-> 0]

\* What the driver makes of a byte that it reads in state s, and prints.
Code(s, b) == IF s.ext = 1 THEN Extended(b) ELSE b

Clear(keys, code, old) == IF code - 128 \in keys THEN 0 ELSE old
Set(keys, code, old) == IF code \in keys THEN 1 ELSE old

\* The flags it has next, if the code is a break or a make code.
AfterBreak(s, code) ==
    [ctrl |-> Clear(ctrl, code, s.ctrl), shift |-> Clear(shift, code, s.shift),
     alt |-> Clear(alt, code, s.alt), caps |-> s.caps, ext |-> 0]

AfterMake(s, code) ==
    [ctrl |-> Set(ctrl, code, s.ctrl), shift |-> Set(shift, code, s.shift),
     alt |-> Set(alt, code, s.alt),
     caps |-> IF code = caps_lock_make THEN 1 - s.caps ELSE s.caps, ext |-> 0]

After(s, b) ==
    IF b = prefix THEN [s EXCEPT !.ext = 1]
    ELSE IF Code(s, b) % 256 >= 128 THEN AfterBreak(s, Code(s, b))
    ELSE AfterMake(s, Code(s, b))

\* The column of keymap that it takes, and what it prints.
Column(s, code) ==
    IF code \in Signs THEN s.shift
    ELSE IF s.shift + s.caps = 1 THEN 1 ELSE 0

Prints(s, b) ==
    IF b # prefix /\ Code(s, b) % 256 < 128 /\ Known(Code(s, b))
    THEN keymap(Code(s, b) % 256, Column(s, Code(s, b)))
    ELSE << >>

\* The bytes on the wire, with the characters each may print.
WireByte == [byte : Nat, meant : SUBSET Seq(Nat)]

\* Reading the bytes of w one by one takes the driver from s to t, and each
\* byte prints what it may.
Follows(f, w, s, t) ==
    /\ f \in [0 .. Len(w) -> State]
    /\ f[0] = s /\ f[Len(w)] = t
    /\ \A i \in 1 .. Len(w) :
           /\ f[i] = After(f[i - 1], w[i].byte)
           /\ Prints(f[i - 1], w[i].byte) \in w[i].meant

Chain(w, s, t) == \E f : Follows(f, w, s, t)

\* The inductive invariant of the keyboard: reading what is on the wire will
\* print what was meant, and end with the flags of the keys that are held.
KbdInv ==
    /\ down \subseteq Key
    /\ latest \in down \cup {0}
    /\ caps \subseteq Bit
    /\ wire \in Seq(WireByte)
    /\ Recorded \in State
    /\ \E c \in caps : Chain(wire, Recorded, Held(down, c))
    /\ TypedAsMeant

\* The driver's flags stay flags.
LEMMA AfterType ==
    ASSUME NEW s \in State, NEW b \in Nat
    PROVE  After(s, b) \in State
<1>1. ASSUME NEW code PROVE AfterBreak(s, code) \in State
  BY DEF AfterBreak, State, Bit, Clear
<1>2. ASSUME NEW code PROVE AfterMake(s, code) \in State
  BY DEF AfterMake, State, Bit, Set
<1>3. [s EXCEPT !.ext = 1] \in State
  BY DEF State, Bit
<1> QED
  BY <1>1, <1>2, <1>3 DEF After

\* A byte sent: the chain grows by the step that reading it will be.
LEMMA ChainAppend ==
    ASSUME NEW w \in Seq(WireByte), NEW s \in State, NEW t \in State,
           Chain(w, s, t), NEW b \in WireByte, Prints(t, b.byte) \in b.meant
    PROVE  /\ Append(w, b) \in Seq(WireByte)
           /\ After(t, b.byte) \in State
           /\ Chain(Append(w, b), s, After(t, b.byte))
<1> DEFINE n == Len(w)
           v == Append(w, b)
           u == After(t, b.byte)
<1>1. PICK f : Follows(f, w, s, t)
  BY DEF Chain
<1> DEFINE g == [i \in 0 .. n + 1 |-> IF i = n + 1 THEN u ELSE f[i]]
<1>2. /\ v \in Seq(WireByte) /\ Len(v) = n + 1 /\ v[n + 1] = b /\ n \in Nat
      /\ \A i \in 1 .. n : v[i] = w[i]
  OBVIOUS
<1>3. u \in State
  BY AfterType DEF WireByte
<1>4. /\ f \in [0 .. n -> State] /\ f[0] = s /\ f[n] = t
      /\ \A i \in 1 .. n : /\ f[i] = After(f[i - 1], w[i].byte)
                           /\ Prints(f[i - 1], w[i].byte) \in w[i].meant
  BY <1>1 DEF Follows
<1> HIDE DEF u, v
<1>5. g \in [0 .. n + 1 -> State] /\ g[0] = s /\ g[n + 1] = u
  BY <1>2, <1>3, <1>4
<1>6. ASSUME NEW i \in 1 .. n + 1
      PROVE  /\ g[i] = After(g[i - 1], v[i].byte)
             /\ Prints(g[i - 1], v[i].byte) \in v[i].meant
  <2>1. CASE i = n + 1
    <3>1. g[i - 1] = t /\ g[i] = u /\ v[i] = b
      BY <1>2, <1>4, <2>1
    <3> QED
      BY <3>1 DEF u
  <2>2. CASE i \in 1 .. n
    <3>1. g[i - 1] = f[i - 1] /\ g[i] = f[i] /\ v[i] = w[i]
      BY <1>2, <2>2
    <3> QED
      BY <1>4, <2>2, <3>1
  <2> QED
    BY <1>2, <2>1, <2>2
<1>7. Follows(g, v, s, u)
  <2> HIDE DEF g
  <2> QED
    BY <1>2, <1>5, <1>6 DEF Follows
<1> QED
  BY <1>2, <1>3, <1>7 DEF Chain, u, v

\* A byte read: the chain loses its first step.
LEMMA ChainTail ==
    ASSUME NEW w \in Seq(WireByte), NEW s \in State, NEW t \in State,
           Chain(w, s, t), w # << >>
    PROVE  /\ Tail(w) \in Seq(WireByte) /\ Head(w) \in WireByte
           /\ After(s, Head(w).byte) \in State
           /\ Chain(Tail(w), After(s, Head(w).byte), t)
           /\ Prints(s, Head(w).byte) \in Head(w).meant
<1> DEFINE n == Len(w)
           v == Tail(w)
<1>1. PICK f : Follows(f, w, s, t)
  BY DEF Chain
<1> DEFINE g == [i \in 0 .. n - 1 |-> f[i + 1]]
<1>2. /\ v \in Seq(WireByte) /\ Len(v) = n - 1 /\ n \in Nat /\ n > 0
      /\ Head(w) = w[1] /\ Head(w) \in WireByte
      /\ \A i \in 1 .. n - 1 : v[i] = w[i + 1]
  OBVIOUS
<1>3. After(s, Head(w).byte) \in State
  BY <1>2, AfterType DEF WireByte
<1>4. /\ f \in [0 .. n -> State] /\ f[0] = s /\ f[n] = t
      /\ \A i \in 1 .. n : /\ f[i] = After(f[i - 1], w[i].byte)
                           /\ Prints(f[i - 1], w[i].byte) \in w[i].meant
  BY <1>1 DEF Follows
<1> HIDE DEF v
<1>5. /\ f[1] = After(s, Head(w).byte)
      /\ Prints(s, Head(w).byte) \in Head(w).meant
  BY <1>2, <1>4
<1>6. g \in [0 .. n - 1 -> State] /\ g[0] = f[1] /\ g[n - 1] = t
  BY <1>2, <1>4
<1>7. ASSUME NEW i \in 1 .. n - 1
      PROVE  /\ g[i] = After(g[i - 1], v[i].byte)
             /\ Prints(g[i - 1], v[i].byte) \in v[i].meant
  <2>1. /\ g[i - 1] = f[(i + 1) - 1] /\ g[i] = f[i + 1] /\ v[i] = w[i + 1]
        /\ i + 1 \in 1 .. n
    BY <1>2
  <2> QED
    BY <1>4, <2>1
<1>8. Follows(g, v, f[1], t)
  <2> HIDE DEF g
  <2> QED
    BY <1>2, <1>6, <1>7 DEF Follows
<1> QED
  BY <1>2, <1>3, <1>5, <1>8 DEF Chain, v

\* The codes of a key, with the prefix of those that have one.
LEMMA KeyCode ==
    ASSUME NEW k \in Key
    PROVE  /\ k \in Nat /\ k % 256 \in 1 .. 95
           /\ k = IF k > 255 THEN Extended(k % 256) ELSE k % 256
           /\ (k + 128) % 256 = (k % 256) + 128
<1>1. k \in Nat /\ k \div 256 \in {0, prefix} /\ k % 256 \in 1 .. 95
  BY KeyAssumption
<1> QED
  BY <1>1 DEF Extended, prefix

\* The column the driver takes is the one that was meant.
LEMMA ColumnMeant ==
    ASSUME NEW k \in Key, NEW d, NEW c \in Bit, Known(k),
           NEW s \in State, s.shift = AnyOf(shift, d), s.caps = c
    PROVE  keymap(k % 256, Column(s, k)) = Meant(k, d, c)
<1> DEFINE shifted == d \cap shift # {}
           upper == IF k \in Letters THEN shifted # (c = 1) ELSE shifted
<1>1. /\ k \in Nat /\ k % 256 \in 1 .. 95
      /\ k = IF k > 255 THEN Extended(k % 256) ELSE k % 256
  BY KeyCode
<1>2. CASE k \notin Rows
  <2>1. k = Extended(56) \/ k = Extended(29)
    BY <1>2 DEF Known, alt_r_make, ctrl_r_make, alt_l_make, ctrl_l_make
  <2>2. k % 256 = 56 \/ k % 256 = 29
    BY <2>1 DEF Extended, prefix
  <2>3. Extended(56) % 256 = 56 /\ Extended(29) % 256 = 29
    BY DEF Extended, prefix
  <2>4. keymap(k % 256, Column(s, k)) = << >>
    BY <2>2, <2>3 DEF keymap, ctrl, alt, ctrl_r_make, alt_r_make, ctrl_l_make,
       alt_l_make
  <2> QED
    BY <1>2, <2>4 DEF Meant
<1>3. CASE k \in Rows
  <2>1. k % 256 = k /\ k \in 1 .. 58
    BY <1>1, <1>3 DEF Rows, caps_lock_make
  <2>2. Meant(k, d, c) = keymap(k, IF upper THEN 1 ELSE 0)
    BY <1>3 DEF Meant
  <2>3. s.shift = IF shifted THEN 1 ELSE 0
    BY DEF AnyOf
  <2>4. CASE k \in Letters
    <3>1. k \notin Signs
      BY <2>4 DEF Letters, Signs
    <3>2. Column(s, k) = IF upper THEN 1 ELSE 0
      BY <2>3, <2>4, <3>1 DEF Column, Bit
    <3> QED
      BY <2>1, <2>2, <3>2
  <2>5. CASE k \in Signs
    <3>1. k \notin Letters
      BY <2>5 DEF Letters, Signs
    <3>2. Column(s, k) = IF upper THEN 1 ELSE 0
      BY <2>3, <2>5, <3>1 DEF Column
    <3> QED
      BY <2>1, <2>2, <3>2
  <2>6. CASE k \notin Letters \cup Signs
    <3>1. k \in OneColumn \cup {29, 42, 54, 56, 58}
      BY <2>1, <2>6 DEF Letters, Signs, OneColumn
    <3>2. \A i, j : keymap(k, i) = keymap(k, j)
      <4>1. CASE k \in OneColumn
        BY <4>1 DEF keymap
      <4>2. CASE k \in {29, 42, 54, 56, 58}
        <5>1. k \in {m % 256 : m \in ctrl \cup shift \cup alt} \cup {caps_lock_make}
          BY <4>2, <2>1 DEF ctrl, shift, alt, ctrl_l_make, shift_l_make,
             shift_r_make, alt_l_make, caps_lock_make
        <5> QED
          BY <5>1 DEF keymap
      <4> QED
        BY <3>1, <4>1, <4>2
    <3> QED
      BY <2>1, <2>2, <3>2
  <2> QED
    BY <2>4, <2>5, <2>6
<1> QED
  BY <1>2, <1>3

\* What the driver has recorded when it has read all before the code of k: the
\* prefix, if k has one.
Prefixed(h, k) == [h EXCEPT !.ext = IF k > 255 THEN 1 ELSE 0]
Ready(d, c, k) == Prefixed(Held(d, c), k)

\* Its parts, one by one.
LEMMA ReadyType ==
    ASSUME NEW d, NEW c \in Bit, NEW k
    PROVE  /\ Held(d, c) \in State
           /\ Held(d, c).ext = 0
           /\ LET s == Ready(d, c, k) IN
              /\ s \in State /\ s.ext = (IF k > 255 THEN 1 ELSE 0)
              /\ s.ctrl = AnyOf(ctrl, d) /\ s.shift = AnyOf(shift, d)
              /\ s.alt = AnyOf(alt, d) /\ s.caps = c
<1>1. AnyOf(ctrl, d) \in Bit /\ AnyOf(shift, d) \in Bit /\ AnyOf(alt, d) \in Bit
  BY DEF AnyOf, Bit
<1> QED
  BY <1>1 DEF Ready, Prefixed, Held, State, Bit

\* What key k makes of caps lock.
Flipped(k, c) == IF k = caps_lock_make THEN 1 - c ELSE c

\* The bytes of a key that goes down.
LEMMA MakeEffect ==
    ASSUME NEW k \in Key, NEW d, NEW c \in Bit
    PROVE  LET e == Flipped(k, c) IN
           /\ e \in Bit
           /\ After(Ready(d, c, k), k % 256) = Held(d \cup {k}, e)
           /\ Prints(Ready(d, c, k), k % 256) = Meant(k, d \cup {k}, e)
<1> DEFINE e == Flipped(k, c)
<1>f. e \in Bit
  BY DEF Flipped, Bit
<1> DEFINE s == Ready(d, c, k)
<1>0. /\ s \in State /\ s.ext = (IF k > 255 THEN 1 ELSE 0)
      /\ s.ctrl = AnyOf(ctrl, d) /\ s.shift = AnyOf(shift, d)
      /\ s.alt = AnyOf(alt, d) /\ s.caps = c
  BY ReadyType DEF Bit
<1> HIDE DEF s
<1>1. /\ k \in Nat /\ k % 256 \in 1 .. 95
      /\ k = IF k > 255 THEN Extended(k % 256) ELSE k % 256
  BY KeyCode
<1>2. Code(s, k % 256) = k
  BY <1>0, <1>1 DEF Code
<1>3. k % 256 # prefix /\ k % 256 < 128
  BY <1>1 DEF prefix
<1>4. After(s, k % 256) = AfterMake(s, k)
  BY <1>1, <1>2, <1>3 DEF After
<1>5. ASSUME NEW keys PROVE Set(keys, k, AnyOf(keys, d)) = AnyOf(keys, d \cup {k})
  BY DEF Set, AnyOf
<1>6. (IF k = caps_lock_make THEN 1 - s.caps ELSE s.caps) = e
  BY <1>0 DEF Flipped
<1> HIDE DEF e
<1>7. AfterMake(s, k) = Held(d \cup {k}, e)
  BY <1>0, <1>5, <1>6 DEF AfterMake, Held
<1>8. ASSUME ~ Known(k)
      PROVE  /\ After(s, k % 256) = Held(d \cup {k}, e)
             /\ Prints(s, k % 256) = Meant(k, d \cup {k}, e)
  <2>1. k \notin Rows
    BY <1>8 DEF Known
  <2> QED
    BY <1>2, <1>4, <1>7, <1>8, <2>1 DEF Prints, Meant
<1>9. ASSUME Known(k)
      PROVE  /\ After(s, k % 256) = Held(d \cup {k}, e)
             /\ Prints(s, k % 256) = Meant(k, d \cup {k}, e)
  <2>1. Prints(s, k % 256) = Meant(k, d, c)
    BY <1>0, <1>2, <1>3, <1>9, ColumnMeant DEF Prints
  <2>2. Meant(k, d, c) = Meant(k, d \cup {k}, e)
    <3>1. CASE k \in shift \cup {caps_lock_make}
      <4>1. k % 256 = k /\ k \in {42, 54, 58}
        BY <1>1, <3>1 DEF shift, shift_l_make, shift_r_make, caps_lock_make
      <4>2. k \in {m % 256 : m \in ctrl \cup shift \cup alt} \cup {caps_lock_make}
        BY <3>1, <4>1
      <4>3. \A i : keymap(k, i) = << >>
        BY <4>2 DEF keymap
      <4> QED
        BY <4>3 DEF Meant
    <3>2. CASE k \notin shift \cup {caps_lock_make}
      <4>1. (d \cup {k}) \cap shift = d \cap shift
        BY <3>2
      <4>2. e = c
        BY <3>2 DEF e, Flipped
      <4>3. Meant(k, d, c) = Meant(k, d \cup {k}, c)
        BY <4>1, Zenon DEF Meant
      <4> QED
        BY <4>2, <4>3, Zenon
    <3> QED
      BY <3>1, <3>2
  <2> QED
    BY <1>4, <1>7, <2>1, <2>2
<1> QED
  BY <1>f, <1>8, <1>9 DEF s, e

\* The bytes of a key that goes up, if it is the only one of its kind.
LEMMA BreakEffect ==
    ASSUME OneKeyEach, NEW d \in SUBSET Key, NEW k \in d, NEW c \in Bit
    PROVE  /\ After(Ready(d, c, k), (k % 256) + 128) = Held(d \ {k}, c)
           /\ Prints(Ready(d, c, k), (k % 256) + 128) = << >>
<1> DEFINE s == Ready(d, c, k)
<1>0. /\ s \in State /\ s.ext = (IF k > 255 THEN 1 ELSE 0)
      /\ s.ctrl = AnyOf(ctrl, d) /\ s.shift = AnyOf(shift, d)
      /\ s.alt = AnyOf(alt, d) /\ s.caps = c
  BY ReadyType DEF Bit
<1> HIDE DEF s
<1>1. /\ k \in Nat /\ k % 256 \in 1 .. 95
      /\ k = IF k > 255 THEN Extended(k % 256) ELSE k % 256
      /\ (k + 128) % 256 = (k % 256) + 128
  BY KeyCode
<1>2. Code(s, (k % 256) + 128) = k + 128
  BY <1>0, <1>1 DEF Code, Extended, prefix
<1>3. (k % 256) + 128 # prefix /\ (k % 256) + 128 >= 128
  BY <1>1 DEF prefix
<1>4. After(s, (k % 256) + 128) = AfterBreak(s, k + 128)
  BY <1>1, <1>2, <1>3 DEF After
<1>5. ASSUME NEW keys \in {ctrl, shift, alt}
      PROVE  Clear(keys, k + 128, AnyOf(keys, d)) = AnyOf(keys, d \ {k})
  <2>1. (k + 128) - 128 = k
    BY <1>1
  <2>2. CASE k \in keys
    <3>1. \A j \in d \cap keys : j = k
      BY <2>2, Zenon DEF OneKeyEach
    <3> QED
      BY <2>1, <2>2, <3>1 DEF Clear, AnyOf
  <2>3. CASE k \notin keys
    BY <2>1, <2>3 DEF Clear, AnyOf
  <2> QED
    BY <2>2, <2>3
<1>6. AfterBreak(s, k + 128) = Held(d \ {k}, c)
  BY <1>0, <1>5 DEF AfterBreak, Held
<1>7. Prints(s, (k % 256) + 128) = << >>
  BY <1>1, <1>2, <1>3 DEF Prints
<1> QED
  BY <1>4, <1>6, <1>7 DEF s

\* What a byte and a key do to the chain of what is still to be read.
LEMMA ByteSent ==
    ASSUME NEW w \in Seq(WireByte), NEW s \in State, NEW t \in State,
           Chain(w, s, t), NEW b \in 0 .. 255, NEW m \in SUBSET Seq(Nat),
           Prints(t, b) \in m
    PROVE  /\ Append(w, Byte(b, m)) \in Seq(WireByte)
           /\ After(t, b) \in State
           /\ Chain(Append(w, Byte(b, m)), s, After(t, b))
<1>1. /\ Byte(b, m) \in WireByte /\ Byte(b, m).byte = b
      /\ Byte(b, m).meant = m
  <2>1. b \in Nat
    OBVIOUS
  <2>2. Byte(b, m) \in WireByte
    BY <2>1, Zenon DEF Byte, WireByte
  <2> QED
    BY <2>2 DEF Byte
<1> QED
  BY <1>1, ChainAppend

\* The prefix, if the key has one, and its code or the code of its break.
LEMMA BytesSent ==
    ASSUME NEW w \in Seq(WireByte), NEW s \in State,
           NEW h \in State, h.ext = 0, Chain(w, s, h),
           NEW k, NEW b \in 0 .. 255, NEW m \in SUBSET Seq(Nat),
           Prints(Prefixed(h, k), b) \in m
    PROVE  /\ w \o Bytes(k, b, m) \in Seq(WireByte)
           /\ Chain(w \o Bytes(k, b, m), s, After(Prefixed(h, k), b))
<1> DEFINE t == Prefixed(h, k)
           p == Byte(prefix, {<< >>})
           e == Byte(b, m)
<1>1. t \in State
  BY DEF Prefixed, State, Bit
<1>2. p \in WireByte /\ e \in WireByte
  <2>1. {<< >>} \in SUBSET Seq(Nat)
    BY EmptySeq
  <2>2. prefix \in Nat /\ b \in Nat
    BY DEF prefix
  <2> QED
    BY <2>1, <2>2, Zenon DEF Byte, WireByte
<1>3. CASE k > 255
  <2>1. After(h, prefix) = t /\ Prints(h, prefix) \in {<< >>}
    BY <1>3 DEF After, Prints, Prefixed, State
  <2>2. {<< >>} \in SUBSET Seq(Nat)
    BY EmptySeq
  <2>3. prefix \in 0 .. 255
    BY DEF prefix
  <2>4. /\ Append(w, p) \in Seq(WireByte)
        /\ Chain(Append(w, p), s, t)
    <3> HIDE DEF t
    <3>1. /\ Append(w, Byte(prefix, {<< >>})) \in Seq(WireByte)
          /\ Chain(Append(w, Byte(prefix, {<< >>})), s, After(h, prefix))
      BY <1>1, <2>1, <2>2, <2>3, ByteSent
    <3> QED
      BY <2>1, <3>1
  <2>5. /\ Append(Append(w, p), e) \in Seq(WireByte)
        /\ Chain(Append(Append(w, p), e), s, After(t, b))
    <3> HIDE DEF p
    <3> QED
      BY <1>1, <2>4, ByteSent
  <2>6. Bytes(k, b, m) = << p >> \o << e >>
    BY <1>3 DEF Bytes
  <2>7. w \o (<< p >> \o << e >>) = Append(Append(w, p), e)
    <3> HIDE DEF p, e
    <3> QED
      BY <1>2
  <2> QED
    BY <2>5, <2>6, <2>7
<1>4. CASE ~ k > 255
  <2>1. t = h
    BY <1>1, <1>4 DEF State, Prefixed
  <2>2. /\ Append(w, e) \in Seq(WireByte)
        /\ Chain(Append(w, e), s, After(t, b))
    BY <1>1, <2>1, ByteSent
  <2>3. Bytes(k, b, m) = << >> \o << e >>
    BY <1>4 DEF Bytes
  <2>4. w \o (<< >> \o << e >>) = Append(w, e)
    <3> HIDE DEF e
    <3>1. << >> \o << e >> = << e >>
      <4>1. << e >> \in Seq(WireByte)
        BY <1>2
      <4> QED
        BY <4>1, ConcatEmptySeq
    <3> QED
      BY <1>2, <3>1
  <2> QED
    BY <2>2, <2>3, <2>4
<1> QED
  BY <1>3, <1>4

\* What is meant is no or one character.
LEMMA MeantType ==
    ASSUME NEW k \in Nat, NEW d, NEW c PROVE Meant(k, d, c) \in Seq(Nat)
<1>1. ASSUME NEW i \in {0, 1} PROVE keymap(k, i) \in Seq(Nat)
  <2>1. << k, 0 >> \in Seq(Nat) /\ << k, i >> \in Seq(Nat)
    OBVIOUS
  <2> QED
    BY <2>1, EmptySeq DEF keymap
<1> QED
  BY <1>1, EmptySeq DEF Meant

\* A key goes down, or is down and repeats.
LEMMA MakeStep ==
    ASSUME KbdInv, NEW k \in Key,
           down' = down \cup {k},
           \A c \in caps : Flipped(k, c) \in caps',
           Send(make(k))
    PROVE  /\ wire' \in Seq(WireByte) /\ Recorded' = Recorded
           /\ \E c \in caps' : Chain(wire', Recorded', Held(down', c))
<1> DEFINE m == {Meant(k, down', c) : c \in caps'}
           b == k % 256
<1>1. /\ wire \in Seq(WireByte) /\ Recorded \in State
      /\ down' = down \cup {k}
  BY DEF KbdInv
<1> PICK c \in Bit : c \in caps /\ Chain(wire, Recorded, Held(down, c))
  BY DEF KbdInv
<1> DEFINE e == Flipped(k, c)
<1>2. m \in SUBSET Seq(Nat)
  BY KeyCode, MeantType
<1>3. b \in 0 .. 255
  BY KeyCode
<1>4. /\ After(Ready(down, c, k), b) = Held(down', e)
      /\ Prints(Ready(down, c, k), b) \in m
  <2>1. /\ After(Ready(down, c, k), k % 256) = Held(down \cup {k}, e)
        /\ Prints(Ready(down, c, k), k % 256) = Meant(k, down \cup {k}, e)
    BY MakeEffect
  <2>2. e \in caps'
    OBVIOUS
  <2> HIDE DEF e
  <2> QED
    BY <1>1, <2>1, <2>2
<1>5. wire' = wire \o Bytes(k, b, m) /\ Recorded' = Recorded
  BY DEF Send, make, flags, Recorded
<1>6. e \in caps'
  OBVIOUS
<1> HIDE DEF m, b, e
<1>7. /\ wire \o Bytes(k, b, m) \in Seq(WireByte)
      /\ Chain(wire \o Bytes(k, b, m), Recorded, After(Ready(down, c, k), b))
  <2> DEFINE h == Held(down, c)
  <2>1. h \in State /\ h.ext = 0
    BY ReadyType
  <2>2. Chain(wire, Recorded, h)
    OBVIOUS
  <2>3. Prints(Prefixed(h, k), b) \in m
    BY <1>4 DEF Ready
  <2> HIDE DEF h
  <2>4. /\ wire \o Bytes(k, b, m) \in Seq(WireByte)
        /\ Chain(wire \o Bytes(k, b, m), Recorded, After(Prefixed(h, k), b))
    BY <1>1, <1>2, <1>3, <2>1, <2>2, <2>3, BytesSent
  <2> QED
    BY <2>4 DEF h, Ready
<1> QED
  BY <1>4, <1>5, <1>6, <1>7

\* A key goes up.
LEMMA BreakStep ==
    ASSUME KbdInv, OneKeyEach, NEW k \in Key, release(k)
    PROVE  /\ wire' \in Seq(WireByte) /\ Recorded' = Recorded
           /\ \E c \in caps' : Chain(wire', Recorded', Held(down', c))
<1> DEFINE b == (k % 256) + 128
<1>1. wire \in Seq(WireByte) /\ Recorded \in State /\ down \in SUBSET Key
  BY DEF KbdInv
<1> PICK c \in Bit : c \in caps /\ Chain(wire, Recorded, Held(down, c))
  BY DEF KbdInv
<1>2. {<< >>} \in SUBSET Seq(Nat)
  BY EmptySeq
<1>3. b \in 0 .. 255
  BY KeyCode
<1>4. k \in down /\ down' = down \ {k} /\ caps' = caps
  BY DEF release
<1>5. /\ After(Ready(down, c, k), b) = Held(down', c)
      /\ Prints(Ready(down, c, k), b) = << >>
  BY <1>1, <1>4, BreakEffect
<1>6. wire' = wire \o Bytes(k, b, {<< >>}) /\ Recorded' = Recorded
  BY DEF release, Send, break, flags, Recorded
<1> HIDE DEF b
<1>7. /\ wire \o Bytes(k, b, {<< >>}) \in Seq(WireByte)
      /\ Chain(wire \o Bytes(k, b, {<< >>}), Recorded,
               After(Ready(down, c, k), b))
  <2> DEFINE h == Held(down, c)
  <2>1. h \in State /\ h.ext = 0
    BY ReadyType
  <2>2. Chain(wire, Recorded, h)
    OBVIOUS
  <2>3. Prints(Prefixed(h, k), b) \in {<< >>}
    BY <1>5 DEF Ready
  <2> HIDE DEF h
  <2>4. /\ wire \o Bytes(k, b, {<< >>}) \in Seq(WireByte)
        /\ Chain(wire \o Bytes(k, b, {<< >>}), Recorded,
                 After(Prefixed(h, k), b))
    BY <1>1, <1>2, <1>3, <2>1, <2>2, <2>3, BytesSent
  <2> QED
    BY <2>4 DEF h, Ready
<1> QED
  BY <1>4, <1>5, <1>6, <1>7

\* The handler does what After and Prints say.
LEMMA HandlerStep ==
    ASSUME KbdInv, intr_keyboard_handler
    PROVE  /\ wire # << >> /\ wire' = Tail(wire)
           /\ Recorded' = After(Recorded, Head(wire).byte)
           /\ typed' = [got |-> Prints(Recorded, Head(wire).byte),
                        meant |-> Head(wire).meant]
           /\ UNCHANGED << down, latest, caps >>
<1> DEFINE b == Head(wire).byte
<1>1. /\ wire # << >> /\ wire' = Tail(wire)
      /\ UNCHANGED << down, latest, caps >>
  BY DEF intr_keyboard_handler, read_prefix, break_code, make_code, Read
<1>2. scancode = Code(Recorded, b) /\ scancode \in Nat
  <2>1. b \in Nat
    <3>1. wire \in Seq(WireByte)
      BY DEF KbdInv
    <3>2. Head(wire) \in WireByte
      BY <1>1, <3>1
    <3> QED
      BY <3>2 DEF WireByte
  <2> QED
    BY <2>1 DEF scancode, Code, Recorded, Extended, prefix
<1>3. CASE read_prefix
  <2>1. Recorded' = [Recorded EXCEPT !.ext = 1]
    BY <1>3 DEF read_prefix, Recorded, flags
  <2> QED
    BY <1>1, <1>3, <2>1 DEF read_prefix, Read, After, Prints
<1>4. CASE break_code
  <2>1. Recorded' = AfterBreak(Recorded, scancode)
    BY <1>4 DEF break_code, prefix_used, Recorded, AfterBreak, cleared, Clear
  <2>2. b # prefix /\ scancode % 256 >= 128 /\ ~ scancode % 256 < 128
    BY <1>2, <1>4 DEF break_code, is_break
  <2>3. typed' = [got |-> << >>, meant |-> Head(wire).meant]
    BY <1>4 DEF break_code, Read
  <2> QED
    BY <1>1, <1>2, <2>1, <2>2, <2>3 DEF After, Prints
<1>5. CASE make_code
  <2>1. Recorded' = AfterMake(Recorded, scancode)
    BY <1>5 DEF make_code, prefix_used, Recorded, AfterMake, recorded, Set,
                toggled
  <2>2. b # prefix /\ ~ scancode % 256 >= 128 /\ scancode % 256 < 128
    BY <1>2, <1>5 DEF make_code, is_break
  <2>3. typed' = [got |-> IF Known(scancode)
                          THEN keymap(scancode % 256, column(scancode))
                          ELSE << >>,
                  meant |-> Head(wire).meant]
    BY <1>5 DEF make_code, Read
  <2>4. column(scancode) = Column(Recorded, scancode)
    BY DEF column, Column, Recorded
  <2> QED
    BY <1>1, <1>2, <2>1, <2>2, <2>3, <2>4 DEF After, Prints
<1> QED
  BY <1>3, <1>4, <1>5 DEF intr_keyboard_handler

\* The invariant when nothing is held.
LEMMA KbdInvInit == KbdInit => KbdInv
<1> SUFFICES ASSUME KbdInit PROVE KbdInv
  OBVIOUS
<1>1. Recorded = Held({}, 0) /\ Recorded \in State
  BY DEF KbdInit, Recorded, Held, AnyOf, State, Bit
<1>2. wire = << >> /\ wire \in Seq(WireByte) /\ Len(wire) = 0
  BY EmptySeq DEF KbdInit
<1>3. Follows([i \in 0 .. 0 |-> Recorded], wire, Recorded, Recorded)
  <2>0. 0 \in 0 .. 0
    OBVIOUS
  <2> DEFINE f == [i \in 0 .. 0 |-> Recorded]
  <2>1. f \in [0 .. 0 -> State] /\ f[0] = Recorded
    BY <1>1, <2>0, Zenon
  <2>2. \A i \in 1 .. 0 : FALSE
    OBVIOUS
  <2> HIDE DEF f
  <2>3. Follows(f, wire, Recorded, Recorded)
    BY <1>2, <2>1, <2>2 DEF Follows
  <2> QED
    BY <2>3 DEF f
<1>4. Chain(wire, Recorded, Held(down, 0))
  BY <1>1, <1>3 DEF Chain, KbdInit
<1> QED
  BY <1>1, <1>2, <1>4 DEF KbdInv, KbdInit, TypedAsMeant, Bit

\* Each step keeps the invariant.
LEMMA KbdInvStep ==
    ASSUME OneKeyEach, KbdInv, [KbdNext]_kbdVars
    PROVE  KbdInv'
<1>1. ASSUME NEW k \in Key, press(k) PROVE KbdInv'
  <2>1. /\ down' = down \cup {k} /\ latest' = k /\ Send(make(k))
        /\ caps' = IF k = caps_lock_make THEN {1 - c : c \in caps} ELSE caps
    BY <1>1 DEF press
  <2>2. caps' \subseteq Bit /\ \A c \in caps : Flipped(k, c) \in caps'
    <3>1. CASE k = caps_lock_make
      <4>1. caps' = {1 - c : c \in caps} /\ caps \subseteq {0, 1}
        BY <2>1, <3>1 DEF KbdInv, Bit
      <4>2. \A c \in caps : 1 - c \in {0, 1} /\ Flipped(k, c) = 1 - c
        BY <3>1, <4>1 DEF Flipped
      <4> QED
        BY <4>1, <4>2, Zenon DEF Bit
    <3>2. CASE k # caps_lock_make
      BY <2>1, <3>2 DEF KbdInv, Flipped
    <3> QED
      BY <3>1, <3>2
  <2>3. /\ wire' \in Seq(WireByte) /\ Recorded' = Recorded
        /\ \E c \in caps' : Chain(wire', Recorded', Held(down', c))
    BY <2>1, <2>2, MakeStep
  <2>4. typed' = typed
    BY <2>1 DEF Send
  <2> QED
    BY <2>1, <2>2, <2>3, <2>4 DEF KbdInv, TypedAsMeant
<1>2. ASSUME NEW k \in Key, repeat(k) PROVE KbdInv'
  <2>1. k # 0 /\ k \in down
    <3>1. k \in Nat /\ k % 256 \in 1 .. 95
      BY KeyCode
    <3> QED
      BY <1>2, <3>1 DEF repeat, KbdInv
  <2>2. /\ UNCHANGED << down, latest >> /\ Send(make(k))
        /\ caps' = IF k = caps_lock_make THEN {0, 1} ELSE caps
    BY <1>2 DEF repeat
  <2>3. /\ down' = down \cup {k}
        /\ caps' \subseteq Bit /\ \A c \in caps : Flipped(k, c) \in caps'
    BY <2>1, <2>2 DEF KbdInv, Flipped, Bit
  <2>4. /\ wire' \in Seq(WireByte) /\ Recorded' = Recorded
        /\ \E c \in caps' : Chain(wire', Recorded', Held(down', c))
    BY <2>2, <2>3, MakeStep
  <2>5. typed' = typed
    BY <2>2 DEF Send
  <2> QED
    BY <2>2, <2>3, <2>4, <2>5 DEF KbdInv, TypedAsMeant
<1>3. ASSUME NEW k \in Key, release(k) PROVE KbdInv'
  <2>1. /\ wire' \in Seq(WireByte) /\ Recorded' = Recorded
        /\ \E c \in caps' : Chain(wire', Recorded', Held(down', c))
    BY <1>3, BreakStep
  <2>2. /\ down' = down \ {k} /\ caps' = caps /\ typed' = typed
        /\ latest' = IF k = latest THEN 0 ELSE latest
    BY <1>3 DEF release, Send
  <2> QED
    BY <2>1, <2>2 DEF KbdInv, TypedAsMeant
<1>4. CASE intr_keyboard_handler
  <2>1. /\ wire # << >> /\ wire' = Tail(wire)
        /\ Recorded' = After(Recorded, Head(wire).byte)
        /\ typed' = [got |-> Prints(Recorded, Head(wire).byte),
                     meant |-> Head(wire).meant]
        /\ UNCHANGED << down, latest, caps >>
    BY <1>4, HandlerStep
  <2> PICK c \in Bit : c \in caps /\ Chain(wire, Recorded, Held(down, c))
    BY DEF KbdInv
  <2>2. /\ Tail(wire) \in Seq(WireByte)
        /\ After(Recorded, Head(wire).byte) \in State
        /\ Chain(Tail(wire), After(Recorded, Head(wire).byte), Held(down, c))
        /\ Prints(Recorded, Head(wire).byte) \in Head(wire).meant
    BY <2>1, ReadyType, ChainTail DEF KbdInv
  <2>3. c \in caps' /\ Chain(wire', Recorded', Held(down', c))
    BY <2>1, <2>2
  <2> QED
    BY <2>1, <2>2, <2>3 DEF KbdInv, TypedAsMeant
<1>5. CASE UNCHANGED kbdVars
  <2>1. /\ UNCHANGED << down, latest, caps, wire, typed >>
        /\ Recorded' = Recorded
    BY <1>5 DEF kbdVars, flags, Recorded
  <2>2. \E c \in caps' : Chain(wire', Recorded', Held(down', c))
    BY <2>1 DEF KbdInv
  <2> QED
    BY <2>1, <2>2 DEF KbdInv, TypedAsMeant
<1> QED
  BY <1>1, <1>2, <1>3, <1>4, <1>5 DEF KbdNext

\* Whatever is pressed, repeated and released before the bytes are read: each key
\* prints the character of the keys held with it.
THEOREM KeysTypedAsMeant ==
    ASSUME OneKeyEach
    PROVE  KbdSpec => []TypedAsMeant
<1>1. KbdInv => TypedAsMeant
  BY DEF KbdInv
<1>2. KbdInv /\ [KbdNext]_kbdVars => KbdInv'
  BY KbdInvStep
<1> QED
  BY <1>1, <1>2, KbdInvInit, PTL DEF KbdSpec

\* Whatever was pressed and released: once all bytes are read the driver knows
\* which control keys are held.
THEOREM FlagsFollow ==
    ASSUME OneKeyEach
    PROVE  KbdSpec => []FlagsFollowKeys
<1>1. KbdInv => FlagsFollowKeys
  <2> SUFFICES ASSUME KbdInv, wire = << >>
               PROVE  /\ ctrl_status = 1 <=> down \cap ctrl # {}
                      /\ shift_status = 1 <=> down \cap shift # {}
                      /\ alt_status = 1 <=> down \cap alt # {}
    BY DEF FlagsFollowKeys
  <2>1. PICK c \in caps : Chain(wire, Recorded, Held(down, c))
    BY DEF KbdInv
  <2>2. Recorded = Held(down, c)
    <3>1. PICK f : Follows(f, wire, Recorded, Held(down, c))
      BY <2>1 DEF Chain
    <3> QED BY <3>1, EmptySeq DEF Follows
  <2>3. /\ Recorded.ctrl = ctrl_status /\ Recorded.shift = shift_status
        /\ Recorded.alt = alt_status
    BY DEF Recorded
  <2> QED
    BY <2>2, <2>3 DEF Held, AnyOf
<1>2. KbdInv /\ [KbdNext]_kbdVars => KbdInv'
  BY KbdInvStep
<1> QED
  BY <1>1, <1>2, KbdInvInit, PTL DEF KbdSpec

=============================================================================

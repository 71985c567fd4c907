--------------------------- MODULE ExceptionsProof ---------------------------
(***************************************************************************)
(* For every set of threads: an exception is not seen by the program it    *)
(* interrupts, and the single-stepper gets and keeps the right registers.  *)
(*                                                                         *)
(* Transparent and Parked speak of a program that runs, or is about to be  *)
(* parked.  The invariant says where a program's registers are from the    *)
(* exception to the return: in the banked registers, in the general ones   *)
(* until the vector has saved them, then on the exception stack.           *)
(***************************************************************************)
EXTENDS Exceptions, TLAPS

Stages == {"work", "pushed", "called"}

\* The I bit that p runs with.
Mask(p) == p \in Threads \/ want

\* What the return address is off by when the exception is taken, and in the frame.
Ahead(e) == IF e = "swi" THEN 0 ELSE IF e = "dabt" THEN 8 ELSE 4
AheadSaved(e) == IF e = "dabt" THEN 8 ELSE 0

\* The program that the processor is with.
Runner == IF at = "restore" /\ exc = "pabt" THEN gpr["r0"].of ELSE pc.of

\* registers are p's, but for those that a system call may have changed.
Seen(p, registers) == \A x \in GPR \ spoiled[p] : registers[x] = own[p].r[x]

\* And so are the stack and link registers of p's mode.
Banked(p) ==
  /\ sp[ModeOf(p)] = p
  /\ "lr" \in spoiled[p] \/ lr[ModeOf(p)] = own[p].lr

\* A system call from supervisor mode has returned onto the exception stack.
Lost == at = "program" /\ pc.of = Main /\ pc.stage = "called" /\ table = "normal"

RegisterFile(f) == f = [x \in GPR |-> f[x]]

Context(c) == c = [pc |-> c.pc, sp |-> c.sp, lr |-> c.lr, r |-> c.r] /\ RegisterFile(c.r)

OwnShape == own = [q \in Programs |-> own[q]] /\ \A q \in Programs : Context(own[q])

ShapeInv ==
  /\ RegisterFile(gpr)
  /\ lr = [b \in Banks |-> lr[b]] /\ sp = [b \in Banks |-> sp[b]]
  /\ spsr = [b \in Banks \ {"usr"} |-> spsr[b]]
  /\ mem = [r |-> mem.r, lr |-> mem.lr, sys |-> mem.sys] /\ RegisterFile(mem.r)
  /\ threads = [t \in Threads |-> threads[t]] /\ \A t \in Threads : Context(threads[t])
  /\ OwnShape
  /\ pushed = [q \in Programs |-> pushed[q]]
  /\ spoiled \in [Programs -> SUBSET (GPR \cup {"lr"})]
  /\ at \in {"program", "save", "handler", "restore", "plus1"}
  /\ exc \in {"none", "irq", "dabt", "pabt", "swi"}
  /\ pc.of \in Programs

\* What the programs should see: an own stack, and what a system call pushed.
OwnInv ==
  /\ \A q \in Programs :
       /\ own[q].sp = q
       /\ own[q].pc = [of |-> q, stage |-> own[q].pc.stage, n |-> own[q].pc.n, off |-> 0]
       /\ own[q].pc.stage \in Stages
       /\ own[q].pc.stage # "work" => pushed[q] = own[q].lr
       /\ "lr" \in spoiled[q] => q = Main /\ own[q].pc.stage = "called"
  /\ pc.of = Main => \A t \in Threads : own[t] = Fresh(t) /\ threads[t] = Fresh(t)

\* A program runs with its registers.
ProgramInv ==
  /\ at = "program" /\ ~Lost =>
       /\ mode = ModeOf(pc.of) /\ masked = Mask(pc.of) /\ pc = own[pc.of].pc
       /\ Banked(pc.of) /\ Seen(pc.of, gpr)
  /\ Lost => mode = "svc" /\ sp["svc"] = None

\* During an exception spsr has its mode and I bit, and its bank its stack, unless
\* it is supervisor mode's and the exception a system call.
TakenInv ==
  at # "program" =>
    /\ exc # "none" /\ mode = Bank[exc]
    /\ spsr[mode] = [mode |-> ModeOf(pc.of), masked |-> Mask(pc.of)]
    /\ pc.of \in Threads \/ exc # "swi" \/ at \in {"save", "plus1"} => Banked(pc.of)
    /\ pc.of = Main /\ exc = "swi" /\ at \in {"handler", "restore"} => sp["svc"] = None
    /\ pc.of = Main /\ exc # "swi" => own[Main].pc.stage # "called" \/ table # "normal"
    /\ exc = "swi" =>
         /\ own[pc.of].pc.stage = "called" /\ "r0" \in spoiled[pc.of]
         /\ pc.of = Main => "lr" \in spoiled[pc.of]
         /\ at # "plus1" => table = "normal" /\ "r1" \in spoiled[pc.of]
    /\ at = "plus1" => exc = "swi" /\ table # "normal"

\* Until it is saved the rest is in the processor; then it is in the frame.
FrameInv ==
  /\ at \in {"save", "plus1"} =>
       Seen(pc.of, gpr) /\ lr[mode] = Plus(own[pc.of].pc, Ahead(exc))
  /\ at \in {"handler", "restore"} /\ exc # "pabt" =>
       /\ mem.lr = Plus(own[pc.of].pc, AheadSaved(exc))
       /\ \A x \in GPR \ spoiled[pc.of] :
            exc # "swi" \/ x \in {"r4", "r12"} => mem.r[x] = own[pc.of].r[x]
  /\ at = "handler" /\ exc = "pabt" =>
       /\ gpr["r0"] = own[pc.of].pc /\ mem.sys = <<sp["usr"], lr["usr"]>>
       /\ Seen(pc.of, mem.r)
  /\ at = "restore" /\ exc = "pabt" =>
       /\ Runner \in Programs /\ (Runner = Main <=> pc.of = Main)
       /\ gpr["r0"] = own[Runner].pc /\ Seen(Runner, mem.r)
       /\ Runner \in Threads => mem.sys[1] = Runner
                                /\ ("lr" \in spoiled[Runner] \/ mem.sys[2] = own[Runner].lr)

ParkedInv == \A t \in Threads \ {Runner} : Sees(t, threads[t])

Inv == ShapeInv /\ OwnInv /\ ProgramInv /\ TakenInv /\ FrameInv /\ ParkedInv

-----------------------------------------------------------------------------
(* Helpers.                                                                *)

\* Modes and banks.
LEMMA Modes ==
  ASSUME NEW p \in Programs
  PROVE  /\ ModeOf(p) \in {"svc", "usr"} /\ ModeOf(p) \in Banks
         /\ p = Main <=> ModeOf(p) = "svc"
         /\ p \in Threads <=> ModeOf(p) = "usr"
         /\ p \in Threads <=> p # Main
         /\ p # None
BY ProgramsAssumption DEF ModeOf, Programs, Banks

\* The mode of an exception, which is the program's own only in a system call of Main.
LEMMA Taking ==
  ASSUME NEW e \in {"irq", "dabt", "pabt", "swi"}, NEW p \in Programs
  PROVE  /\ Bank[e] \in Banks \ {"usr"}
         /\ Bank[e] = ModeOf(p) <=> e = "swi" /\ p = Main
BY Modes DEF Bank, Banks

\* What is taken off is what had been added.
LEMMA Offsets ==
  ASSUME NEW of, NEW stage, NEW n
  PROVE  LET a(j) == [of |-> of, stage |-> stage, n |-> n, off |-> j]
         IN /\ Plus(a(0), 0) = a(0)
            /\ Plus(Plus(a(0), 4), -4) = a(0)
            /\ Plus(Plus(a(0), 8), -8) = a(0)
<1> DEFINE a(j) == [of |-> of, stage |-> stage, n |-> n, off |-> j]
<1>1. \A j, k \in Int : Plus(a(j), k) = a(j + k)
  BY DEF Plus
<1>2. 0 + 0 = 0 /\ 0 + 4 = 4 /\ 4 + (-4) = 0 /\ 0 + 8 = 8 /\ 8 + (-8) = 0 /\ -4 \in Int /\ -8 \in Int
  OBVIOUS
<1> HIDE DEF a
<1>3. Plus(a(0), 0) = a(0) /\ Plus(a(0), 4) = a(4) /\ Plus(a(0), 8) = a(8)
  BY <1>1, <1>2
<1>4. Plus(a(4), -4) = a(0) /\ Plus(a(8), -8) = a(0)
  BY <1>1, <1>2
<1> QED
  BY <1>3, <1>4 DEF a

\* So it is with a program's place.
LEMMA PlaceOffsets ==
  ASSUME Inv, NEW q \in Programs
  PROVE  /\ Plus(own[q].pc, 0) = own[q].pc
         /\ Plus(Plus(own[q].pc, 4), -4) = own[q].pc
         /\ Plus(Plus(own[q].pc, 8), -8) = own[q].pc
<1>1. own[q].pc = [of |-> q, stage |-> own[q].pc.stage, n |-> own[q].pc.n, off |-> 0]
  BY DEF Inv, OwnInv
<1> QED
  BY <1>1, Offsets

\* A program that can take a step is in its mode with its registers.
LEMMA Running ==
  ASSUME Inv, NEW p, Runs(p)
  PROVE  /\ p \in Programs /\ p = pc.of /\ at = "program" /\ Runner = p /\ ~Lost
         /\ mode = ModeOf(p) /\ masked = Mask(p) /\ pc = own[p].pc
         /\ Banked(p) /\ Seen(p, gpr)
         /\ pc = [of |-> p, stage |-> pc.stage, n |-> pc.n, off |-> 0]
<1>1. p \in Programs /\ p = pc.of /\ at = "program"
  BY DEF Runs, Inv, ShapeInv
<1>2. ~Lost
  <2>1. sp[mode] = p
    BY DEF Runs
  <2> QED
    BY <1>1, <2>1, Modes DEF Inv, ProgramInv
<1> QED
  BY <1>1, <1>2 DEF Inv, ProgramInv, OwnInv, Runner

\* A thread that is not with the processor stays parked.
LEMMA StayParked ==
  ASSUME Inv, threads' = threads, Runner' = Runner,
         \A q \in Threads \ {Runner} : own'[q] = own[q] /\ spoiled'[q] = spoiled[q]
  PROVE  ParkedInv'
BY DEF Inv, ParkedInv, Sees

-----------------------------------------------------------------------------
LEMMA InitInv == Init => Inv
<1> SUFFICES ASSUME Init
             PROVE  Inv
  OBVIOUS
<1>1. ShapeInv
  BY DEF Init, ShapeInv, OwnShape, RegisterFile, Context, Fresh, Computed, Free, Address, Programs
<1>2. OwnInv
  BY DEF Init, OwnInv, Fresh, Computed, Address, Stages, Programs
<1>3. ProgramInv
  <2>1. pc = Fresh(Main).pc /\ pc.of = Main /\ pc.stage = "work" /\ mode = "svc" /\ ModeOf(Main) = "svc"
    BY DEF Init, Fresh, Computed, Address, ModeOf
  <2>2. masked = Mask(Main)
    BY Zenon DEF Init, Mask
  <2>3. Banked(Main) /\ Seen(Main, gpr)
    BY <2>1 DEF Init, Banked, Seen, Programs, Fresh, Computed, Banks
  <2>4. own[Main].pc = pc
    BY <2>1 DEF Init, Programs
  <2> QED
    BY <2>1, <2>2, <2>3, <2>4 DEF ProgramInv, Lost
<1>4. TakenInv /\ FrameInv
  BY DEF Init, TakenInv, FrameInv
<1>5. ParkedInv
  BY DEF Init, ParkedInv, Sees, Programs
<1> QED
  BY <1>1, <1>2, <1>3, <1>4, <1>5 DEF Inv

-----------------------------------------------------------------------------
(* The programs' steps.                                                    *)

\* A step of p, which changes what p should see and nobody else.
LEMMA OwnOne ==
  ASSUME Inv, NEW p \in Programs, pc.of = p, pc'.of = p, threads' = threads,
         \A q \in Programs \ {p} :
           own'[q] = own[q] /\ spoiled'[q] = spoiled[q] /\ pushed'[q] = pushed[q],
         own'[p].sp = p,
         own'[p].pc = [of |-> p, stage |-> own'[p].pc.stage, n |-> own'[p].pc.n, off |-> 0],
         own'[p].pc.stage \in Stages,
         own'[p].pc.stage # "work" => pushed'[p] = own'[p].lr,
         "lr" \in spoiled'[p] => p = Main /\ own'[p].pc.stage = "called"
  PROVE  OwnInv'
BY Modes DEF Inv, OwnInv, Programs

\* Between two instructions of a program nothing is in the frame.
LEMMA ProgramOnly ==
  ASSUME Inv, NEW p, Runs(p), at' = "program", pc'.of = p, threads' = threads,
         \A q \in Programs \ {p} : own'[q] = own[q] /\ spoiled'[q] = spoiled[q],
         ShapeInv', OwnInv', ProgramInv'
  PROVE  Inv'
<1>1. p \in Programs /\ Runner = p /\ Runner' = p
  BY Running DEF Runner
<1>2. ParkedInv'
  BY <1>1, StayParked DEF Programs
<1>3. TakenInv' /\ FrameInv'
  BY DEF TakenInv, FrameInv
<1> QED
  BY <1>2, <1>3 DEF Inv

\* A program computes.
LEMMA WorkStep == ASSUME Inv, NEW p \in Programs, Work(p) PROVE Inv'
<1>1. Runs(p) /\ pc.stage = "work"
  BY DEF Work
<1>2. p = pc.of /\ at = "program" /\ ~Lost /\ mode = ModeOf(p) /\ masked = Mask(p)
  BY <1>1, Running
<1> DEFINE n == 1 - pc.n
           new == [pc |-> [of |-> p, stage |-> "work", n |-> n, off |-> 0], sp |-> p,
                   lr |-> Value(p, n), r |-> [x \in GPR |-> Value(p, n)]]
<1>3. /\ pc' = new.pc /\ gpr' = new.r /\ lr' = [lr EXCEPT ![mode] = new.lr]
      /\ own' = [own EXCEPT ![p] = new] /\ spoiled' = [spoiled EXCEPT ![p] = {}]
      /\ UNCHANGED <<mode, masked, spsr, sp, table, at, exc, mem, pushed, threads, want>>
  BY DEF Work, Computed, Address
<1>4. new.pc.of = p /\ new.pc.stage = "work" /\ new.pc.off = 0 /\ new.sp = p
      /\ new.pc = [of |-> p, stage |-> new.pc.stage, n |-> new.pc.n, off |-> 0]
      /\ Context(new) /\ RegisterFile(new.r)
  BY DEF Context, RegisterFile
<1> HIDE DEF new
<1>5. mode \in Banks /\ sp[mode] = p
  BY <1>1, <1>2, Modes DEF Runs
<1>6. own'[p] = new /\ spoiled'[p] = {} /\ lr'[mode] = new.lr
      /\ \A q \in Programs \ {p} : own'[q] = own[q] /\ spoiled'[q] = spoiled[q]
  BY <1>3, <1>5 DEF Inv, ShapeInv, OwnShape
<1>7. ShapeInv'
  <2>1. OwnShape'
    BY <1>3, <1>4, <1>6 DEF Inv, ShapeInv, OwnShape
  <2> QED
    BY <1>3, <1>4, <1>6, <2>1 DEF Inv, ShapeInv
<1>8. OwnInv'
  BY <1>2, <1>3, <1>4, <1>6, OwnOne DEF Stages
<1>9. ProgramInv'
  <2>1. Mask(p)' = Mask(p)
    BY <1>3 DEF Mask
  <2>2. Banked(p)' /\ Seen(p, gpr)'
    BY <1>2, <1>3, <1>5, <1>6 DEF Banked, Seen
  <2> QED
    BY <1>2, <1>3, <1>4, <1>6, <2>1, <2>2 DEF ProgramInv, Lost
<1> QED
  BY <1>1, <1>2, <1>3, <1>4, <1>6, <1>7, <1>8, <1>9, ProgramOnly

\* Main switches interrupts on or off.
LEMMA SetMaskStep == ASSUME Inv, SetMask PROVE Inv'
<1>1. Runs(Main) /\ pc.stage = "work"
  BY DEF SetMask
<1>2. Main \in Programs /\ Main = pc.of /\ at = "program" /\ ~Lost /\ mode = ModeOf(Main)
      /\ pc = own[Main].pc /\ Banked(Main) /\ Seen(Main, gpr)
  BY <1>1, Running
<1>3. UNCHANGED <<mode, spsr, gpr, sp, lr, pc, table, at, exc, mem, pushed, threads, own, spoiled>>
  BY DEF SetMask
<1>4. masked' = Mask(Main)'
  <2>1. Main \notin Threads /\ want' = masked' /\ masked' = ~masked
    BY ProgramsAssumption DEF SetMask
  <2> QED
    BY <2>1, Zenon DEF Mask
<1>5. ShapeInv'
  BY <1>3 DEF Inv, ShapeInv, OwnShape
<1>6. OwnInv'
  BY <1>3 DEF Inv, OwnInv
<1>7. ProgramInv'
  BY <1>1, <1>2, <1>3, <1>4 DEF ProgramInv, Lost, Banked, Seen
<1> QED
  BY <1>1, <1>2, <1>3, <1>5, <1>6, <1>7, ProgramOnly

\* Main sets a vector table.
LEMMA SetTableStep == ASSUME Inv, SetTable PROVE Inv'
<1>1. Runs(Main) /\ pc.stage = "work"
  BY DEF SetTable
<1>2. Main \in Programs /\ Main = pc.of /\ at = "program" /\ ~Lost /\ mode = ModeOf(Main)
      /\ masked = Mask(Main) /\ pc = own[Main].pc /\ Banked(Main) /\ Seen(Main, gpr)
  BY <1>1, Running
<1>3. UNCHANGED <<cpu, at, exc, mem, pushed, threads, history>>
  BY DEF SetTable
<1>4. ShapeInv'
  BY <1>3 DEF Inv, ShapeInv, OwnShape, cpu, history
<1>5. OwnInv'
  BY <1>3 DEF Inv, OwnInv, cpu, history
<1>6. ProgramInv'
  BY <1>1, <1>2, <1>3 DEF ProgramInv, Lost, Banked, Seen, cpu, history, Mask
<1> QED
  BY <1>1, <1>2, <1>3, <1>4, <1>5, <1>6, ProgramOnly DEF cpu, history

\* A program goes to the next part of a system call; what it should see follows.
LEMMA Gone ==
  ASSUME Inv, NEW p \in Programs, NEW stage, own' = [own EXCEPT ![p].pc.stage = stage]
  PROVE  /\ own'[p] = [own[p] EXCEPT !.pc.stage = stage]
         /\ own'[p].pc = [of |-> p, stage |-> stage, n |-> own[p].pc.n, off |-> 0]
         /\ own'[p].sp = p /\ own'[p].lr = own[p].lr /\ own'[p].r = own[p].r
         /\ \A q \in Programs \ {p} : own'[q] = own[q]
         /\ OwnShape'
<1> DEFINE there == [own[p].pc EXCEPT !.stage = stage]
           new == [pc |-> there, sp |-> own[p].sp, lr |-> own[p].lr, r |-> own[p].r]
<1>1. Context(own[p]) /\ own = [q \in Programs |-> own[q]] /\ own[p].sp = p
      /\ own[p].pc = [of |-> p, stage |-> own[p].pc.stage, n |-> own[p].pc.n, off |-> 0]
  BY DEF Inv, ShapeInv, OwnShape, OwnInv
<1>2. there = [of |-> p, stage |-> stage, n |-> own[p].pc.n, off |-> 0]
  BY <1>1
<1>3. [own[p] EXCEPT !.pc.stage = stage] = new
  BY <1>1 DEF Context
<1>4. own' = [own EXCEPT ![p] = new]
  BY <1>3
<1>5. Context(new)
  BY <1>1 DEF Context
<1> HIDE DEF there
<1>6. own'[p] = new /\ \A q \in Programs \ {p} : own'[q] = own[q]
  BY <1>1, <1>4
<1>7. own' = [q \in Programs |-> own'[q]]
  BY <1>1, <1>4
<1>8. \A q \in Programs : Context(own'[q])
  BY <1>5, <1>6 DEF Inv, ShapeInv, OwnShape
<1> QED
  BY <1>1, <1>2, <1>3, <1>6, <1>7, <1>8 DEF OwnShape

\* And so does its place.
LEMMA Going ==
  ASSUME Inv, NEW p \in Programs, NEW stage, Runs(p), Goto(p, stage)
  PROVE  /\ pc' = own'[p].pc /\ pc'.of = p /\ pc'.stage = stage
         /\ own'[p].pc = [of |-> p, stage |-> stage, n |-> own'[p].pc.n, off |-> 0]
         /\ own'[p].pc.stage = stage
         /\ own'[p].sp = p /\ own'[p].lr = own[p].lr /\ own'[p].r = own[p].r
         /\ \A q \in Programs \ {p} : own'[q] = own[q]
         /\ OwnShape'
<1>1. pc = own[p].pc /\ pc = [of |-> p, stage |-> pc.stage, n |-> pc.n, off |-> 0]
  BY Running
<1>2. pc' = [pc EXCEPT !.stage = stage] /\ own' = [own EXCEPT ![p].pc.stage = stage]
  BY DEF Goto
<1>3. pc' = [of |-> p, stage |-> stage, n |-> pc.n, off |-> 0]
  <2> DEFINE n == pc.n
             was == pc.stage
  <2>1. pc = [of |-> p, stage |-> was, n |-> n, off |-> 0]
    BY <1>1
  <2> HIDE DEF n, was
  <2>2. pc' = [of |-> p, stage |-> stage, n |-> n, off |-> 0]
    BY <2>1, <1>2
  <2> QED
    BY <2>2 DEF n
<1>4. own'[p].pc = [of |-> p, stage |-> stage, n |-> own[p].pc.n, off |-> 0]
      /\ own'[p].sp = p /\ own'[p].lr = own[p].lr /\ own'[p].r = own[p].r
      /\ (\A q \in Programs \ {p} : own'[q] = own[q])
      /\ OwnShape'
  BY <1>2, Gone
<1>5. pc' = own'[p].pc
  BY <1>1, <1>3, <1>4
<1> QED
  BY <1>3, <1>4, <1>5

\* push {lr}
LEMMA PushLrStep == ASSUME Inv, NEW p \in Programs, PushLr(p) PROVE Inv'
<1>1. Runs(p) /\ pc.stage = "work"
  BY DEF PushLr
<1>2. p = pc.of /\ at = "program" /\ mode = ModeOf(p) /\ masked = Mask(p) /\ pc = own[p].pc
      /\ Banked(p) /\ Seen(p, gpr) /\ mode \in Banks
  BY <1>1, Running, Modes
<1>3. /\ Goto(p, "pushed") /\ pushed' = [pushed EXCEPT ![p] = lr[mode]]
      /\ UNCHANGED <<mode, masked, spsr, gpr, sp, lr, table, at, exc, mem, threads, want, spoiled>>
  BY DEF PushLr
<1>4. /\ pc' = own'[p].pc /\ pc'.of = p /\ pc'.stage = "pushed"
      /\ own'[p].pc = [of |-> p, stage |-> "pushed", n |-> own'[p].pc.n, off |-> 0]
      /\ own'[p].pc.stage = "pushed"
      /\ own'[p].sp = p /\ own'[p].lr = own[p].lr /\ own'[p].r = own[p].r
      /\ (\A q \in Programs \ {p} : own'[q] = own[q])
      /\ OwnShape'
  BY <1>1, <1>3, Going
<1>6. "lr" \notin spoiled[p] /\ lr[mode] = own[p].lr
  BY <1>1, <1>2 DEF Inv, OwnInv, Banked
<1>7. pushed'[p] = own[p].lr /\ (\A q \in Programs \ {p} : pushed'[q] = pushed[q])
      /\ pushed' = [q \in Programs |-> pushed'[q]]
  BY <1>3, <1>6 DEF Inv, ShapeInv
<1>8. ShapeInv'
  BY <1>3, <1>4, <1>7 DEF Inv, ShapeInv
<1>9. OwnInv'
  <2>1. "lr" \notin spoiled'[p] /\ "pushed" \in Stages /\ pushed'[p] = own'[p].lr
    BY <1>3, <1>4, <1>6, <1>7 DEF Stages
  <2>2. \A q \in Programs \ {p} : own'[q] = own[q] /\ spoiled'[q] = spoiled[q] /\ pushed'[q] = pushed[q]
    BY <1>3, <1>4, <1>7
  <2> QED
    BY <1>2, <1>3, <1>4, <2>1, <2>2, OwnOne
<1>10. ProgramInv'
  <2>1. Mask(p)' = Mask(p)
    BY <1>3 DEF Mask
  <2>2. Banked(p)' /\ Seen(p, gpr)'
    BY <1>2, <1>3, <1>4 DEF Banked, Seen
  <2> QED
    BY <1>2, <1>3, <1>4, <2>1, <2>2 DEF ProgramInv, Lost
<1> QED
  BY <1>1, <1>2, <1>3, <1>4, <1>8, <1>9, <1>10, ProgramOnly

\* pop {lr}
LEMMA PopLrStep == ASSUME Inv, NEW p \in Programs, PopLr(p) PROVE Inv'
<1>1. Runs(p) /\ pc.stage = "called"
  BY DEF PopLr
<1>2. p = pc.of /\ at = "program" /\ mode = ModeOf(p) /\ masked = Mask(p) /\ pc = own[p].pc
      /\ Banked(p) /\ Seen(p, gpr) /\ mode \in Banks
  BY <1>1, Running, Modes
<1>3. /\ Goto(p, "work") /\ lr' = [lr EXCEPT ![mode] = pushed[p]]
      /\ spoiled' = [spoiled EXCEPT ![p] = @ \ {"lr"}]
      /\ UNCHANGED <<mode, masked, spsr, gpr, sp, table, at, exc, mem, pushed, threads, want>>
  BY DEF PopLr
<1>4. /\ pc' = own'[p].pc /\ pc'.of = p /\ pc'.stage = "work"
      /\ own'[p].pc = [of |-> p, stage |-> "work", n |-> own'[p].pc.n, off |-> 0]
      /\ own'[p].pc.stage = "work"
      /\ own'[p].sp = p /\ own'[p].lr = own[p].lr /\ own'[p].r = own[p].r
      /\ (\A q \in Programs \ {p} : own'[q] = own[q])
      /\ OwnShape'
  BY <1>1, <1>3, Going
<1>6. pushed[p] = own[p].lr
  BY <1>1, <1>2 DEF Inv, OwnInv
<1>7. lr'[mode] = own[p].lr /\ spoiled'[p] = spoiled[p] \ {"lr"}
      /\ (\A q \in Programs \ {p} : spoiled'[q] = spoiled[q])
      /\ lr' = [b \in Banks |-> lr'[b]] /\ spoiled' \in [Programs -> SUBSET (GPR \cup {"lr"})]
  BY <1>2, <1>3, <1>6 DEF Inv, ShapeInv
<1>8. ShapeInv'
  BY <1>3, <1>4, <1>7 DEF Inv, ShapeInv
<1>9. OwnInv'
  BY <1>2, <1>3, <1>4, <1>7, OwnOne DEF Stages
<1>10. ProgramInv'
  <2>1. Mask(p)' = Mask(p)
    BY <1>3 DEF Mask
  <2>2. Banked(p)'
    BY <1>2, <1>3, <1>4, <1>7 DEF Banked
  <2>3. Seen(p, gpr)'
    <3>1. GPR \ spoiled'[p] = GPR \ spoiled[p]
      BY <1>7 DEF GPR
    <3> QED
      BY <1>2, <1>3, <1>4, <3>1 DEF Seen
  <2> QED
    BY <1>2, <1>3, <1>4, <2>1, <2>2, <2>3 DEF ProgramInv, Lost
<1> QED
  BY <1>1, <1>2, <1>3, <1>4, <1>7, <1>8, <1>9, <1>10, ProgramOnly

\* Main starts user code: a thread that is as it was made.
LEMMA RunUserCodeStep == ASSUME Inv, NEW t \in Threads, RunUserCode(t) PROVE Inv'
<1>1. Runs(Main) /\ pc.of = Main /\ at = "program" /\ Runner = Main
  BY Running DEF RunUserCode
<1>2. /\ mode' = "usr" /\ masked' = TRUE /\ sp' = [sp EXCEPT !["usr"] = t] /\ pc' = own[t].pc
      /\ own' = [own EXCEPT ![t].r = gpr, ![t].lr = lr["usr"]]
      /\ UNCHANGED <<spsr, gpr, lr, table, at, exc, mem, pushed, threads, want, spoiled>>
  BY DEF RunUserCode
<1>3. t \in Programs /\ t # Main /\ ModeOf(t) = "usr" /\ "usr" \in Banks
  BY ProgramsAssumption DEF Programs, ModeOf, Banks
<1>4. own[t].sp = t /\ own[t].pc.of = t /\ own[t].pc.stage = "work" /\ "lr" \notin spoiled[t]
      /\ own[t].pc = [of |-> t, stage |-> own[t].pc.stage, n |-> own[t].pc.n, off |-> 0]
  <2>1. own[t] = Fresh(t)
    BY <1>1 DEF Inv, OwnInv
  <2>2. own[t].pc.stage = "work"
    BY <2>1 DEF Fresh, Computed, Address
  <2> QED
    BY <1>3, <2>2 DEF Inv, OwnInv
<1> DEFINE new == [pc |-> own[t].pc, sp |-> t, lr |-> lr["usr"], r |-> gpr]
<1>5. own' = [own EXCEPT ![t] = new]
  <2>1. own[t] = [pc |-> own[t].pc, sp |-> own[t].sp, lr |-> own[t].lr, r |-> own[t].r]
        /\ own = [q \in Programs |-> own[q]]
    BY <1>3 DEF Inv, ShapeInv, OwnShape, Context
  <2>2. own' = [own EXCEPT ![t] = [[own[t] EXCEPT !.r = gpr] EXCEPT !.lr = lr["usr"]]]
    BY <1>2, <1>3, <2>1
  <2>3. [[own[t] EXCEPT !.r = gpr] EXCEPT !.lr = lr["usr"]] = new
    <3> DEFINE c == own[t].pc
               l == own[t].lr
               g == own[t].r
    <3>1. own[t] = [pc |-> c, sp |-> t, lr |-> l, r |-> g]
      BY <2>1, <1>4
    <3> HIDE DEF c, l, g
    <3>2. [[own[t] EXCEPT !.r = gpr] EXCEPT !.lr = lr["usr"]] = [pc |-> c, sp |-> t, lr |-> lr["usr"], r |-> gpr]
      <4> DEFINE d == [own[t] EXCEPT !.r = gpr]
      <4>1. d = [pc |-> c, sp |-> t, lr |-> l, r |-> gpr]
        BY <3>1
      <4> HIDE DEF d
      <4>2. [d EXCEPT !.lr = lr["usr"]] = [pc |-> c, sp |-> t, lr |-> lr["usr"], r |-> gpr]
        BY <4>1
      <4> QED
        BY <4>2 DEF d
    <3> QED
      BY <3>2 DEF c
  <2> QED
    BY <2>2, <2>3
<1>6. new.pc = own[t].pc /\ new.sp = t /\ new.lr = lr["usr"] /\ new.r = gpr /\ Context(new)
  BY DEF Inv, ShapeInv, Context
<1> HIDE DEF new
<1>7. own'[t] = new /\ (\A q \in Programs \ {t} : own'[q] = own[q]) /\ OwnShape'
  <2>1. own'[t] = new /\ (\A q \in Programs \ {t} : own'[q] = own[q])
        /\ own' = [q \in Programs |-> own'[q]]
    BY <1>3, <1>5 DEF Inv, ShapeInv, OwnShape
  <2>2. \A q \in Programs : Context(own'[q])
    BY <1>6, <2>1 DEF Inv, ShapeInv, OwnShape
  <2> QED
    BY <2>1, <2>2 DEF OwnShape
<1>8. pc'.of = t /\ Runner' = t
  BY <1>1, <1>2, <1>4 DEF Runner
<1>9. ShapeInv'
  <2>1. sp' = [b \in Banks |-> sp'[b]]
    BY <1>2 DEF Inv, ShapeInv
  <2> QED
    BY <1>2, <1>3, <1>7, <1>8, <2>1 DEF Inv, ShapeInv
<1>10. OwnInv'
  <2> SUFFICES ASSUME NEW q \in Programs
               PROVE  /\ own'[q].sp = q
                      /\ own'[q].pc = [of |-> q, stage |-> own'[q].pc.stage, n |-> own'[q].pc.n, off |-> 0]
                      /\ own'[q].pc.stage \in Stages
                      /\ own'[q].pc.stage # "work" => pushed'[q] = own'[q].lr
                      /\ "lr" \in spoiled'[q] => q = Main /\ own'[q].pc.stage = "called"
    BY <1>3, <1>8 DEF OwnInv
  <2>1. CASE q = t
    <3>1. own'[t].pc = own[t].pc /\ own'[t].sp = t
      BY <1>6, <1>7
    <3>2. "lr" \notin spoiled'[t] /\ own[t].pc.stage = "work" /\ "work" \in Stages
      BY <1>2, <1>4 DEF Stages
    <3> QED
      BY <1>4, <2>1, <3>1, <3>2
  <2>2. CASE q # t
    <3>1. own'[q] = own[q] /\ pushed'[q] = pushed[q] /\ spoiled'[q] = spoiled[q]
      BY <1>2, <1>7, <2>2
    <3>2. /\ own[q].sp = q
          /\ own[q].pc = [of |-> q, stage |-> own[q].pc.stage, n |-> own[q].pc.n, off |-> 0]
          /\ own[q].pc.stage \in Stages
          /\ own[q].pc.stage # "work" => pushed[q] = own[q].lr
          /\ "lr" \in spoiled[q] => q = Main /\ own[q].pc.stage = "called"
      BY DEF Inv, OwnInv
    <3> QED
      BY <3>1, <3>2
  <2> QED
    BY <2>1, <2>2
<1>11. ProgramInv'
  <2>1. masked' = Mask(t)'
    BY <1>2, Zenon DEF Mask
  <2>2. Banked(t)'
    <3>1. sp'["usr"] = t
      BY <1>2, <1>3 DEF Inv, ShapeInv
    <3> QED
      BY <1>2, <1>3, <1>6, <1>7, <3>1 DEF Banked
  <2>3. Seen(t, gpr)'
    BY <1>2, <1>6, <1>7 DEF Seen
  <2> QED
    BY <1>2, <1>3, <1>6, <1>7, <1>8, <2>1, <2>2, <2>3 DEF ProgramInv, Lost
<1>12. TakenInv' /\ FrameInv'
  BY <1>1, <1>2 DEF TakenInv, FrameInv
<1>13. ParkedInv'
  <2> SUFFICES ASSUME NEW q \in Threads, q # t
               PROVE  Sees(q, threads[q])'
    BY <1>8 DEF ParkedInv
  <2>1. q \in Programs /\ q # Main
    BY ProgramsAssumption DEF Programs
  <2>2. Sees(q, threads[q])
    BY <1>1, <2>1 DEF Inv, ParkedInv
  <2> QED
    BY <1>2, <1>7, <2>1, <2>2 DEF Sees
<1> QED
  BY <1>9, <1>10, <1>11, <1>12, <1>13 DEF Inv

-----------------------------------------------------------------------------
(* Exceptions.                                                             *)

\* An exception leaves p's registers where they are, the place it returns to in lr.
LEMMA TakeStep ==
  ASSUME Inv, NEW p \in Programs, Runs(p), NEW e \in {"irq", "dabt", "pabt", "swi"},
         Take(e, Plus(own'[p].pc, Ahead(e))),
         at' = "save" \/ (at' = "plus1" /\ e = "swi" /\ table # "normal"),
         OwnShape', OwnInv', spoiled' \in [Programs -> SUBSET (GPR \cup {"lr"})],
         \A q \in Programs \ {p} : own'[q] = own[q] /\ spoiled'[q] = spoiled[q],
         own'[p].r = own[p].r, own'[p].lr = own[p].lr, spoiled[p] \subseteq spoiled'[p],
         e # "swi" => own'[p].pc = own[p].pc,
         e = "swi" => /\ own'[p].pc.stage = "called" /\ "r0" \in spoiled'[p]
                      /\ p = Main => "lr" \in spoiled'[p]
                      /\ at' # "plus1" => table = "normal" /\ "r1" \in spoiled'[p]
  PROVE  Inv'
<1>1. p = pc.of /\ at = "program" /\ Runner = p /\ ~Lost /\ mode = ModeOf(p) /\ masked = Mask(p)
      /\ pc = own[p].pc /\ Banked(p) /\ Seen(p, gpr)
  BY Running
<1>2. /\ exc' = e /\ mode' = Bank[e]
      /\ spsr' = [spsr EXCEPT ![Bank[e]] = [mode |-> mode, masked |-> masked]]
      /\ lr' = [lr EXCEPT ![Bank[e]] = Plus(own'[p].pc, Ahead(e))]
      /\ UNCHANGED <<gpr, sp, pc, table, mem, pushed, threads, want>>
  BY DEF Take
<1>3. Bank[e] \in Banks \ {"usr"} /\ (Bank[e] = ModeOf(p) <=> e = "swi" /\ p = Main)
      /\ ModeOf(p) \in Banks
  BY Taking, Modes
<1>4. /\ spsr'[mode'] = [mode |-> ModeOf(p), masked |-> Mask(p)]
      /\ lr'[mode'] = Plus(own'[p].pc, Ahead(e))
      /\ lr' = [b \in Banks |-> lr'[b]] /\ spsr' = [b \in Banks \ {"usr"} |-> spsr'[b]]
  BY <1>1, <1>2, <1>3 DEF Inv, ShapeInv
<1>5. ShapeInv'
  <2>1. at' \in {"program", "save", "handler", "restore", "plus1"}
    OBVIOUS
  <2>2. exc' \in {"none", "irq", "dabt", "pabt", "swi"}
    BY <1>2
  <2> QED
    BY <1>2, <1>4, <2>1, <2>2 DEF Inv, ShapeInv
<1>6. ProgramInv'
  BY DEF ProgramInv, Lost
<1>7. Banked(p)' /\ Seen(p, gpr)'
  <2>1. Seen(p, gpr)'
    BY <1>1, <1>2 DEF Seen
  <2>2. CASE e = "swi" /\ p = Main
    <3>1. sp'[ModeOf(p)] = p /\ "lr" \in spoiled'[p]
      BY <1>1, <1>2, <2>2 DEF Banked
    <3> QED
      BY <2>1, <3>1 DEF Banked
  <2>3. CASE ~(e = "swi" /\ p = Main)
    <3>1. lr'[ModeOf(p)] = lr[ModeOf(p)]
      BY <1>2, <1>3, <2>3 DEF Inv, ShapeInv
    <3>2. sp'[ModeOf(p)] = p /\ ("lr" \in spoiled[p] \/ lr[ModeOf(p)] = own[p].lr)
      BY <1>1, <1>2 DEF Banked
    <3>3. "lr" \in spoiled[p] => "lr" \in spoiled'[p]
      OBVIOUS
    <3> QED
      BY <2>1, <3>1, <3>2, <3>3 DEF Banked
  <2> QED
    BY <2>1, <2>2, <2>3
<1>8. TakenInv'
  <2>1. Mask(p)' = Mask(p)
    BY <1>2 DEF Mask
  <2>2. p = Main /\ e # "swi" => own'[Main].pc.stage # "called" \/ table' # "normal"
    BY <1>1, <1>2 DEF Lost
  <2> QED
    BY <1>1, <1>2, <1>4, <1>7, <2>1, <2>2 DEF TakenInv
<1>9. FrameInv'
  BY <1>1, <1>2, <1>4, <1>7 DEF FrameInv
<1>10. ParkedInv'
  <2>1. Runner' = Runner
    BY <1>1, <1>2 DEF Runner
  <2> QED
    BY <1>1, <1>2, <2>1, StayParked DEF Programs
<1> QED
  BY <1>5, <1>6, <1>8, <1>9, <1>10 DEF Inv

\* An interrupt or an abort finds the program between two instructions.
LEMMA InterruptStep == ASSUME Inv, Irq \/ DataAbort \/ PrefetchAbort PROVE Inv'
<1> DEFINE p == pc.of
<1>1. Runs(p) /\ at' = "save" /\ UNCHANGED <<own, spoiled>>
  BY DEF Irq, DataAbort, PrefetchAbort
<1>2. p \in Programs /\ pc = own'[p].pc
  BY <1>1, Running
<1>3. PICK e \in {"irq", "dabt", "pabt"} : Take(e, Plus(pc, Ahead(e)))
  BY DEF Irq, DataAbort, PrefetchAbort, Ahead
<1>4. pc' = pc /\ pushed' = pushed /\ threads' = threads
  BY <1>3 DEF Take
<1>5. OwnShape' /\ OwnInv' /\ spoiled' \in [Programs -> SUBSET (GPR \cup {"lr"})]
  BY <1>1, <1>4 DEF Inv, ShapeInv, OwnShape, OwnInv
<1> HIDE DEF p
<1>6. e \in {"irq", "dabt", "pabt", "swi"} /\ e # "swi"
  OBVIOUS
<1> QED
  BY <1>1, <1>2, <1>3, <1>5, <1>6, TakeStep

\* A system call returns to the instruction after it.
LEMMA SwiStep == ASSUME Inv, NEW p \in Programs, Swi(p) PROVE Inv'
<1>1. Runs(p) /\ pc.stage = "pushed" /\ pc.of = p /\ pc = own[p].pc
  BY Running DEF Swi
<1>2. /\ Take("swi", [pc EXCEPT !.stage = "called"])
      /\ own' = [own EXCEPT ![p].pc.stage = "called"]
      /\ at' = IF table = "normal" THEN "save" ELSE "plus1"
      /\ spoiled' = [spoiled EXCEPT ![p] = @ \cup {"r0"} \cup (IF table = "normal" THEN {"r1"} ELSE {})
                                             \cup (IF p = Main THEN {"lr"} ELSE {})]
  BY DEF Swi
<1>3. /\ own'[p].pc = [of |-> p, stage |-> "called", n |-> own[p].pc.n, off |-> 0]
      /\ own'[p].pc.stage = "called" /\ own'[p].pc.n = own[p].pc.n
      /\ own'[p].sp = p /\ own'[p].lr = own[p].lr /\ own'[p].r = own[p].r
      /\ (\A q \in Programs \ {p} : own'[q] = own[q])
      /\ OwnShape'
  <2>1. own'[p].pc = [of |-> p, stage |-> "called", n |-> own[p].pc.n, off |-> 0]
      /\ own'[p].sp = p /\ own'[p].lr = own[p].lr /\ own'[p].r = own[p].r
      /\ (\A q \in Programs \ {p} : own'[q] = own[q])
      /\ OwnShape'
    BY <1>2, Gone
  <2> QED
    BY <2>1
<1>4. /\ spoiled' \in [Programs -> SUBSET (GPR \cup {"lr"})]
      /\ \A q \in Programs \ {p} : spoiled'[q] = spoiled[q]
      /\ spoiled'[p] = spoiled[p] \cup {"r0"} \cup (IF table = "normal" THEN {"r1"} ELSE {})
                                  \cup (IF p = Main THEN {"lr"} ELSE {})
  BY <1>2 DEF Inv, ShapeInv, GPR
<1>5. [pc EXCEPT !.stage = "called"] = Plus(own'[p].pc, Ahead("swi"))
  <2> DEFINE n == own[p].pc.n
  <2>1. pc = [of |-> p, stage |-> "pushed", n |-> n, off |-> 0]
    BY <1>1 DEF Inv, OwnInv
  <2> HIDE DEF n
  <2>2. [pc EXCEPT !.stage = "called"] = [of |-> p, stage |-> "called", n |-> n, off |-> 0]
    BY <2>1
  <2>3. Ahead("swi") = 0 /\ own'[p].pc = [of |-> p, stage |-> "called", n |-> n, off |-> 0]
    BY <1>3 DEF n, Ahead
  <2> QED
    BY <2>2, <2>3, Offsets
<1>6. pc' = pc /\ pushed' = pushed /\ threads' = threads
  BY <1>2 DEF Take
<1>7. OwnInv'
  <2>1. pushed'[p] = own'[p].lr
    BY <1>1, <1>3, <1>6 DEF Inv, OwnInv
  <2>2. "lr" \in spoiled'[p] => p = Main /\ own'[p].pc.stage = "called"
    <3>1. "lr" \notin spoiled[p]
      BY <1>1 DEF Inv, OwnInv
    <3> QED
      BY <1>3, <1>4, <3>1
  <2>3. own'[p].pc = [of |-> p, stage |-> own'[p].pc.stage, n |-> own'[p].pc.n, off |-> 0]
        /\ own'[p].pc.stage \in Stages
    BY <1>3 DEF Stages
  <2> QED
    BY <1>1, <1>3, <1>4, <1>6, <2>1, <2>2, <2>3, OwnOne
<1>8. at' = "save" \/ (at' = "plus1" /\ table # "normal")
  BY <1>2
<1>9. at' # "plus1" => table = "normal" /\ "r1" \in spoiled'[p]
  BY <1>2, <1>4
<1>10. Take("swi", Plus(own'[p].pc, Ahead("swi")))
  BY <1>2, <1>5
<1> QED
  BY <1>1, <1>3, <1>4, <1>7, <1>8, <1>9, <1>10, TakeStep

-----------------------------------------------------------------------------
(* The vectors.                                                            *)

\* In the frame of an exception other than a prefetch abort there are the registers
\* that software_interrupt_asm or the other vectors push.
LEMMA SaveStep ==
  ASSUME Inv, NEW e \in {"irq", "dabt", "swi"}, Saving(e), NEW registers,
         e # "swi" => registers = GPR, e = "swi" => registers = {"r4", "r12"},
         Push(registers, Plus(own[pc.of].pc, AheadSaved(e))),
         UNCHANGED <<mode, masked, spsr, gpr, lr, pc, table, exc, pushed, threads, history>>
  PROVE  Inv'
<1> DEFINE p == pc.of
<1>1. p \in Programs /\ at = "save" /\ exc = e /\ mode = Bank[e] /\ ~Lost
  BY DEF Saving, Inv, ShapeInv, TakenInv, Lost
<1>2. Bank[e] \in Banks \ {"usr"} /\ (Bank[e] = ModeOf(p) <=> e = "swi" /\ p = Main)
      /\ ModeOf(p) \in Banks
  BY <1>1, Taking, Modes
<1>3. /\ sp' = [sp EXCEPT ![mode] = None] /\ at' = "handler"
      /\ mem' = [r |-> [x \in GPR |-> IF x \in registers THEN gpr[x] ELSE Junk],
                 lr |-> Plus(own[p].pc, AheadSaved(e)), sys |-> <<None, Junk>>]
  BY DEF Push, Free
<1>4. UNCHANGED <<own, spoiled, want>>
  BY DEF history
<1>5. ShapeInv'
  <2>1. sp' = [b \in Banks |-> sp'[b]]
    BY <1>3 DEF Inv, ShapeInv
  <2>2. mem' = [r |-> mem'.r, lr |-> mem'.lr, sys |-> mem'.sys] /\ RegisterFile(mem'.r)
    BY <1>3 DEF RegisterFile
  <2> QED
    BY <1>1, <1>3, <1>4, <2>1, <2>2 DEF Inv, ShapeInv, OwnShape
<1>6. OwnInv'
  BY <1>4 DEF Inv, OwnInv
<1>7. ProgramInv'
  BY <1>3 DEF ProgramInv, Lost
<1>8. TakenInv'
  <2>1. e = "swi" /\ p = Main => sp'["svc"] = None
    BY <1>1, <1>2, <1>3, Modes DEF Inv, ShapeInv
  <2>2. p \in Threads \/ e # "swi" => Banked(p)'
    <3> SUFFICES ASSUME p \in Threads \/ e # "swi"
                 PROVE  Banked(p)'
      OBVIOUS
    <3>1. ModeOf(p) # mode /\ Banked(p)
      BY <1>1, <1>2, Modes DEF Inv, TakenInv
    <3>2. sp'[ModeOf(p)] = sp[ModeOf(p)]
      BY <1>2, <1>3, <3>1 DEF Inv, ShapeInv
    <3> QED
      BY <1>4, <3>1, <3>2 DEF Banked
  <2>3. Mask(p)' = Mask(p)
    BY <1>4 DEF Mask
  <2> QED
    BY <1>1, <1>3, <1>4, <2>1, <2>2, <2>3 DEF Inv, TakenInv
<1>9. FrameInv'
  <2>1. \A x \in GPR \ spoiled[p] : e # "swi" \/ x \in {"r4", "r12"} => mem'.r[x] = own[p].r[x]
    <3>1. Seen(p, gpr)
      BY <1>1 DEF Inv, FrameInv
    <3> QED
      BY <1>3, <3>1 DEF Seen
  <2> QED
    BY <1>1, <1>3, <1>4, <2>1 DEF FrameInv
<1>10. ParkedInv'
  <2>1. Runner' = Runner
    BY <1>1, <1>3 DEF Runner
  <2> QED
    BY <1>4, <2>1, StayParked
<1> QED
  BY <1>5, <1>6, <1>7, <1>8, <1>9, <1>10 DEF Inv

LEMMA SaveSteps == ASSUME Inv, IrqSave \/ DataSave \/ SwiSave PROVE Inv'
<1> DEFINE p == pc.of
<1>1. p \in Programs
  BY DEF Inv, ShapeInv
<1>2. at = "save" => lr[mode] = Plus(own[p].pc, Ahead(exc))
  BY DEF Inv, FrameInv
<1>3. CASE IrqSave
  <2>1. Plus(lr[mode], -4) = Plus(own[p].pc, AheadSaved("irq"))
    BY <1>1, <1>2, <1>3, PlaceOffsets DEF IrqSave, Saving, Ahead, AheadSaved
  <2> QED
    BY <1>3, <2>1, SaveStep DEF IrqSave
<1>4. CASE DataSave
  <2>1. lr[mode] = Plus(own[p].pc, AheadSaved("dabt"))
    BY <1>2, <1>4 DEF DataSave, Saving, Ahead, AheadSaved
  <2> QED
    BY <1>4, <2>1, SaveStep DEF DataSave
<1>5. CASE SwiSave
  <2>1. lr[mode] = Plus(own[p].pc, AheadSaved("swi"))
    BY <1>2, <1>5 DEF SwiSave, Saving, Ahead, AheadSaved
  <2> QED
    BY <1>5, <2>1, SaveStep DEF SwiSave
<1> QED
  BY <1>3, <1>4, <1>5

\* The whole of the user's registers is in the frame of a prefetch abort.
LEMMA PrefetchSaveStep == ASSUME Inv, PrefetchSave PROVE Inv'
<1> DEFINE p == pc.of
<1>1. p \in Programs /\ at = "save" /\ exc = "pabt" /\ mode = "abt" /\ ~Lost /\ Runner = p
      /\ Banked(p) /\ Seen(p, gpr) /\ lr[mode] = Plus(own[p].pc, 4)
  BY DEF PrefetchSave, Saving, Inv, ShapeInv, TakenInv, FrameInv, Lost, Bank, Ahead, Runner
<1>2. ModeOf(p) \in {"svc", "usr"} /\ (p \in Threads <=> ModeOf(p) = "usr")
  BY <1>1, Modes
<1>3. /\ sp' = [sp EXCEPT ![mode] = None] /\ at' = "handler"
      /\ mem' = [r |-> gpr, lr |-> Junk, sys |-> <<sp["usr"], lr["usr"]>>]
      /\ gpr' = [gpr EXCEPT !["r0"] = Plus(lr[mode], -4), !["r1"] = Junk]
      /\ UNCHANGED <<mode, masked, spsr, lr, pc, table, exc, pushed, threads, history>>
  BY DEF PrefetchSave, Free
<1>4. UNCHANGED <<own, spoiled, want, pc>>
  BY <1>3 DEF history
<1>5. gpr'["r0"] = own[p].pc /\ RegisterFile(gpr')
  <2>1. gpr = [x \in GPR |-> gpr[x]]
    BY DEF Inv, ShapeInv, RegisterFile
  <2>2. gpr'["r0"] = Plus(lr[mode], -4) /\ gpr' = [x \in GPR |-> gpr'[x]]
    BY <1>3, <2>1 DEF GPR
  <2>3. Plus(lr[mode], -4) = own[p].pc
    BY <1>1, PlaceOffsets
  <2> QED
    BY <2>2, <2>3 DEF RegisterFile
<1>6. sp'["usr"] = sp["usr"] /\ sp'["svc"] = sp["svc"] /\ sp' = [b \in Banks |-> sp'[b]]
  BY <1>1, <1>3 DEF Inv, ShapeInv, Banks
<1>7. ShapeInv'
  <2>2. mem' = [r |-> mem'.r, lr |-> mem'.lr, sys |-> mem'.sys] /\ RegisterFile(mem'.r)
    BY <1>3 DEF Inv, ShapeInv
  <2> QED
    BY <1>1, <1>3, <1>4, <1>5, <1>6, <2>2 DEF Inv, ShapeInv, OwnShape
<1>8. OwnInv'
  BY <1>3, <1>4 DEF Inv, OwnInv
<1>9. ProgramInv'
  BY <1>3 DEF ProgramInv, Lost
<1>10. TakenInv'
  <2>1. Banked(p)'
    <3>1. sp'[ModeOf(p)] = sp[ModeOf(p)]
      BY <1>2, <1>6
    <3>2. lr' = lr
      BY <1>3
    <3> QED
      BY <1>1, <1>4, <3>1, <3>2 DEF Banked
  <2>2. Mask(p)' = Mask(p)
    BY <1>4 DEF Mask
  <2> QED
    BY <1>1, <1>3, <1>4, <2>1, <2>2 DEF Inv, TakenInv
<1>11. FrameInv'
  <2>1. Seen(p, mem.r)'
    BY <1>1, <1>3, <1>4 DEF Seen
  <2> QED
    BY <1>1, <1>3, <1>4, <1>5, <1>6, <2>1 DEF FrameInv
<1>12. ParkedInv'
  <2>1. Runner' = Runner
    BY <1>1, <1>3 DEF Runner
  <2> QED
    BY <1>3, <1>4, <2>1, StayParked
<1> QED
  BY <1>7, <1>8, <1>9, <1>10, <1>11, <1>12 DEF Inv

\* The Rust handler changes registers whose values are in the frame, or that the
\* program does not count on.
LEMMA CallStep == ASSUME Inv, Vector \/ SyscallVector PROVE Inv'
<1> DEFINE p == pc.of
<1>1. p \in Programs /\ at = "handler" /\ exc \in {"irq", "dabt", "swi"} /\ mode = Bank[exc]
      /\ Runner = p
  BY DEF Vector, SyscallVector, Handling, Inv, ShapeInv, TakenInv, Runner
<1>2. Bank[exc] \in Banks \ {"usr"} /\ (Bank[exc] = ModeOf(p) <=> exc = "swi" /\ p = Main)
      /\ ModeOf(p) \in Banks
  BY <1>1, Taking, Modes
<1>3. PICK r0 :
        /\ gpr' = [gpr EXCEPT !["r0"] = r0, !["r1"] = Junk, !["r12"] = Junk]
        /\ lr' = [lr EXCEPT ![mode] = Junk]
  BY DEF Vector, SyscallVector, Call
<1>4. /\ at' = "restore"
      /\ UNCHANGED <<mode, masked, spsr, sp, pc, table, exc, mem, pushed, threads, history>>
      /\ UNCHANGED <<own, spoiled, want>>
  BY DEF Vector, SyscallVector, history
<1>5. ShapeInv'
  <2>1. RegisterFile(gpr') /\ lr' = [b \in Banks |-> lr'[b]]
    BY <1>3 DEF Inv, ShapeInv, RegisterFile
  <2> QED
    BY <1>1, <1>4, <2>1 DEF Inv, ShapeInv, OwnShape
<1>6. OwnInv'
  BY <1>4 DEF Inv, OwnInv
<1>7. ProgramInv'
  BY <1>4 DEF ProgramInv, Lost
<1>8. TakenInv'
  <2>1. p \in Threads \/ exc # "swi" => Banked(p)'
    <3> SUFFICES ASSUME p \in Threads \/ exc # "swi"
                 PROVE  Banked(p)'
      OBVIOUS
    <3>1. ModeOf(p) # mode /\ Banked(p)
      BY <1>1, <1>2, Modes DEF Inv, TakenInv
    <3>2. lr'[ModeOf(p)] = lr[ModeOf(p)]
      BY <1>2, <1>3, <3>1 DEF Inv, ShapeInv
    <3> QED
      BY <1>4, <3>1, <3>2 DEF Banked
  <2>2. Mask(p)' = Mask(p)
    BY <1>4 DEF Mask
  <2> QED
    BY <1>1, <1>4, <2>1, <2>2 DEF Inv, TakenInv
<1>9. FrameInv'
  BY <1>1, <1>4 DEF Inv, FrameInv
<1>10. ParkedInv'
  <2>1. Runner' = Runner
    BY <1>1, <1>4 DEF Runner
  <2> QED
    BY <1>4, <2>1, StayParked
<1> QED
  BY <1>5, <1>6, <1>7, <1>8, <1>9, <1>10 DEF Inv

\* The single-stepper hands out the frame again or the registers of another thread.
LEMMA PrefetchVectorStep == ASSUME Inv, PrefetchVector PROVE Inv'
<1> DEFINE p == pc.of
<1>1. p \in Programs /\ at = "handler" /\ exc = "pabt" /\ mode = "abt" /\ Runner = p
      /\ Banked(p) /\ Seen(p, mem.r) /\ gpr["r0"] = own[p].pc /\ gpr["r0"].of = p
      /\ mem.sys = <<sp["usr"], lr["usr"]>> /\ spsr[mode].mode = ModeOf(p)
  <2>1. p \in Programs /\ at = "handler" /\ exc = "pabt" /\ mode = "abt" /\ Runner = p
    BY DEF PrefetchVector, Handling, Inv, ShapeInv, TakenInv, Bank, Runner
  <2>2. Banked(p) /\ spsr[mode].mode = ModeOf(p)
    BY <2>1 DEF Inv, TakenInv
  <2>3. Seen(p, mem.r) /\ gpr["r0"] = own[p].pc /\ mem.sys = <<sp["usr"], lr["usr"]>>
    BY <2>1 DEF Inv, FrameInv
  <2>4. own[p].pc = [of |-> p, stage |-> own[p].pc.stage, n |-> own[p].pc.n, off |-> 0]
    BY <2>1 DEF Inv, OwnInv
  <2> QED
    BY <2>1, <2>2, <2>3, <2>4
<1>2. ModeOf(p) \in {"svc", "usr"} /\ (p \in Threads <=> ModeOf(p) = "usr")
      /\ (p \in Threads <=> p # Main)
  BY <1>1, Modes
<1>3. PICK new \in {Registers} \cup {threads[t] : t \in Threads \ {gpr["r0"].of}} :
        /\ mem' = [mem EXCEPT !.r = new.r, !.sys = <<new.sp, new.lr>>]
        /\ Call(new.pc)
        /\ \/ new = Registers /\ UNCHANGED threads
           \/ /\ spsr[mode].mode = "usr"
              /\ threads' = [threads EXCEPT ![gpr["r0"].of] = Registers]
  BY DEF PrefetchVector
<1>4. /\ at' = "restore"
      /\ UNCHANGED <<mode, masked, spsr, sp, pc, table, exc, pushed, history>>
      /\ UNCHANGED <<own, spoiled, want>>
  BY DEF PrefetchVector, history
<1>5. Registers.pc = own[p].pc /\ Registers.sp = sp["usr"] /\ Registers.lr = lr["usr"]
      /\ Registers.r = mem.r /\ Context(Registers)
  BY <1>1 DEF Registers, Context, Inv, ShapeInv
<1>6. PICK q \in Programs :
        /\ q = Main <=> p = Main
        /\ new.pc = own[q].pc /\ Seen(q, new.r) /\ RegisterFile(new.r)
        /\ q \in Threads => new.sp = q /\ ("lr" \in spoiled[q] \/ new.lr = own[q].lr)
        /\ q = p \/ p \in Threads
        /\ new = Registers => q = p
  <2>1. CASE new = Registers
    <3>1. p \in Threads => sp["usr"] = p /\ ("lr" \in spoiled[p] \/ lr["usr"] = own[p].lr)
      BY <1>1, <1>2 DEF Banked
    <3> QED
      BY <1>1, <1>5, <2>1, <3>1 DEF Context
  <2>2. CASE new # Registers
    <3>1. PICK t \in Threads \ {p} : new = threads[t]
      BY <1>1, <1>3, <2>2
    <3>2. p \in Threads
      BY <1>1, <1>2, <1>3, <2>2
    <3>3. Sees(t, threads[t]) /\ t \in Programs /\ t # Main /\ own[t].sp = t
          /\ RegisterFile(threads[t].r)
      BY <1>1, <3>1, ProgramsAssumption DEF Inv, ParkedInv, Programs, OwnInv, ShapeInv, Context
    <3> QED
      BY <1>2, <2>2, <3>1, <3>2, <3>3 DEF Sees, Seen
  <2> QED
    BY <2>1, <2>2
<1>7. /\ gpr'["r0"] = new.pc /\ RegisterFile(gpr')
      /\ lr'["usr"] = lr["usr"] /\ lr'["svc"] = lr["svc"] /\ lr' = [b \in Banks |-> lr'[b]]
      /\ mem'.r = new.r /\ mem'.sys = <<new.sp, new.lr>>
      /\ mem' = [r |-> mem'.r, lr |-> mem'.lr, sys |-> mem'.sys]
  <2>1. gpr'["r0"] = new.pc /\ RegisterFile(gpr')
    BY <1>3 DEF Call, RegisterFile, GPR, Inv, ShapeInv
  <2>2. lr'["usr"] = lr["usr"] /\ lr'["svc"] = lr["svc"] /\ lr' = [b \in Banks |-> lr'[b]]
    BY <1>1, <1>3 DEF Call, Banks, Inv, ShapeInv
  <2>3. mem = [r |-> mem.r, lr |-> mem.lr, sys |-> mem.sys]
    BY DEF Inv, ShapeInv
  <2>4. mem' = [r |-> new.r, lr |-> mem.lr, sys |-> <<new.sp, new.lr>>]
    <3> DEFINE l == mem.lr
               m == mem.r
               s == mem.sys
    <3>1. mem = [r |-> m, lr |-> l, sys |-> s]
      BY <2>3
    <3> HIDE DEF l, m, s
    <3>2. mem' = [r |-> new.r, lr |-> l, sys |-> <<new.sp, new.lr>>]
      BY <1>3, <3>1
    <3> QED
      BY <3>2 DEF l
  <2> QED
    BY <2>1, <2>2, <2>4
<1>8. Runner' = q
  <2>1. own[q].pc = [of |-> q, stage |-> own[q].pc.stage, n |-> own[q].pc.n, off |-> 0]
    BY <1>6 DEF Inv, OwnInv
  <2> QED
    BY <1>1, <1>4, <1>6, <1>7, <2>1 DEF Runner
<1>9. /\ threads' = [t \in Threads |-> threads'[t]]
      /\ \A t \in Threads : threads'[t] = threads[t] \/ (t = p /\ threads'[t] = Registers)
      /\ q # p => threads'[p] = Registers
  <2>1. CASE new = Registers /\ UNCHANGED threads
    BY <1>6, <2>1 DEF Inv, ShapeInv
  <2>2. CASE spsr[mode].mode = "usr" /\ threads' = [threads EXCEPT ![p] = Registers]
    BY <1>1, <1>2, <2>2 DEF Inv, ShapeInv
  <2> QED
    BY <1>1, <1>3, <2>1, <2>2
<1>10. ShapeInv'
  <2>1. \A t \in Threads : Context(threads'[t])
    BY <1>5, <1>9 DEF Inv, ShapeInv
  <2> QED
    BY <1>1, <1>4, <1>6, <1>7, <1>9, <2>1 DEF Inv, ShapeInv, OwnShape
<1>11. OwnInv'
  BY <1>2, <1>4, <1>9 DEF Inv, OwnInv
<1>12. ProgramInv'
  BY <1>4 DEF ProgramInv, Lost
<1>13. TakenInv'
  <2>1. Banked(p)'
    <3>1. lr'[ModeOf(p)] = lr[ModeOf(p)]
      BY <1>2, <1>7
    <3> QED
      BY <1>1, <1>4, <3>1 DEF Banked
  <2>2. Mask(p)' = Mask(p)
    BY <1>4 DEF Mask
  <2> QED
    BY <1>1, <1>4, <2>1, <2>2 DEF Inv, TakenInv
<1>14. FrameInv'
  <2>1. Seen(q, mem.r)'
    BY <1>4, <1>6, <1>7 DEF Seen
  <2> QED
    BY <1>1, <1>4, <1>6, <1>7, <1>8, <2>1 DEF FrameInv
<1>15. ParkedInv'
  <2> SUFFICES ASSUME NEW t \in Threads, t # q
               PROVE  Sees(t, threads[t])'
    BY <1>8 DEF ParkedInv
  <2>1. CASE t = p
    <3>1. threads'[t] = Registers
      BY <1>9, <2>1
    <3>2. sp["usr"] = p /\ own[p].sp = p /\ ("lr" \in spoiled[p] \/ lr["usr"] = own[p].lr)
      BY <1>1, <1>2, <2>1 DEF Banked, Inv, OwnInv
    <3> QED
      BY <1>1, <1>4, <1>5, <2>1, <3>1, <3>2 DEF Sees, Seen
  <2>2. CASE t # p
    <3>1. Sees(t, threads[t]) /\ threads'[t] = threads[t]
      BY <1>1, <1>9, <2>2 DEF Inv, ParkedInv
    <3> QED
      BY <1>4, <3>1 DEF Sees
  <2> QED
    BY <2>1, <2>2
<1> QED
  BY <1>10, <1>11, <1>12, <1>13, <1>14, <1>15 DEF Inv

\* movs pc, lr gives q, with its registers in place, the processor.
LEMMA ReturnStep ==
  ASSUME Inv, at # "program", NEW q \in Programs, q = Runner, q = Main <=> pc.of = Main,
         Movs(own[q].pc), ShapeInv', UNCHANGED <<table, pushed, threads, history>>,
         IF q = Main /\ own[q].pc.stage = "called" /\ table = "normal"
         THEN sp'["svc"] = None
         ELSE Banked(q)' /\ Seen(q, gpr)'
  PROVE  Inv'
<1>1. /\ pc' = own[q].pc /\ mode' = spsr[mode].mode /\ masked' = spsr[mode].masked
      /\ at' = "program" /\ UNCHANGED <<own, spoiled, want>>
  BY DEF Movs, history
<1>2. own[q].pc = [of |-> q, stage |-> own[q].pc.stage, n |-> own[q].pc.n, off |-> 0]
  BY DEF Inv, OwnInv
<1>3. pc'.of = q /\ Runner' = q
  BY <1>1, <1>2 DEF Runner
<1>4. mode' = ModeOf(q) /\ masked' = Mask(q)'
  <2>1. spsr[mode] = [mode |-> ModeOf(pc.of), masked |-> Mask(pc.of)] /\ pc.of \in Programs
    BY DEF Inv, ShapeInv, TakenInv
  <2>2. spsr[mode].mode = ModeOf(pc.of) /\ spsr[mode].masked = Mask(pc.of)
    BY <2>1
  <2>3. ModeOf(q) = ModeOf(pc.of)
    BY <2>1 DEF ModeOf
  <2>4. q \in Threads <=> pc.of \in Threads
    BY <2>1, Modes
  <2>5. Mask(q)' = Mask(pc.of)
    <3>1. want' = want
      BY <1>1
    <3> QED
      BY <2>4, <3>1, Zenon DEF Mask
  <2> QED
    BY <1>1, <2>2, <2>3, <2>5
<1>5. OwnInv'
  BY <1>1, <1>3 DEF Inv, OwnInv
<1>6. ProgramInv'
  BY <1>1, <1>3, <1>4, Modes DEF ProgramInv, Lost
<1>7. TakenInv' /\ FrameInv'
  BY <1>1 DEF TakenInv, FrameInv
<1>8. ParkedInv'
  BY <1>1, <1>3, StayParked
<1> QED
  BY <1>5, <1>6, <1>7, <1>8 DEF Inv

\* Popping leaves the registers in shape.
LEMMA Popped ==
  ASSUME Inv, NEW registers, Pop(registers), NEW return, Movs(return), return.of \in Programs,
         lr' = [b \in Banks |-> lr'[b]], sp' = [b \in Banks |-> sp'[b]],
         UNCHANGED <<table, pushed, threads, history>>
  PROVE  ShapeInv'
<1>1. mem' = [r |-> [x \in GPR |-> Junk], lr |-> Junk, sys |-> <<None, Junk>>]
      /\ gpr' = [x \in GPR |-> IF x \in registers THEN mem.r[x] ELSE gpr[x]]
  BY DEF Pop, Free
<1>2. spsr' = [b \in Banks \ {"usr"} |-> spsr'[b]] /\ pc' = return /\ at' = "program" /\ exc' = "none"
  BY DEF Movs, Inv, ShapeInv
<1>3. RegisterFile(gpr') /\ RegisterFile(mem'.r)
      /\ mem' = [r |-> mem'.r, lr |-> mem'.lr, sys |-> mem'.sys]
  BY <1>1 DEF RegisterFile
<1> QED
  BY <1>2, <1>3 DEF Inv, ShapeInv, OwnShape, history

\* An interrupt and a data abort give all registers back.
LEMMA RestoreStep == ASSUME Inv, IrqRestore \/ DataRestore PROVE Inv'
<1>0. PICK p \in Programs : p = pc.of
  BY DEF Inv, ShapeInv
<1>1. p = pc.of /\ at = "restore" /\ exc \in {"irq", "dabt"} /\ Runner = p /\ Banked(p)
      /\ mem.lr = Plus(own[p].pc, AheadSaved(exc))
      /\ (p = Main => own[p].pc.stage # "called" \/ table # "normal")
  BY <1>0 DEF IrqRestore, DataRestore, Restoring, Inv, ShapeInv, TakenInv, FrameInv, Runner
<1>2. \A x \in GPR \ spoiled[p] : mem.r[x] = own[p].r[x]
  BY <1>1 DEF Inv, FrameInv
<1>3. Pop(GPR) /\ UNCHANGED <<sp, lr, table, pushed, threads, history>>
  BY DEF IrqRestore, DataRestore
<1>4. Movs(own[p].pc)
  <2>1. CASE IrqRestore
    BY <1>1, <2>1, PlaceOffsets DEF IrqRestore, Restoring, AheadSaved
  <2>2. CASE DataRestore
    BY <1>1, <2>2, PlaceOffsets DEF DataRestore, Restoring, AheadSaved
  <2> QED
    BY <2>1, <2>2
<1>5. own[p].pc.of = p
  <2>1. own[p].pc = [of |-> p, stage |-> own[p].pc.stage, n |-> own[p].pc.n, off |-> 0]
    BY DEF Inv, OwnInv
  <2> QED
    BY <2>1
<1>6. ShapeInv'
  <2>1. lr' = [b \in Banks |-> lr'[b]] /\ sp' = [b \in Banks |-> sp'[b]]
    BY <1>3 DEF Inv, ShapeInv
  <2> QED
    BY <1>1, <1>3, <1>4, <1>5, <2>1, Popped
<1>7. pc'.of = p /\ UNCHANGED <<own, spoiled>>
  BY <1>3, <1>4, <1>5 DEF Movs, history
<1>8. Banked(p)' /\ Seen(p, gpr)'
  <2>1. Banked(p)'
    BY <1>1, <1>3, <1>7 DEF Banked
  <2>2. Seen(p, gpr)'
    BY <1>2, <1>3, <1>7 DEF Seen, Pop
  <2> QED
    BY <2>1, <2>2
<1> QED
  BY <1>1, <1>3, <1>4, <1>6, <1>8, ReturnStep

\* A system call gives back what it saved, and Main's return loses its stack.
LEMMA SwiRestoreStep == ASSUME Inv, SwiRestore PROVE Inv'
<1>0. PICK p \in Programs : p = pc.of
  BY DEF Inv, ShapeInv
<1>1. at = "restore" /\ exc = "swi" /\ mode = "svc" /\ Runner = p /\ table = "normal"
      /\ mem.lr = own[p].pc /\ own[p].pc.stage = "called" /\ {"r0", "r1"} \subseteq spoiled[p]
      /\ (p \in Threads => Banked(p)) /\ (p = Main => sp["svc"] = None)
  <2>1. at = "restore" /\ exc = "swi" /\ Runner = p
    BY <1>0 DEF SwiRestore, Restoring, Runner
  <2>2. mode = "svc" /\ table = "normal" /\ own[p].pc.stage = "called"
        /\ {"r0", "r1"} \subseteq spoiled[p]
        /\ (p \in Threads => Banked(p)) /\ (p = Main => sp["svc"] = None)
    BY <1>0, <2>1 DEF Inv, TakenInv, Bank
  <2>3. mem.lr = Plus(own[p].pc, 0)
    BY <1>0, <2>1 DEF Inv, FrameInv, AheadSaved
  <2> QED
    BY <2>1, <2>2, <2>3, PlaceOffsets
<1>2. \A x \in {"r4", "r12"} \ spoiled[p] : mem.r[x] = own[p].r[x]
  BY <1>0, <1>1 DEF Inv, FrameInv, GPR
<1>3. Pop({"r4", "r12"}) /\ lr' = [lr EXCEPT ![mode] = mem.lr] /\ Movs(own[p].pc)
      /\ UNCHANGED <<sp, table, pushed, threads, history>>
  BY <1>1 DEF SwiRestore
<1>4. own[p].pc.of = p
  <2>1. own[p].pc = [of |-> p, stage |-> own[p].pc.stage, n |-> own[p].pc.n, off |-> 0]
    BY DEF Inv, OwnInv
  <2> QED
    BY <2>1
<1>5. ShapeInv'
  <2>1. lr' = [b \in Banks |-> lr'[b]] /\ sp' = [b \in Banks |-> sp'[b]]
    BY <1>3 DEF Inv, ShapeInv
  <2> QED
    BY <1>3, <1>4, <2>1, Popped
<1>6. UNCHANGED <<own, spoiled>>
  BY <1>3 DEF history
<1>7. p \in Threads => Banked(p)' /\ Seen(p, gpr)'
  <2> SUFFICES ASSUME p \in Threads
               PROVE  Banked(p)' /\ Seen(p, gpr)'
    OBVIOUS
  <2>1. Banked(p)'
    <3>1. ModeOf(p) = "usr" /\ "usr" \in Banks
      BY Modes DEF Banks
    <3>2. lr'["usr"] = lr["usr"]
      BY <1>1, <1>3, <3>1 DEF Inv, ShapeInv
    <3> QED
      BY <1>1, <1>3, <1>6, <3>1, <3>2 DEF Banked
  <2>2. Seen(p, gpr)'
    <3>1. GPR \ spoiled[p] \subseteq {"r4", "r12"} \ spoiled[p] /\ {"r4", "r12"} \subseteq GPR
      BY <1>1 DEF GPR
    <3>2. \A x \in {"r4", "r12"} : gpr'[x] = mem.r[x]
      BY <1>3, <3>1 DEF Pop
    <3> QED
      BY <1>2, <1>6, <3>1, <3>2 DEF Seen
  <2> QED
    BY <2>1, <2>2
<1>8. p = Main => sp'["svc"] = None
  BY <1>1, <1>3
<1> QED
  BY <1>0, <1>1, <1>3, <1>5, <1>7, <1>8, Modes, ReturnStep

\* sys_plus1_handler changes r0 and nothing else.
LEMMA Plus1Step == ASSUME Inv, Plus1 PROVE Inv'
<1>0. PICK p \in Programs : p = pc.of
  BY DEF Inv, ShapeInv
<1>1. at = "plus1" /\ mode = "svc" /\ Runner = p /\ table # "normal" /\ lr[mode] = own[p].pc
      /\ "r0" \in spoiled[p] /\ Banked(p) /\ Seen(p, gpr)
  <2>1. at = "plus1" /\ Runner = p
    BY <1>0 DEF Plus1, Runner
  <2>2. exc = "swi" /\ mode = "svc" /\ table # "normal" /\ "r0" \in spoiled[p] /\ Banked(p)
    BY <1>0, <2>1 DEF Inv, TakenInv, Bank
  <2>3. lr[mode] = Plus(own[p].pc, 0) /\ Seen(p, gpr)
    BY <1>0, <2>1, <2>2 DEF Inv, FrameInv, Ahead
  <2> QED
    BY <2>1, <2>2, <2>3, PlaceOffsets
<1>2. gpr' = [gpr EXCEPT !["r0"] = Result] /\ Movs(own[p].pc)
      /\ UNCHANGED <<sp, lr, table, mem, pushed, threads, history>>
  BY <1>1 DEF Plus1
<1>3. UNCHANGED <<own, spoiled>>
  BY <1>2 DEF history
<1>4. own[p].pc.of = p
  <2>1. own[p].pc = [of |-> p, stage |-> own[p].pc.stage, n |-> own[p].pc.n, off |-> 0]
    BY DEF Inv, OwnInv
  <2> QED
    BY <2>1
<1>5. ShapeInv'
  <2>1. RegisterFile(gpr')
    BY <1>2 DEF Inv, ShapeInv, RegisterFile
  <2>2. spsr' = [b \in Banks \ {"usr"} |-> spsr'[b]] /\ pc'.of = p /\ at' = "program" /\ exc' = "none"
    BY <1>2, <1>4 DEF Movs, Inv, ShapeInv
  <2> QED
    BY <1>2, <1>3, <2>1, <2>2 DEF Inv, ShapeInv, OwnShape
<1>6. Banked(p)' /\ Seen(p, gpr)'
  <2>1. Banked(p)'
    BY <1>1, <1>2, <1>3 DEF Banked
  <2>2. \A x \in GPR \ {"r0"} : gpr'[x] = gpr[x]
    BY <1>2 DEF Inv, ShapeInv, RegisterFile
  <2>3. Seen(p, gpr)'
    BY <1>1, <1>3, <2>2 DEF Seen
  <2> QED
    BY <2>1, <2>3
<1> QED
  BY <1>0, <1>1, <1>2, <1>5, <1>6, ReturnStep

\* A prefetch abort gives the frame's program its registers, wherever they are from.
LEMMA PrefetchRestoreStep == ASSUME Inv, PrefetchRestore PROVE Inv'
<1>1. at = "restore" /\ exc = "pabt"
  BY DEF PrefetchRestore, Restoring
<1>2. PICK q \in Programs :
        /\ q = Runner /\ (q = Main <=> pc.of = Main) /\ gpr["r0"] = own[q].pc /\ Seen(q, mem.r)
        /\ q \in Threads => mem.sys[1] = q /\ ("lr" \in spoiled[q] \/ mem.sys[2] = own[q].lr)
  BY <1>1 DEF Inv, FrameInv
<1>3. q = Main => Banked(q) /\ (own[q].pc.stage # "called" \/ table # "normal")
  BY <1>1, <1>2 DEF Inv, TakenInv
<1>4. /\ sp' = [sp EXCEPT !["usr"] = mem.sys[1]] /\ lr' = [lr EXCEPT !["usr"] = mem.sys[2]]
      /\ Pop(GPR) /\ Movs(own[q].pc) /\ UNCHANGED <<table, pushed, threads, history>>
  BY <1>2 DEF PrefetchRestore
<1>5. UNCHANGED <<own, spoiled>>
  BY <1>4 DEF history
<1>6. own[q].pc.of = q
  <2>1. own[q].pc = [of |-> q, stage |-> own[q].pc.stage, n |-> own[q].pc.n, off |-> 0]
    BY DEF Inv, OwnInv
  <2> QED
    BY <2>1
<1>7. /\ sp' = [b \in Banks |-> sp'[b]] /\ lr' = [b \in Banks |-> lr'[b]]
      /\ sp'["usr"] = mem.sys[1] /\ lr'["usr"] = mem.sys[2]
      /\ sp'["svc"] = sp["svc"] /\ lr'["svc"] = lr["svc"]
  BY <1>4 DEF Inv, ShapeInv, Banks
<1>8. ShapeInv'
  BY <1>4, <1>6, <1>7, Popped
<1>9. Banked(q)' /\ Seen(q, gpr)'
  <2>1. CASE q = Main
    <3>1. ModeOf(q) = "svc"
      BY <2>1 DEF ModeOf
    <3> QED
      BY <1>2, <1>3, <1>4, <1>5, <1>7, <2>1, <3>1 DEF Banked, Seen, Pop
  <2>2. CASE q \in Threads
    <3>1. ModeOf(q) = "usr"
      BY <2>2, Modes
    <3> QED
      BY <1>2, <1>4, <1>5, <1>7, <2>2, <3>1 DEF Banked, Seen, Pop
  <2> QED
    BY <2>1, <2>2 DEF Programs
<1> QED
  BY <1>1, <1>2, <1>3, <1>4, <1>8, <1>9, ReturnStep

-----------------------------------------------------------------------------
\* Every step keeps the invariant.
LEMMA NextInv == ASSUME Inv, [Next]_vars PROVE Inv'
<1>1. CASE UNCHANGED vars
  <2>1. /\ UNCHANGED <<mode, masked, spsr, gpr, sp, lr, pc, table, at, exc, mem, pushed, threads>>
        /\ UNCHANGED <<want, own, spoiled>>
    BY <1>1 DEF vars, cpu, history
  <2>2. ShapeInv'
    BY <2>1 DEF Inv, ShapeInv, OwnShape
  <2>3. OwnInv'
    BY <2>1 DEF Inv, OwnInv
  <2>4. ProgramInv'
    BY <2>1 DEF Inv, ProgramInv, Lost, Banked, Seen, Mask
  <2>5. TakenInv'
    BY <2>1 DEF Inv, TakenInv, Banked, Mask
  <2>6. FrameInv'
    BY <2>1 DEF Inv, FrameInv, Runner, Seen
  <2>7. ParkedInv'
    <3>1. Runner' = Runner
      BY <2>1 DEF Runner
    <3> QED
      BY <2>1, <3>1, StayParked
  <2> QED
    BY <2>2, <2>3, <2>4, <2>5, <2>6, <2>7 DEF Inv
<1>2. CASE \E p \in Programs : Work(p) \/ PushLr(p) \/ Swi(p) \/ PopLr(p)
  BY <1>2, WorkStep, PushLrStep, SwiStep, PopLrStep
<1>3. CASE (\E t \in Threads : RunUserCode(t)) \/ SetMask \/ SetTable
  BY <1>3, RunUserCodeStep, SetMaskStep, SetTableStep
<1>4. CASE Irq \/ DataAbort \/ PrefetchAbort
  BY <1>4, InterruptStep
<1>5. CASE IrqSave \/ DataSave \/ SwiSave \/ PrefetchSave
  BY <1>5, SaveSteps, PrefetchSaveStep
<1>6. CASE Vector \/ SyscallVector \/ PrefetchVector
  BY <1>6, CallStep, PrefetchVectorStep
<1>7. CASE IrqRestore \/ DataRestore \/ SwiRestore \/ Plus1 \/ PrefetchRestore
  BY <1>7, RestoreStep, SwiRestoreStep, Plus1Step, PrefetchRestoreStep
<1> QED
  BY <1>1, <1>2, <1>3, <1>4, <1>5, <1>6, <1>7 DEF Next

LEMMA Invariant == Spec => []Inv
<1>1. Init => Inv
  BY InitInv
<1>2. Inv /\ [Next]_vars => Inv'
  BY NextInv
<1> QED
  BY <1>1, <1>2, PTL DEF Spec

\* Whatever the interrupts, aborts and system calls, and whichever thread the
\* single-stepper goes on with, a program that runs has its registers.
THEOREM ExceptionsTransparent == Spec => []Transparent
<1>1. Inv => Transparent
  <2> SUFFICES ASSUME Inv, at = "program", ~Lost
               PROVE  /\ mode = ModeOf(pc.of)
                      /\ masked = (pc.of \in Threads \/ want)
                      /\ Sees(pc.of, Current)
    BY DEF Transparent, Lost
  <2>1. mode = ModeOf(pc.of) /\ pc = own[pc.of].pc /\ Banked(pc.of) /\ Seen(pc.of, gpr)
    BY DEF Inv, ProgramInv
  <2>2. masked = Mask(pc.of)
    BY DEF Inv, ProgramInv
  <2>3. masked = (pc.of \in Threads \/ want)
    BY <2>2, Zenon DEF Mask
  <2>4. own[pc.of].sp = pc.of
    BY DEF Inv, ShapeInv, OwnInv
  <2>5. Current.pc = pc /\ Current.sp = sp[mode] /\ Current.lr = lr[mode] /\ Current.r = gpr
    BY DEF Current
  <2>6. Sees(pc.of, Current)
    BY <2>1, <2>4, <2>5 DEF Sees, Banked, Seen
  <2> QED
    BY <2>1, <2>3, <2>6
<1> QED
  BY <1>1, Invariant, PTL

\* The single-stepper gets the registers of the thread it stopped, and keeps those
\* of the others.
THEOREM ThreadsParked == Spec => []Parked
<1>1. Inv => Parked
  <2> SUFFICES ASSUME Inv
               PROVE  Parked
    OBVIOUS
  <2>1. ASSUME at = "handler", exc = "pabt", spsr["abt"].mode = "usr"
        PROVE  Sees(gpr["r0"].of, Registers)
    <3>0. PICK p \in Programs : p = pc.of
      BY DEF Inv, ShapeInv
    <3>1. mode = "abt" /\ spsr[mode] = [mode |-> ModeOf(p), masked |-> Mask(p)] /\ Banked(p)
      BY <2>1, <3>0 DEF Inv, TakenInv, Bank
    <3>2. gpr["r0"] = own[p].pc /\ mem.sys = <<sp["usr"], lr["usr"]>> /\ Seen(p, mem.r)
      BY <2>1, <3>0 DEF Inv, FrameInv
    <3>3. own[p].pc = [of |-> p, stage |-> own[p].pc.stage, n |-> own[p].pc.n, off |-> 0]
          /\ own[p].sp = p
      BY DEF Inv, OwnInv
    <3>4. ModeOf(p) = "usr" /\ gpr["r0"].of = p
      BY <2>1, <3>1, <3>2, <3>3
    <3>5. Registers.pc = gpr["r0"] /\ Registers.sp = sp["usr"] /\ Registers.lr = lr["usr"]
          /\ Registers.r = mem.r
      BY <3>2 DEF Registers
    <3> QED
      BY <3>1, <3>2, <3>3, <3>4, <3>5 DEF Sees, Banked, Seen
  <2>2. ASSUME at = "program"
        PROVE  \A t \in Threads \ {pc.of} : Sees(t, threads[t])
    BY <2>2 DEF Inv, ParkedInv, Runner
  <2> QED
    BY <2>1, <2>2 DEF Parked
<1> QED
  BY <1>1, Invariant, PTL

=============================================================================

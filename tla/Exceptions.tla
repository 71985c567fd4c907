----------------------------- MODULE Exceptions -----------------------------
(***************************************************************************)
(* The exception vectors at the grain of their assembly                    *)
(* (lib/src/interrupts.rs 97-283): banked registers, the one exception     *)
(* stack all modes start on, what each vector saves, and the return.       *)
(*                                                                         *)
(* Programs are the application (Main, in supervisor mode) and user code   *)
(* (Threads).  A register holds the name of the program whose value it is  *)
(* and a bit that the program flips as it computes, so that a value of     *)
(* another program, or an old one, is told apart.  r1 stands for r1-r3 and *)
(* r4 for r4-r11.  A history variable gives each program registers of its  *)
(* own; the properties compare the processor's with them.                  *)
(*                                                                         *)
(* As the source says, exceptions do not nest: handlers are not themselves *)
(* interrupted by aborts or system calls.                                  *)
(***************************************************************************)
EXTENDS Integers, FiniteSets

CONSTANTS Main, Threads, None

Programs == Threads \cup {Main}

ASSUME ProgramsAssumption == Main \notin Threads /\ None \notin Programs

VARIABLES
  mode, masked,  \* cpsr: processor mode, I bit
  spsr,          \* per exception mode: a saved cpsr
  gpr,           \* general-purpose registers
  sp, lr,        \* r13 and r14, per bank
  pc,
  table,         \* vector table in use: the normal or one of the demo's
  at, exc,       \* part of the vector being executed, the exception's kind
  mem,           \* what is pushed from INT_STACK_ADDR on
  pushed,        \* per program: the word that a system call's push {lr} wrote
  threads,       \* per thread: its registers in THREADS
  want,          \* history: the I bit as the application set it
  own,           \* history: per program, the registers it should see
  spoiled        \* history: per program, registers it may not rely on

history == <<want, own, spoiled>>
cpu == <<mode, masked, spsr, gpr, sp, lr, pc>>
vars == <<cpu, table, at, exc, mem, pushed, threads, history>>

GPR == {"r0", "r1", "r4", "r12"}
Banks == {"usr", "svc", "irq", "abt"}
Bank == [irq |-> "irq", swi |-> "svc", pabt |-> "abt", dabt |-> "abt"]

Value(p, n) == [of |-> p, n |-> n]
Junk == Value(None, 0)
Result == Value(None, 1)

Address(p, stage, n) == [of |-> p, stage |-> stage, n |-> n, off |-> 0]
Plus(address, k) == [address EXCEPT !.off = @ + k]

ModeOf(p) == IF p = Main THEN "svc" ELSE "usr"

Unset == [mode |-> "svc", masked |-> TRUE]

\* Nothing is pushed at INT_STACK_ADDR.
Free == [r |-> [x \in GPR |-> Junk], lr |-> Junk, sys |-> <<None, Junk>>]

\* The registers of a program at work, all computed by it: its stack is named after it.
Computed(p, n) ==
  [pc |-> Address(p, "work", n), sp |-> p, lr |-> Value(p, n),
   r |-> [x \in GPR |-> Value(p, n)]]

\* When it starts.
Fresh(p) == Computed(p, 0)

Init ==
  /\ mode = "svc" /\ masked = TRUE /\ pc = Fresh(Main).pc
  /\ spsr = [b \in Banks \ {"usr"} |-> Unset]
  /\ gpr = Fresh(Main).r
  /\ sp = [b \in Banks |-> IF b = "svc" THEN Main ELSE None]
  /\ lr = [b \in Banks |-> IF b = "svc" THEN Fresh(Main).lr ELSE Junk]
  /\ table = "normal" /\ at = "program" /\ exc = "none"
  /\ mem = Free
  /\ pushed = [p \in Programs |-> Junk]
  /\ threads = [t \in Threads |-> Fresh(t)]
  /\ want = TRUE
  /\ own = [p \in Programs |-> Fresh(p)]
  /\ spoiled = [p \in Programs |-> {}]

-----------------------------------------------------------------------------
(* The programs.  One that has lost its stack is not followed any further. *)

Runs(p) == at = "program" /\ pc.of = p /\ pc.off = 0 /\ sp[mode] = p

\* A program computes: all its registers change.
Work(p) ==
  /\ Runs(p)
  /\ pc.stage = "work"
  /\ LET new == Computed(p, 1 - pc.n)
     IN /\ pc' = new.pc
        /\ gpr' = new.r
        /\ lr' = [lr EXCEPT ![mode] = new.lr]
        /\ own' = [own EXCEPT ![p] = new]
  /\ spoiled' = [spoiled EXCEPT ![p] = {}]
  /\ UNCHANGED <<mode, masked, spsr, sp, table, at, exc, mem, pushed, threads, want>>

\* enable_interrupts and disable_interrupts.
SetMask ==
  /\ Runs(Main)
  /\ pc.stage = "work"
  /\ masked' = ~masked
  /\ want' = masked'
  /\ UNCHANGED <<mode, spsr, gpr, sp, lr, pc, table, at, exc, mem, pushed, threads,
                 own, spoiled>>

\* set_vector_table_base: "plus1" stands for the slow and the fast table.
SetTable ==
  /\ Runs(Main)
  /\ pc.stage = "work"
  /\ table' \in {"normal", "plus1"}
  /\ UNCHANGED <<cpu, at, exc, mem, pushed, threads, history>>

\* run_user_code: the thread gets a stack, and whatever is in the registers.
RunUserCode(t) ==
  /\ Runs(Main)
  /\ pc.stage = "work"
  /\ mode' = "usr"
  /\ masked' = TRUE
  /\ sp' = [sp EXCEPT !["usr"] = t]
  /\ pc' = own[t].pc
  /\ own' = [own EXCEPT ![t].r = gpr, ![t].lr = lr["usr"]]
  /\ UNCHANGED <<spsr, gpr, lr, table, at, exc, mem, pushed, threads, want, spoiled>>

Goto(p, stage) ==
  /\ pc' = [pc EXCEPT !.stage = stage]
  /\ own' = [own EXCEPT ![p].pc.stage = stage]

\* syscall_hello and its like: push {lr}; mov r0, v; swi; pop {lr}.
PushLr(p) ==
  /\ Runs(p)
  /\ pc.stage = "work"
  /\ Goto(p, "pushed")
  /\ pushed' = [pushed EXCEPT ![p] = lr[mode]]
  /\ UNCHANGED <<mode, masked, spsr, gpr, sp, lr, table, at, exc, mem, threads, want,
                 spoiled>>

PopLr(p) ==
  /\ Runs(p)
  /\ pc.stage = "called"
  /\ Goto(p, "work")
  /\ lr' = [lr EXCEPT ![mode] = pushed[p]]
  /\ spoiled' = [spoiled EXCEPT ![p] = @ \ {"lr"}]
  /\ UNCHANGED <<mode, masked, spsr, gpr, sp, table, at, exc, mem, pushed, threads,
                 want>>

-----------------------------------------------------------------------------
(* What the processor does at an exception: lr is the address to return to *)
(* plus an offset that depends on the exception.                           *)

Take(e, return) ==
  /\ exc' = e
  /\ mode' = Bank[e]
  /\ masked' = TRUE
  /\ spsr' = [spsr EXCEPT ![Bank[e]] = [mode |-> mode, masked |-> masked]]
  /\ lr' = [lr EXCEPT ![Bank[e]] = return]
  /\ UNCHANGED <<gpr, sp, pc, table, mem, pushed, threads, want>>

Irq ==
  /\ Runs(pc.of)
  /\ ~masked
  /\ Take("irq", Plus(pc, 4))
  /\ at' = "save"
  /\ UNCHANGED <<own, spoiled>>

\* A watchpoint, or an access outside the pinned segments.
DataAbort ==
  /\ Runs(pc.of)
  /\ Take("dabt", Plus(pc, 8))
  /\ at' = "save"
  /\ UNCHANGED <<own, spoiled>>

\* A breakpoint, or a jump outside the pinned segments.
PrefetchAbort ==
  /\ Runs(pc.of)
  /\ Take("pabt", Plus(pc, 4))
  /\ at' = "save"
  /\ UNCHANGED <<own, spoiled>>

\* In supervisor mode the return address lands in the caller's own lr.
Swi(p) ==
  /\ Runs(p)
  /\ pc.stage = "pushed"
  /\ Take("swi", [pc EXCEPT !.stage = "called"])
  /\ own' = [own EXCEPT ![p].pc.stage = "called"]
  /\ at' = IF table = "normal" THEN "save" ELSE "plus1"
  /\ spoiled' = [spoiled EXCEPT ![p] = @ \cup {"r0"}
                                          \cup (IF table = "normal" THEN {"r1"} ELSE {})
                                          \cup (IF p = Main THEN {"lr"} ELSE {})]

\* movs pc, lr: the mode's spsr becomes cpsr.  What is left in spsr, and in the lr of
\* an interrupt or abort, is not read again and not kept here.
Movs(return) ==
  /\ pc' = return
  /\ mode' = spsr[mode].mode
  /\ masked' = spsr[mode].masked
  /\ spsr' = [spsr EXCEPT ![mode] = Unset]
  /\ at' = "program"
  /\ exc' = "none"

-----------------------------------------------------------------------------
(* The vectors: save, call the Rust handler, restore and return.           *)

\* A call of a Rust function changes the registers that a caller has to save.
Call(r0) ==
  /\ gpr' = [gpr EXCEPT !["r0"] = r0, !["r1"] = Junk, !["r12"] = Junk]
  /\ lr' = [lr EXCEPT ![mode] = Junk]

Saving(e) == at = "save" /\ exc = e
Handling(e) == at = "handler" /\ exc = e
Restoring(e) == at = "restore" /\ exc = e

\* mov sp, INT_STACK_ADDR, and push.
Push(registers, return) ==
  /\ sp' = [sp EXCEPT ![mode] = None]
  /\ mem' = [Free EXCEPT !.r = [x \in GPR |-> IF x \in registers THEN gpr[x] ELSE Junk],
                         !.lr = return]
  /\ at' = "handler"

Pop(registers) ==
  /\ gpr' = [x \in GPR |-> IF x \in registers THEN mem.r[x] ELSE gpr[x]]
  /\ mem' = Free

\* Mutant: what software_interrupt_asm pushes.
IrqSaveFew ==
  /\ Saving("irq")
  /\ Push({"r4", "r12"}, Plus(lr[mode], -4))
  /\ UNCHANGED <<mode, masked, spsr, gpr, lr, pc, table, exc, pushed, threads, want,
                 own,
                 spoiled>>

\* interrupt_asm.
IrqSave ==
  /\ Saving("irq")
  /\ Push(GPR, Plus(lr[mode], -4))
  /\ UNCHANGED <<mode, masked, spsr, gpr, lr, pc, table, exc, pushed, threads, history>>

IrqRestore ==
  /\ Restoring("irq")
  /\ Pop(GPR)
  /\ Movs(mem.lr)
  /\ UNCHANGED <<sp, lr, table, pushed, threads, history>>

\* data_abort_asm: here the offset is taken off at the end.
DataSave ==
  /\ Saving("dabt")
  /\ Push(GPR, lr[mode])
  /\ UNCHANGED <<mode, masked, spsr, gpr, lr, pc, table, exc, pushed, threads, history>>

DataRestore ==
  /\ Restoring("dabt")
  /\ Pop(GPR)
  /\ Movs(Plus(mem.lr, -8))
  /\ UNCHANGED <<sp, lr, table, pushed, threads, history>>

\* interrupt_vector and data_abort_vector give no register a value.
Vector ==
  /\ at = "handler"
  /\ exc \in {"irq", "dabt"}
  /\ Call(Junk)
  /\ at' = "restore"
  /\ UNCHANGED <<mode, masked, spsr, sp, pc, table, exc, mem, pushed, threads, history>>

\* software_interrupt_asm: r0-r3 are not saved.
SwiSave ==
  /\ Saving("swi")
  /\ Push({"r4", "r12"}, lr[mode])
  /\ UNCHANGED <<mode, masked, spsr, gpr, lr, pc, table, exc, pushed, threads, history>>

SyscallVector ==
  /\ Handling("swi")
  /\ Call(Result)
  /\ at' = "restore"
  /\ UNCHANGED <<mode, masked, spsr, sp, pc, table, exc, mem, pushed, threads, history>>

SwiRestore ==
  /\ Restoring("swi")
  /\ Pop({"r4", "r12"})
  /\ lr' = [lr EXCEPT ![mode] = mem.lr]
  /\ Movs(mem.lr)
  /\ UNCHANGED <<sp, table, pushed, threads, history>>

\* sys_plus1_handler.
Plus1 ==
  /\ at = "plus1"
  /\ gpr' = [gpr EXCEPT !["r0"] = Result]
  /\ Movs(lr[mode])
  /\ UNCHANGED <<sp, lr, table, mem, pushed, threads, history>>

\* Mutant: r13 and r14 are read without changing to system mode.
PrefetchSaveBanked ==
  /\ Saving("pabt")
  /\ sp' = [sp EXCEPT ![mode] = None]
  /\ mem' = [Free EXCEPT !.r = gpr, !.sys = <<None, lr[mode]>>]
  /\ gpr' = [gpr EXCEPT !["r0"] = Plus(lr[mode], -4), !["r1"] = Junk]
  /\ at' = "handler"
  /\ UNCHANGED <<mode, masked, spsr, lr, pc, table, exc, pushed, threads, history>>

\* prefetch_abort_asm: r0-r12, then r13 and r14 of system mode, which are the
\* user's; the address to return to goes to the handler in r0.
PrefetchSave ==
  /\ Saving("pabt")
  /\ sp' = [sp EXCEPT ![mode] = None]
  /\ mem' = [Free EXCEPT !.r = gpr, !.sys = <<sp["usr"], lr["usr"]>>]
  /\ gpr' = [gpr EXCEPT !["r0"] = Plus(lr[mode], -4), !["r1"] = Junk]
  /\ at' = "handler"
  /\ UNCHANGED <<mode, masked, spsr, lr, pc, table, exc, pushed, threads, history>>

\* The Registers that the wrapper makes of the frame.
Registers == [pc |-> gpr["r0"], sp |-> mem.sys[1], lr |-> mem.sys[2], r |-> mem.r]

\* The handler goes on with the interrupted program or, when the single-stepper
\* runs, with a thread; the wrapper writes its registers into the frame.
PrefetchVector ==
  /\ Handling("pabt")
  /\ \E new \in {Registers} \cup {threads[t] : t \in Threads \ {gpr["r0"].of}} :
       /\ mem' = [mem EXCEPT !.r = new.r, !.sys = <<new.sp, new.lr>>]
       /\ Call(new.pc)
       /\ \/ new = Registers /\ UNCHANGED threads
          \/ /\ spsr[mode].mode = "usr"
             /\ threads' = [threads EXCEPT ![gpr["r0"].of] = Registers]
  /\ at' = "restore"
  /\ UNCHANGED <<mode, masked, spsr, sp, pc, table, exc, pushed, history>>

\* mov lr, r0; r13 and r14 of system mode; r0-r12.
PrefetchRestore ==
  /\ Restoring("pabt")
  /\ sp' = [sp EXCEPT !["usr"] = mem.sys[1]]
  /\ lr' = [lr EXCEPT !["usr"] = mem.sys[2]]
  /\ Pop(GPR)
  /\ Movs(gpr["r0"])
  /\ UNCHANGED <<table, pushed, threads, history>>

-----------------------------------------------------------------------------
Next ==
  \/ \E p \in Programs : Work(p) \/ PushLr(p) \/ Swi(p) \/ PopLr(p)
  \/ \E t \in Threads : RunUserCode(t)
  \/ SetMask
  \/ SetTable
  \/ Irq
  \/ DataAbort
  \/ PrefetchAbort
  \/ IrqSave
  \/ IrqRestore
  \/ DataSave
  \/ DataRestore
  \/ Vector
  \/ SwiSave
  \/ SyscallVector
  \/ SwiRestore
  \/ Plus1
  \/ PrefetchSave
  \/ PrefetchVector
  \/ PrefetchRestore

Spec == Init /\ [][Next]_vars

-----------------------------------------------------------------------------
(* Properties.                                                             *)

\* registers are those that p should see.
Sees(p, registers) ==
  /\ registers.pc = own[p].pc
  /\ registers.sp = own[p].sp
  /\ "lr" \in spoiled[p] \/ registers.lr = own[p].lr
  /\ \A x \in GPR \ spoiled[p] : registers.r[x] = own[p].r[x]

Current == [pc |-> pc, sp |-> sp[mode], lr |-> lr[mode], r |-> gpr]

\* Whatever interrupts, whenever a program runs its registers, stack, mode and I
\* bit are as it left them; only a system call may change r0 and, served by
\* syscall_vector, r1-r3.  A system call through software_interrupt_asm from
\* supervisor mode, which loses the stack, is excluded.
Transparent ==
  at = "program" /\ ~(pc.of = Main /\ pc.stage = "called" /\ table = "normal") =>
    /\ mode = ModeOf(pc.of)
    /\ masked = (pc.of \in Threads \/ want)
    /\ Sees(pc.of, Current)

\* The single-stepper is handed exactly the registers of the thread it stopped,
\* and what it keeps of a thread that does not run is what that thread should see
\* when it runs again.
Parked ==
  /\ at = "handler" /\ exc = "pabt" /\ spsr["abt"].mode = "usr" =>
       Sees(gpr["r0"].of, Registers)
  /\ at = "program" => \A t \in Threads \ {pc.of} : Sees(t, threads[t])

\* What the comments of software_interrupt_asm promise and test_swi relies on: a
\* system call gives back the stack and the registers other than r0.
SyscallRestores ==
  at = "program" /\ pc.stage = "called" =>
    /\ sp[mode] = own[pc.of].sp
    /\ gpr["r1"] = own[pc.of].r["r1"]

=============================================================================

# A verification project for rpi0-rust

TLA+ modules, TLC runs and TLAPS proofs about the bare-metal Rust code for the
Raspberry Pi Zero in this repository: the `pi0_lib` crate (`lib/`), the
application (`app/`), the serial bootloader (`bootloader/`, `bootloader_shared/`)
and the installer that runs on the host (`installer/`).

Run everything from this directory: `tlc -config MCThreads.cfg MCThreads.tla`
checks a configuration, `tlapm CriticalSectionProof.tla` checks the proofs.
`PROJECT.json` lists the runs, what each property's mutant is, which source lines
each definition stands for, the hazards, the findings and the theorems.

## The system

One ARM1176 core, no operating system. Nothing runs in parallel on the Pi;
concurrency comes from interrupts, from exceptions, from cooperative threads,
and from the host at the other end of the serial line.

| Component | State | Operations | Interacts with | What is hard | What makes it correct |
|---|---|---|---|---|---|
| Masking and critical sections (`critical_section.rs`, `interrupts.rs` 62-95, 332-346) | cpsr, spsr, tokens on the stack, every `Mutex<RefCell<_>>` | acquire, release, enable, disable | every component that keeps a static; the IRQ handler | an interrupt between mrs and msr, nesting, borrows open when a handler starts | sections are atomic; the state found is given back; a pending interrupt is taken in the end |
| Exception vectors (`interrupts.rs` 97-283, 401-438) | banked registers, one exception stack at `INT_STACK_ADDR` | IRQ, swi, prefetch and data abort, `run_user_code` | all | each vector saves and returns differently; a swi from supervisor mode shares its caller's stack pointer | the interrupted code sees its registers, stack and mode unchanged |
| Interrupt handlers and timer (`interrupts.rs` 440-626) | slots, free slots, CNT, PERIOD, LAST_CLK | register, remove, `interrupt_vector`, `timer_init` | profiler, GPIO, timer | order of slots, reuse, claimed interrupts, wrapping clock | every registered handler is offered an unclaimed interrupt; slots stay consistent; the period is the elapsed time |
| Cooperative threads (`thread.rs`) | queue, current thread, return pc, register dump, stacks | fork, start, yield, exit | critical sections, the allocator | hand-written context switches, ownership of the stack in use | contexts are kept, nothing is lost or run twice, every thread gets its turn |
| Single-stepper (`debug.rs`) | breakpoint, THREADS, FINISHED_THREADS, stashed registers, scheduler | prefetch abort, spawn, `run_interleaving`, the search in `umain` | coprocessor 14, swi 3 | one context switch per instruction | threads do not disturb each other, each step is scheduled, every interleaving asked for is run |
| Boot protocol, Pi (`bootloader/src/main.rs`) | memory from BASE, length, checksum, CRC | `load`, `main` | the serial line | lost and late bytes, timeouts, two ends that disagree | only what the installer sent and verified is run; the bootloader is not overwritten |
| Boot protocol, installer (`installer/src`) | window of bytes, program, checksum | `transmit` | the serial line | stale requests, joining in the middle of a word | a program that fits gets loaded; success means success |
| UART, print macros (`uart.rs` 1-227) | UART1, `UART_WRITER` | setup, read, write, `dbg!`, `println!` | everything | a borrow held while arguments are formatted | output is not interleaved; no double borrow |
| Software UART and clocks (`uart.rs` 229-299, `timer.rs`, `cycle_counter.rs`) | wrapping counters | delay, delay_until, write | GPIO | 32-bit wraparound | bits come at their time |
| Virtual memory (`virtual_memory.rs`) | TLB lockdown entries, cp15 control | pin, enable, disable, allow and disallow a segment | abort handlers | pins, watchpoint and aborts interact through entry 7 and the fault address | the kernel stays mapped; an access ends or panics, and a panic is justified |
| GPIO (`gpio.rs`, `pin_array.rs`) | function select, set, clear, edge detection registers | per-pin methods | handlers | several pins share a register | an operation on a pin leaves the others alone |
| Allocator (`allocator.rs`) | bytes used | alloc, dealloc (nothing) | all `alloc` users | alignment, exhaustion | blocks are disjoint and aligned |
| Panic, reboot (`setup.rs`) | UART, watchdog | panic handler, `rpi_reboot` | UART | panic inside a print | the message gets out, interrupts stay off |
| Profiler (`app/src/profile.rs`) | counters per instruction address | init, inc (in the handler), dump | interrupt handlers | runs inside the handler | one count per interrupt |
| Coprocessor accessors, macros, demos, build files | none of their own | | | | |

## Modules

`CriticalSection` models one core at two levels, program (0) and IRQ handler (1).
Every `mrs`/`msr` pair is two steps, so an interrupt can fall between them;
`BeginAcquire`, `Acquire`, `BeginRelease`, `Release`, `ReleaseNested`,
`BeginEnable`, `Enable`, `BeginDisable`, `Disable` are those steps. `Borrow` is a
`borrow_ref_mut` inside a section (the print macros, the thread state, the
handler table), `IrqEntry` the hardware's entry with the dispatch's own borrow of
INTERRUPT_HANDLERS, `ClearDevice` what a handler does to the line, `IrqReturn`
the `movs pc, lr`. `Raise` is the device. `AtomicSections` is what the component
promises: sections open and close atomically, and a handler runs only between
them and only if the program wants interrupts; `Refines` maps the I bit, tokens
and spsr to it.

`Threads` models `thread.rs` at the grain of its assembly: `Pop`, `SetCurrent`,
`CallAndSaveStack`, `Trampoline` or `Reenter`, `Yield`, `Exit`, `Reload`. A
register set is abstracted to the code whose values it holds and one bit that the
code flips (`Work`), enough to see stale or foreign registers. `RoundRobin` is
the abstract scheduler: a FIFO of ready threads and at most one running.

`BootProtocol` composes the bootloader's `load`/`main`, the installer's `transmit`
and the wire. Each read of a word is byte by byte on the Pi and the installer's
listening is a sliding window, as in the code. Bytes carry the word they come
from and their place in it: a word that is not made of its own bytes in order is
garbage. `Lose` and `Damage` are faults of the wire, `PiTimeout`, `PiRepeat` and
`HostGivesUp` the timeouts.

`Interleave` models `prefetch_abort_vector` with `umain` and its scheduler. The
processor has a pc, a stack and one of its registers; breakpoint 0 in mismatch
mode makes every instruction at another address abort. The variable `scheduler`
says whether SCHEDULER is umain's closure or one that decides anything.

`InterruptHandlers` models the table of handlers, `interrupt_vector` and the ARM
timer. `Register` and `Remove` are one step (critical sections); the dispatch is
`Interrupt`, a step per slot (`Skip`, `Decline`, `Claim`) and, when nobody claims,
`Ignore` or `ClearTimer`, `Count`, `ClearAgain`, with `Event` and `Tick` of the
devices in between. A handler is known by the client that registered it: a device's
clears the event and claims, the profiler's declines. Clocks wrap at `ClockSize`.

`Exceptions` models the vectors' assembly over banked registers, at the grain of
save (`IrqSave`, `SwiSave`, `PrefetchSave`, `DataSave`), Rust handler (`Vector`,
`SyscallVector`, `PrefetchVector`) and restore. The application runs in supervisor
mode, threads in user mode after `RunUserCode`; a system call is `PushLr`, `Swi`,
`PopLr`, and goes to the demo's `Plus1` when another vector table is set. Values
in registers name the program they belong to; `own` is what each program should
see.

`VirtualMemory` models the pins of `virtual_memory::setup`, switching the MMU on
and off, opening and closing the section of 0xa77acc0, and the two abort handlers
of `debug.rs` with the watchpoint, the breakpoint and `far`. The program is any
sequence of these operations, of which setup's demo is one.

`Gpio` models the registers that pins share (`gpio.rs`): ten pins a function select
register, thirty-two a bank of the others. An operation that reads a register,
changes it and writes it back is one step in a critical section or in a handler
(`Into`, `Enable`, `Disable`, `Write`, `Clear`, `Erase`) and two steps elsewhere
(`OpenSelect`, `OpenDetect`, then `CloseSelect`, `CloseDetect`), with a handler's
operations on its own pins in between. `Detected` writes the one bit alone, as the
code does: enabling a detection switches off that of the bank's other pins. History
variables hold what the types say (`typed`), what owners asked for (`wanted`, `last`)
and which changes of a handler the program's write-back undoes (`lost`).

`SoftwareUart` extends `Gpio` with `software::SWUart` and the cycle counter: `SetUp` is
`setup_output`; `Begin`, `Drive`, `Until`, `Delay`, `Spin` and `Delayed` are `write`'s
loop with `delay_until` and `delay` in it. All arithmetic on the counter is modulo
`CounterSize`. `Interrupted` takes time and may work on another pin of the registers. A
receiver, which is not in the repository, takes the line's fall for the beginning of a
frame, waits half a bit, rounded up (`Middle`), and from then on samples once a bit. With a
bit of 5 cycles, half a bit rounded down is too soon: a second bit that is 2 cycles late,
by less than half a bit, is sampled before it is driven.

`Allocator` is the bump allocator: `Borrow` is `alloc` up to its borrow of the count,
`Bump` and `Exhausted` the rest, so that an interrupt can fall between. `Console`
extends it with what reaches the serial line: the print macros (`Println`,
`WriteText`, `WriteNewline`), the abort handler's `steal_println!` (`StealText`,
`StealNewline`), the panic handler (`PanicEnter`, `PanicAgain`, `PanicMessage`,
`PanicEnd`) and `Reboot`, over a FIFO that `Send` empties. The activities of the
processor are a stack: an interrupt or an abort over the program, a panic over
either. `FormatFails` is an argument of a print that prints or panics itself.

The modules `MC...` give the constants their values; those named
`...Proof` hold proofs. Operators marked "Mutant" are plausible bugs that the properties must
catch; they are not part of any specification.

## Runs

| Run | Bounds | Shows |
|---|---|---|
| `sections` | 2 cells, nesting 2 | atomicity, no double borrow, no stale msr, state restored, delivery, refinement |
| `threads` | queue of 2, 4 forks | contexts, ownership, capacity, round robin, refinement |
| `threads_stale_current` | the same, main yields | finding 1 |
| `boot` | 2 runs of the installer; 1 lost and 1 damaged byte and anybody late, or no faults and nobody late; lengths wrap at 6 | only verified programs run; bootloader intact; every program that fits is loaded, others are refused |
| `boot_loaded` | 1 run, no faults, anybody may be late | finding 2 |
| `interleave` | the code of thread_a and thread_b; all schedules, and umain's scheduler | contexts apart, one instruction per abort, main restored; the search tries every stop it means to |
| `interrupt_handlers` | 3 clients, 2 of them devices; clock of 3; 2 events, 3 ticks | the table is consistent, handlers are offered interrupts, PERIOD, the line falls |
| `exceptions` | the application and 2 threads, one bit per program | registers, stack, mode and I bit survive every exception; the single-stepper gets and keeps the right ones |
| `exceptions_syscall` | the same | finding 3 |
| `virtual_memory` | 2 of the 7 kernel sections | the kernel stays mapped, panics are justified, accesses end |
| `software_uart` | an empty message and one of two bytes of 2 bits, 4 cycles a bit, a counter of 16 from every value; 2 interrupts of 1, 3 or 5 cycles; a handler's pin in the same registers | bits come at their time, lateness does not add up, a receiver gets the bytes; pins keep function and events |
| `console` | a FIFO of 3 half lines, a heap of 4 bytes; 2 prints, 3 allocations, 2 exceptions, 2 panics | lines are whole, blocks are apart and aligned, panics have their causes, the last message gets out |

Why the bounds are enough. *Sections*: nesting 2 has an outermost and a nested section,
two cells are the one the dispatch borrows and another; the proofs remove both bounds.
*Threads*: the capacity of 10 is a constant, 2 fills up with a running thread, two
queued ones and a fork; four forks let a thread be queued, yield, exit and be freed
while others are in each of those states. *Boot*: words are two bytes (any cut, shift or
mix of words happens with two), the room before the bootloader is 3 bytes with programs
below, at and above it, and the receive loop's chunk is 2 so that a chunk can pass the
end; two runs let leftovers of the first meet the second. Numbers are of six values, the
smallest number for which the space check's sum wraps for a length the installer may ask
about. The variable `prompt` is chosen at the start: with it nobody is late and nothing
is lost, and `Loads` and `Refuses` are about it. *Interleave*: the code has no
parameters but the threads' instructions, which are those of the compiled functions up
to register names. *Interrupt handlers*: three slots are needed for a free slot between
two used ones; two devices contend for the first claim; three ticks and a clock of 3
wrap between two readings. *Exceptions*: the parked and the running thread, and the
application, are the parties of a switch; r1 stands for r1-r3 and r4 for r4-r11, which
every vector treats alike. *Virtual memory*: two sections make "first", "last" and "the
entry after" differ; the proofs remove the bound. *Software UART*: the second byte's
bits differ from the first's, a counter of sixteen started at each of its values wraps
at every place of a frame, and interrupts are shorter than half a bit, longer than half
a bit and longer than a bit; two of them add up. The proofs remove the bounds on pins,
on the software UART, on the threads of *Exceptions* and on the heap, prints and panics
of *Console*. *Console*: the FIFO holds a line and a half, so that it is full in the
middle of a line; one print can be interrupted by another, or contain one; two
exceptions let a second come after the first's damage; two panics are one and the one of
its message.

Deadlock is checked where the system never stops (`sections`, `boot`,
`interrupt_handlers`). It is off for `threads` (a panic or the end
of `main` stops), `interleave` (umain reboots), `virtual_memory` (a panic stops),
`software_uart` (`write` returns or panics), `console` (the reboot), `boot_loaded` (the
one run ends) and `exceptions` (a program that has lost its stack is not followed).

## Fairness

*Sections*: the core goes on executing, and the handler clears its device and
returns. A program that keeps interrupts off for good, or sits in a section,
delays delivery forever; `Delivered` therefore assumes that open sections are
left (fairness of the closing steps) and that the program wants interrupts.
*Threads*: the library's own steps are fair, and a running thread in the end
yields or exits; nothing preempts it. *Boot*: each program executes when it can,
nothing is assumed of faults or of the person who starts the installer; when
`prompt` holds, timeouts are longer than the other side's answer.
*Interleave*: the core executes. *Interrupt handlers*: a pending, unmasked interrupt
is taken and the dispatch goes on; devices owe nothing, and raise finitely many
events. *Virtual memory*: the processor executes the access and the handlers. *Console*: the
UART sends what is in its FIFO, and a processor that panics, with interrupts off, goes
on; the program itself owes nothing.

## Findings

1. `threads_stale_current`: a `thread_yield` from outside a thread after `start`
   has returned is not caught by `expect("should be in a thread")`, because
   nothing clears `current_thread` when the last thread exits.
2. `boot_loaded`: the installer prints "successfully loaded" before the Pi has
   accepted; the Pi can time out on the acknowledgement and reboot.
3. `exceptions_syscall`: `software_interrupt_asm` sets the stack pointer of
   supervisor mode, so a system call from that mode (test_swi's "normal" call)
   returns onto the exception stack, and it saves neither r1-r3, which the wrappers
   do not declare as changed, nor what its own comments ask for.

More places where the code is weaker than one would expect are written into the
properties instead of excluded from the model. umain sets A_STOP after the run it is
for, so stop 0 is run three times and the last value never: B never runs after all of
A's effects on memory (`Explores` in `Interleave` says what is run).
`prefetch_abort_vector` decides by `far`, the address of the last *data* abort: after
one at 0xa77acc0 a jump to any unmapped address aborts for ever instead of panicking
(`Misled` in `VirtualMemory`). An enabled watchpoint is taken for the cause of any data
abort (`DataVector`); the access then aborts a second time. Switching the edge detection
of one pin on switches off that of the other pins of its bank, and a handler's change of
a pin can be undone by a program in the middle of changing another (`EventsReported` and
`FunctionKept` in `Gpio`). A block is aligned only if the blocks before it are of
multiples of its alignment (`HeapSound` in `Allocator`). An interrupt handler that
allocates during an allocation panics, and so does a data abort in the middle of a print
(`PanicCauses` in `Console`).

## Proofs

`CriticalSectionProof` proves, for every finite or infinite set of cells with a
dispatch cell and every nesting bound (`ConstantsAssumption`):

- `Invariance`: `Spec => []Inv`. None of the safety properties is inductive. That
  no borrow panics needs to know who can hold a cell when (`HolderInv`), which
  needs the I bit to follow the program's open sections and its wish (`MaskInv`),
  which needs tokens to be true exactly for the section that found interrupts on
  (`TokenInv`), handlers to stay masked (`HandlerInv`), and the value read by a
  `mrs` to survive an interrupt before the `msr` (`ReadInv`), because the handler
  returns through a spsr equal to the program's cpsr. `Inv` is their conjunction
  with the types; the run `sections` checks it too.
- `Exclusion`, `NoRace`, `Restored`: `NoBorrowPanic`, `NoStaleMsr`, `RestoreState`
  follow from it. `NoRace` answers the TODO at `interrupts.rs` 70-72: r0 cannot be
  stale, since whatever interrupts restores cpsr.
- `Refinement`: `Spec => Refines`, every step is a step of `AtomicSections` or a
  stutter.

`DevicesProof` proves what depends on the peripherals: the table of handlers, the pins and
the software UART.

- `TableConsistent` (`Registry`), for every set of clients: a registered handler is in
  the slot it was given, the empty slots are exactly the free ones and each is free
  once, so the assertion in `register_interrupt_handler` cannot fail. The invariant
  `TableInv` adds only the types of the table; every step but `Register` and `Remove`
  leaves it alone.
- `EveryoneOffered` (`Offered`) rests on it: at a slot, the handlers called are those
  whose index is below it (`DispatchInv`), and the table says that no handler is at
  another place.
- `PeriodMeasured` (`PeriodElapsed`), for every width of the clock, needs that LAST_CLK is
  the clock's last reading (`ClockInv`) and that a wrapping difference is the time passed
  (`Difference`).
- `FunctionsKept` and `EdgesReported`, for every set of pins, every way they share
  registers and every split between program and handler (`GpioAssumption`). Besides the
  two properties the invariant says that a pin whose owner counts on a detection has it
  (`DetectInv`), and that what the program has read and will write back has the function
  and the detection of every other pin of the register (`OpenedInv`), without which the
  write-back could undo anything. `PinsKept` carries both over to the software UART, whose
  program touches the function registers in a section only.
- `BitsPaced` (`Paced`), for every bit time, width and first reading of the counter, message
  and choice of interrupts, as long as those between two bits take less than a third of
  the counter's range (`Brief`; `delay_until` itself tells late from early by a third).
  Without this the difference of two readings wraps, an interrupt of a whole turn
  of the counter (six seconds at 700 MHz) goes unseen, and `Paced` is false. The invariant
  (`Timed`) says that `desired` is the ideal time of the next bit as the counter reads it; that since
  the last bit only interrupts have taken time (`Waiting`); and, while `delay` spins,
  when it began and that it has spun once per cycle not taken by an interrupt
  (`Spinning`). That a wrapping difference is the difference, or one turn more when the deadline has
  passed, is `RemainderDifference`.
- `BytesReceived` (`Received`), for every bit time, width of a byte, message and choice of
  interrupts and handlers' operations, as long as interrupts put no two bits half a bit apart
  (`Clean`, the hypothesis in `Received`; it implies `Brief`). The invariant (`ReceiverInv`)
  follows a bit from the program to the receiver: the line has the level of the last bit
  driven (`LineInv`, for which handlers must have other pins); `write` drives `Bits` bits
  (`EdgeInv`); the last bit belongs to the frame that the receiver sees, which it saw begin
  less than half a bit late, and is sampled if and only if its time has come (`FrameInv`);
  each sample is the bit it is for (`SampledInv`). A sampling time lies between the
  bit's ideal time and the next one's, and the next bit is driven after it, because no bit is
  early (`FrameTimes`); time passes only up to the next sampling time before a bit is driven
  (`Punctual`). So no time that passes has two sampling times in it (`SamplingTimes`), and the
  receiver waits for a falling edge exactly when a start bit follows a stop bit
  (`DrivePasses`). What is left is that a byte is the number its bits write, induction over
  data, which is an assumption on the messages (`ByteAssumption`) that TLC evaluates.

`VirtualMemoryProof` proves `TypeOK`, `KernelMapped` and `Panics`, for every sequence
of distinct kernel sections (`SectionsAssumption`). `KernelMapped` needs what is pinned
where before the MMU is on (`PinInv`): each entry below the last is for its kernel
section, all are valid once setup is done, and only then can the MMU be enabled.
`Panics` needs that the processor is at the vector of the abort it had, and that a
data abort that is no watchpoint's has left its address in `far` (`AbortInv`).

`ThreadsProof` proves `ContextsKept`, `BoxesOutlive`, `PanicsOverCapacity` and
`StartWaitsForAll` for every capacity of the queue and number of threads
(`ThreadsAssumption`), and that the library implements `RoundRobin` (`Refinement`). They
assume `~YieldOutside`: a `thread_yield` from outside a thread is finding 1. `Contexts` speaks
of the running thread only, so the invariant follows a thread's stack and registers
from the yield to the resumption. A thread is queued, has its turn or has exited, one of
them only, and none is missing (`Places`, `Covered`); the processor's place says whose
turn it is and what `start` left to return to (`Control`); the stack of a thread that
waits holds what it left (`Saved`); and the boxes dropped are those of threads that have
exited and whose stack the processor has left (`Boxes`).

`BootProtocolProof` proves, for every set of programs, every checksum function and any
number of runs, lost bytes and damaged bytes (`BootAssumption`):

- `JumpChecked`: what the Pi jumps to has the checksum of the program committed to. It
  needs no more assumptions, and is all there is to say when several bytes are damaged.
- `JumpsUndamaged`, `CommitsUndamaged` (`JumpVerified`, `CommitVerified`): while no byte
  is damaged it is that program, whatever the checksum computes. Lost bytes, late ones
  and those left over from an earlier run mislead neither side: the count of bytes alone
  tells.
- `JumpsVerified`, `CommitsVerified` (the same two properties): one damaged byte does not
  mislead them either, with `DamageDetected`, that the checksum tells every program from
  the same program with one byte changed, and while the length that the Pi goes by is the
  one sent (`LengthArrived`). The code's CRC-32 meets `DamageDetected` for every program:
  a change within 32 bits is always detected. Beyond that there is `JumpChecked` only:
  two damaged bytes far apart, or a damaged length that cuts the program short, may leave
  other bytes with the same CRC-32.
- `BootloaderSafe` (`BootloaderIntact`), with `Addressable`, that the end of each program
  is a 32-bit address: otherwise the space check's sum wraps and lets any length through.
  Only damage to the length of a program that does not fit gets past it.

What makes these hold is that the installer listens only when nothing is under way
(`ListenInv`), and that the two sides cannot be in different runs: once the Pi has read
the header no second one comes (`HeaderInv`), so the checksum it has is the current program's
(`ChecksumInv`), the bytes in memory have it once the Pi says so (`LoadedInv`), and the
acknowledgement is of the program committed to (`AckInv`, `JumpInv`). What those bytes are is
a second invariant on top of this one (`MatchInv`): the bytes received and those on their way
are one stream (`Stream`), which a turn of the receive loop leaves as it is; when the
installer sends the code the Pi has nothing of an earlier one, so that the stream is the
program; nothing is sent behind it before the Pi has answered; a lost byte makes it too short
for good, since the bytes are sent once, and a damaged one changes one place. When the Pi has
counted as many bytes as the program has, the whole stream is in memory. For the bootloader's memory
the bytes are counted: what is on the wire is at most what the Pi still wants, of the
header (`HeaderCount`) and then of the code (`CodeCount`), and a length that is neither damaged
nor missing is in its place (`LengthInv`). TLC checked both before they were proved and
showed that the first formulation of `Settled` let a new run begin over a word the Pi
had not looked at yet.

`InterleaveProof` proves `Isolated`, `Restored` and `Stepped` for all straight-line code of
the two threads that ends in its return (`CodeAssumption`) and whatever the scheduler decides,
and `Switches` and `SearchComplete` (`SwitchPoint`, `Explores`) for umain's own scheduler.
Isolation is not inductive: a run starts from registers that must be those of the
functions' beginnings, whichever thread finished last before (`Fresh`), and main gets
control only when both ids have moved from THREADS to FINISHED_THREADS (`Parted`,
`Over`). `MainInv` says where the breakpoint is while main is stepped, without which main could
execute `trigger_interleaving` before its run; `Counted` that a thread has executed no more
instructions than its function has.

What a run of the search executes depends on what the scheduler counts: one abort of
thread 0 for each of its instructions, and one for the instruction it is let to execute
(`Aborted`). `PhaseInv` follows a run through its three phases, thread 0 up to the stop,
thread 1 to its end, thread 0 to its end, and what has been executed is the beginning of
the run's plan (`Turn`); `BetweenInv` hands the counts over from one run to the next,
and `LoopInv` says that A_STOP lags one run behind. `SearchComplete` assumes that
thread_a has two instructions: with one, the single stop that is tried is not in the set
`Explores` names.

`ExceptionsProof` proves `Transparent` and `Parked` (`ExceptionsTransparent`,
`ThreadsParked`) for every set of threads. Both speak of a program that runs or is being
parked, so the invariant follows its registers through the exception: the stack and the
link register stay banked, unless the exception is a system call from supervisor mode
(`TakenInv`); the others are in the processor until the vector has saved them and
in the frame from then on, the return address with the exception's offset, added and taken off
once (`FrameInv`). From `PrefetchVector` to the return the frame may be another
thread's: `Runner` says whose. `OwnInv` adds what a system call pushed, and that the threads
are as they were made until the application starts one; `Lost` is the return of a system
call that leaves supervisor mode without its stack (finding 3), which `Transparent` excludes.

`ConsoleProof` proves `BlocksApart` for every heap and set of layouts (`HeapAssumption`)
and any number of prints, exceptions and panics, `LinesWhole` (`WholeLines`) for any
size of the FIFO besides, and `CausesKnown` where no layout exceeds the heap (`Fitting`;
the largest one asked for, the page table's, is the heap's size). Until the first panic
at most one exception is above the program (`StackInv`). The writer is borrowed by a
print, and over the program's print there is an abort or a panic, because an interrupt
waits for the end of its section (`WriterInv`); the count of used bytes is borrowed by
the one activity that allocates, and is still what that activity has seen (`AllocInv`),
so blocks end where the free part begins (`BlocksInv`). `Multiples` is the lemma for
their alignment. For the lines, at most one activity prints, the one that holds the
writer (`HeldInv`), and the output has an open line, a text with nothing after it but
stolen lines, if and only if that activity writes the line's end next (`OpenInv`); a
panic's message closes what was open. What may be appended to the output then leaves it
whole (`Fitted`, `WholeAppended`), and so does losing its end, when a panic without a
writer clears the FIFO (`WholePrefix`).

The preservation lemmas are one per action, or one step of a lemma per action. Liveness
(`Delivered`, `StartRunsAll`, `NoStarvation`, `Loads`, `Refuses`, `Served`,
`AccessEnds`, `Reported`, ...) stays with TLC: fairness is out of the prover's reach.
Every safety invariant and every action property that a passing run checks is stated by
a theorem.

## What is not modelled, and assumptions

- Memory barriers, caches and instruction timing; a step is an instruction or a
  stretch of code that nothing can interrupt or observe.
- FIQ (never enabled), undefined instructions and reset (they only panic).
- In `Threads`, interrupts: the thread state is only touched in critical
  sections, whose atomicity is `CriticalSection`'s theorem.
- In `BootProtocol`, the installer is started again only after what the last run
  sent has arrived, the Pi has looked at each whole word of it and its 10 ms waits are over
  (`Settled`). The
  run's checksum tells all byte sequences apart; the theorems say what depends on it. While nobody has the device open
  what the Pi writes is gone.
- In `Interleave`, interrupts (off in user mode after `run_user_code`); the
  fault-address path of the abort handlers is in `VirtualMemory`.
- In `Exceptions`, an exception inside a handler: the source says that they do not
  recurse (`interrupts.rs` 139-141), and a second one would overwrite the stack.
- In `InterruptHandlers`, a client that removes a handler twice, and a handler that
  itself registers or removes one (the table is borrowed while it runs).
- In `VirtualMemory`, caches, memory types and permissions; user mode with the MMU
  on (no section is open to it). The one heap section that is pinned is the whole heap,
  1 MB, and the page table takes it all: a later allocation gets a null pointer, and
  panics, which `Console` has.
- In `Gpio`, `read` and the level registers (they only read), pins above 31 in the
  detection's `1 << I`, which wraps in a release build and panics in a dev build.
- In `SoftwareUart`, `delay_us` and the microsecond timer, which only read and spin;
  time passes in the delay loop and in interrupts.
- In `Allocator`, `Borrow` is one step at the level of the source: `LazyCell::force` and the
  flag of the `RefCell` (`allocator.rs` 22). The first force is not in the race, since there
  is no handler to run before one has been allocated. That a handler sees the flag of the
  borrow it interrupted is what the source says; as `RefCell` is not `Sync`, a compiler
  that optimises does not owe it.
- In `Console`, how much of a print is written when an argument's formatting fails:
  the text is one token. The reboot's 10 ms are taken to be enough to empty the FIFO.
- Everywhere, a release build (the justfile's default): in a dev build the additions
  that wrap here panic.
- The profiler's counters, the memory-clearing loop of `app/src/setup.rs`, and the
  components listed as `not_modelled` in `PROJECT.json`.

## Plan

1. Done: `AtomicSections`, `CriticalSection` and proofs; `RoundRobin`, `Threads` and proofs;
   `BootProtocol` and proofs; `Interleave` and proofs; `InterruptHandlers`, `Gpio`,
   `SoftwareUart` and their proofs; `Exceptions` and proofs; `VirtualMemory` and proofs;
   `Allocator`, `Console` and proofs.
2. Models to add: the profiler's counters as a client of `InterruptHandlers`; the
   memory-clearing loop of the application's start.
3. Proofs to add: the components of item 2. The safety properties of the others are proved.

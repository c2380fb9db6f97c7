# A TLA+ model of MalOS

MalOS is a small 32-bit x86 kernel. A boot sector loads it, switches to
protected mode and calls `kmain`, which installs the interrupt system, starts
the timer, waits, sets up the text screen, reports the CPU, prints a loop of
lines with a `sleep` after each, lists the PCI devices and finally forces a
division by zero. This directory holds its specification, the TLC runs that
check it and the TLAPS proofs.

    tlc -config MCKernel.cfg MCKernel        # one run
    tlapm KernelProofs.tla                   # one module of proofs

## 1. The system

| Component | Source (under `src/BIOS`) | State | Operations |
|---|---|---|---|
| Boot sector | `boot/*.asm`, `kernel/kernel_entry.asm` | boot drive, registers, GDT | read the kernel from disk, report an error, switch to protected mode (`cli`), call `kmain` |
| Interrupt installation | `isr.c`, `idt.c` | 8259 pair, IDT, `IDTR`, IF | `int_install` = `irq_install` (`irq_pic_remap` + 16 gates), `isr_install` (32 gates), `idt_load` (`lidt`, `sti`) |
| Interrupt dispatch | `interrupt.asm`, `isr.c`, `isr.h` | registers, kernel stack, in-service and request bits, IF, `interrupt_handlers` | the stubs and their `registers_t`, `irq_handler` (EOIs, registered function), `isr_handler` (message, function or panic, `hlt`), `register_interrupt_handler` |
| Timer | `timer.c` | `tick`, `pit_frequency`, PIT channel 0 | `init_timer`, `timer_callback`, `sleep` |
| Kernel main | `kernel.c`, `test_int.c` | control point, loop variable | the boot sequence; `init_test` registers `divhandler` |
| Terminal | `tty.c`, `drivers/vga.h`, `libc/putchar.c` | screen memory, cursor register, `T_COLOR`, `T_BUFF` | initialise, set colour, put a character or a string, scroll |
| Formatted output | `libc/printf.c`, `itoa.c`, `puts.c` | none | `printf`, `itoa`, `puts` |
| String functions | `libc/mem*.c`, `strlen.c` | none | `memcpy`, `memmove`, `memset`, `memcmp`, `strlen` |
| PCI enumeration | `pci.c` | `pci_list` on the stack | configuration reads, `pci_explore` |
| CPU report | `detect_cpu.c` | none | CPUID; vendor, signature, model, brand, the name in the extended leaves |
| Paging and heap | `kernel/paging/*` | frame bitset, page tables, `placement_address` | allocate, find and free frames, `get_page`, `initialise_paging`, `kmalloc*`; not compiled (`Makefile:2` takes `kernel/*.c`), not called yet |
| Port I/O | `hardware.c` | none | one instruction per function |

Interaction. There is one processor and no scheduler. Concurrency comes from
the devices: between any two instructions of `kmain` that run with IF set a
request may be taken, its stub pushes a frame, `irq_handler` acknowledges it and
calls the registered function. `timer_callback` changes `tick`, on which `sleep`
in `kmain` spins: the only variable the two share. Exceptions end the system:
`isr_handler` executes `hlt` with interrupts off.

What is hard, per component, and what makes it correct:

* *Installation.* Devices keep interrupting while the controllers are half
  programmed. Correct: the BIOS's masks are back before `sti`, and whatever gets
  through first lands in its own stub.
* *Dispatch.* Two controllers, non-specific EOIs, spurious vectors, NMIs on top
  of handlers. Correct: what is in service is what the running handler still
  clears, an EOI never clears another handler's bit, handlers do not nest,
  no line goes deaf, an exception is final.
* *Stubs.* A layout in `isr.h` that nothing but the order of the pushes keeps, an
  error code that is there for some vectors, a `sti` before the `iret`. Correct: a handler
  reads what was interrupted, the interrupted code gets all of it back, frames do
  not pile up.
* *Timer.* A counter that wraps, ticks latched before the wait began, a clock
  that must be running. Correct: `sleep` ends, and not before its ticks are over.
* *Kernel main.* An order of initialisation that nothing enforces. Correct: no
  output before the screen exists, no fault but the forced one, the end is reached.
* *Terminal.* Byte offsets, cell offsets and coordinates that are converted back
  and forth, scrolling at the boundary; a position written in two halves, between
  which an NMI may come and print. Correct: it is a page of text, and printing from a torn
  position that is off the screen changes no more than the cell in its corner.
* *Formatted output.* Negation that wraps, a count with a limit, a scan that steps
  over its own delimiters. Correct: what a reading of the format character by
  character gives, counted.
* *String functions.* Overlapping regions, a `char` that is signed, an `int` that is
  cut. Correct: the bytes that were there arrive, none else changes, and none outside
  the regions is read.
* *PCI enumeration.* Places packed into one number, absent functions that look
  like many, a table of fixed size. Correct: the list is what is there.
* *CPU report.* Fields that differ by vendor, tables indexed by what the processor
  says, leaves that may be missing. Correct: no index behind a table, no leaf read that
  is not there (which is not so, see section 5), the signature taken apart without loss, the name whole.
* *Paging and heap.* A loop that allocates while it maps what is allocated, values
  that are addresses here and frame numbers there. Correct: chunks are disjoint,
  used memory maps to itself, no frame is mapped twice. Memory is used as `kmalloc` gives it,
  uncleared, and the bitset gets a quarter of its bytes: what is correct in zeroed memory
  need not be so in any other.
* *Boot.* A disk that fails or reads less, a mode in which no interrupt may come.
  Correct: `kmain` gets a whole kernel, an error is reported as it was.

`PROJECT.json` lists every hazard with its line and the properties that cover it.

## 2. The modules

    Boot -- MCBoot, BootProofs
      | hands over with interrupts off
    IntInstall -- MCIntInstall, IntInstallProofs
      | hands over at the first interrupt
    Interrupts -- MCInterrupts, KernelProofs           Stub -- MCStub, StubProofs
        ^ extended by                                  (the same frames, by instruction)
      Kernel -- MCKernel, KernelProofs

    Console <-- implemented by -- Terminal
                                    ^ extended by
                                  Crtc -- MCCrtc, TerminalProofs
    Printf -- MCPrintf, LibcProofs          (Kernel: one output step)
    Strings -- MCStrings, LibcProofs        (called by tty.c, paging.c)
    Pci        <-- extended by -- Reports -- MCReports, HardwareProofs
    DetectCpu  <-- extended by -- Reports    (Kernel: one output step each)
    Paging -- MCPaging, PagingProofs        (not called by kmain)

**Boot** is the boot sector up to the call of `kmain`: `disk_load` with the BIOS
answering anything an int 0x13 may answer (carry or not, any status, any count),
the check of the count, both error messages and `switch_to_pm`, one step per
instruction that changes the mode. `stack` is what `pusha` and `push dx` left there,
because the two errors reach their message with different contents. The message itself is
two steps: `ReportStatus` pushes `dx` and uses it up for the status, `ReportDrive` fetches it
back for the drive. The BIOS's
segment registers are taken to be zero, as the sector itself does.

**IntInstall** is `int_install`. Each 8259 is a state machine over its
initialisation words (`WriteCtrl`, `WriteData`), and `RemapWrites` is the list of
the ten port writes of `irq_pic_remap`; `SaveMask`, `RemapWrite`, `SetIrqGate`,
`SetIsrGate`, `Lidt` and `Sti` are the code's steps, `Raise` and `Accept` the
devices and the processor. A gate holds the stub it points to, a stub the number
it pushes. The model stops at the first interrupt taken (`entered`), where
Interrupts takes over. It starts with interrupts off and the BIOS's vector bases.
`io_wait` is left out.

**Interrupts** is everything from a request to the `iret`. `irr` and `isr` are the
request and in-service registers of both controllers, in one numbering of
sixteen lines; `stack` holds one frame per interrupted level with its vector, the
saved IF and how far its C handler has come (`step`). `EoiSlave`, `EoiMaster`,
`IrqCall`, `IrqNoHandler`, `Iret` are `irq_handler` and its stub; `IsrReport`,
`IsrCall`, `IsrPanic`, `IsrHalt` are `isr_handler`. `AcceptMaster`, `AcceptSlave`
apply the 8259's priorities; `SpuriousMaster`, `SpuriousSlave` are requests
withdrawn between the interrupt and the acknowledge cycle, which the controller
answers with vector 39 or 47. `Nmi` comes at any instruction, once, because no
`iret` ever unblocks it. `RegisterHandler` and `Fault` are what kernel code does.

**Stub** is `interrupt.asm` below Interrupts: every stub is a sequence of instructions
(`Code`), a step of the model is one of them, and `mem` is the kernel stack. A word is a
pair of halves, because `mov ax, ds` changes one of them. `frames` is a history variable:
what was interrupted, in full. `Irq`, `Fault` and `Nmi` are the processor entering a
gate, with the error code for those exceptions that have one; an NMI may strike between
any two instructions, stub or C. `Call` and `Return` are the C handler, which by the
calling convention may change `eax`, `ecx`, `edx` and its argument. `Shadow` is the
instruction after `sti`, which no request interrupts.

**Kernel** extends Interrupts with `kmain`, `timer.c` and the PIT, one step per
access that an interrupt can fall between. `pc` is where `kmain` is; its steps
need an empty `stack`. `sleep` is `SleepCall` (reads `tick`, divides), `SleepPoll`
(a turn of the loop) and `SleepReturn`; the build has no `-O`, so that the loop
reads `tick` at every turn. `PitCtrl`, `PitLow`, `PitHigh` are the three port
writes of `init_timer`; the PIT stops at the first and runs again after the
last. `detect_cpu`, a loop line, `pci_explore` and the final message are steps
that print. `blind` becomes true when something is printed before
`terminal_initialize` has set `T_BUFF`; `edges` is a history variable.

**Console** is what a page of text is: lines, cells, a position, wrapping and
scrolling, without offsets or registers. Callers may name any cell, so `Put` takes any; that a
string goes on behind its last character is Terminal's. **Terminal** is `tty.c` with its offset
arithmetic (`get_offset`, `get_offset_row`, `get_offset_col`), `print_char`,
`handle_scrolling` and the public functions, and states under which reading of
its memory it implements Console (`Page`). Its memory has one line more than the
screen, because scrolling writes there.

**Crtc** extends Terminal with the NMI, which strikes between two calls or inside one.
`CutPrint` and `CutInitialize` are the states in which `print_char` and
`terminal_initialize` can be when it does: before or after the character, with some of
the cells moved or blanked, and between the two halves of `set_cursor_offset`, which
leaves the position `Torn`. What the handler prints is any sequence of characters;
it does not return. Two bytes of one cell are moved as one.

**Printf** is `printf` with `itoa`, one step per turn of the loop, so that each
action is a branch of it. An argument is chosen where `va_arg` reads it: callers
pass what the format asks for. `Reading` and `Numeral` are the reference
definitions: a reader that goes through the format one character at a time, and the
positional notation of a number. What is defined by recursion is a recursive function,
for the proofs.

**Strings** is `memcpy`, `memmove`, `memset`, `memcmp` and `strlen`, one turn of their
loops per step, on one memory on which calls follow each other. `before` is the memory
at the call. Callers keep to what the functions require: regions inside memory,
disjoint ones for `memcpy` (`restrict`), a NUL for `strlen`.

**DetectCpu** is `detect_cpu` with `do_intel`, `do_amd` and `printregs`, one step per
CPUID instruction with what is printed up to the next. `Cpus` is a set of processors,
each with the answers to CPUID; `out` collects what is printed as pairs of label and
value, a name from a table or a switch being its place there. Extended leaves are
numbered from 0x80000000; `max`, the last of them, is any number. Of a leaf that a processor
does not have some registers come back as well, and `do_amd` takes them for text.

**Reports** is the part of `kmain` that calls both, `detect_cpu` first; `Hosts` are the
machines it may find itself on. It adds nothing to them, as neither uses what the other has.

**Pci** is `pci_explore`. `machine` is a configuration space; `DataPort` is the
host bridge, which decodes the number that `construct_identifier` has made. A double word
is a sequence of bytes, and the enable bit is left out. What happens after the
sixteenth descriptor has been written behind the table is not followed
(`pc = "overrun"`).

**Paging** is `kernel/paging`: the placement allocator, the bitset, `get_page` and
`alloc_frame` in the loop of `initialise_paging`, the switch, and then `AllocFrame` and
`FreeFrame` on pages beyond the kernel's own, whose tables exist. (Nothing calls
`get_page` with `make` after paging is on.) Nobody clears what `kmalloc` returns: what
memory held is chosen for the part of the bitset that `memset` does not reach (`LeftWords`),
for the directory (`LeftPointers`) and for every new table (`LeftTables`, entries present or
not with any frame of 20 bits). An entry of the directory that is neither 0 nor a table's
address is `Stale`; `get_page` follows it as if it were one, and then nobody can say what is
read or written (`GoAstray`, `pc = "lost"`). `SameWord` says which words of the bitset are
entries of the directory, when the first reaches into the second: `set_frame` in one such
word makes a stale entry, and a table entered there sets bits (`WithPointer`).
`EnablePaging` is the write to `cr0`. If the stack is not mapped the first push faults, and
so does the push of that fault's frame: `"reset"`. If the stack or a page in use is mapped
elsewhere, or an entry of `tablesPhysical` that nobody wrote is not zero, it goes on with other
code or data: `"lost"`. `chunks` and `clean` (all that was taken from memory was zero) are
history variables. The rw and user bits are left out.

Abstractions shared by all: message texts are left out, and registers wherever Stub
has them; a step is the code between two accesses another actor can observe.

## 3. The runs

| Run | Configuration | Shows |
|---|---|---|
| `int_install` | all devices of MCIntInstall on both controllers, four pairs of BIOS masks | masks restored, first interrupt in the right stub, pending requests are taken |
| `dispatch` | lines on both controllers, one masked, one on vector 40; hooked and unhooked vectors; two exceptions; NMI | the invariants of the dispatch, finality of exceptions, return of handlers, no deaf line |
| `kernel` | PIT, slave line 8, an NMI at any point, `tick` modulo 4, sleeps of 2 and 3 ticks, two turns of the loop | sleep has a clock and lasts its ticks; nothing printed too early and no fault but the forced one, the NMI excepted, which stops `kmain` and the clock for good; otherwise the end is reached |
| `stub` | a line of each controller, exceptions 0, 14 and 17, the NMI; 40 words of stack | `registers_t` tells what was interrupted, all of it is restored, at most two frames |
| `terminal` | two lines of four cells, strings, tabs, newlines, coordinates from -1 to beyond the screen, an NMI anywhere | the cursor stays on the screen and the driver implements Console until the NMI; from a torn position off the screen its handler changes one cell at most |
| `strings` | four bytes of 0, 1 or 200; fills of 456 and -255 | each function does what it promises, copies with every overlap included, and touches no byte it was not given |
| `printf` | all formats of up to five characters, `int` of 8 bits, arguments at its ends and at the ends of one and two digits, strings that add up to `INT_MAX` and one more | what is printed and counted is what the format says |
| `reports` | processors of three vendors, with the signatures, brands, leaves and names of MCReports; 8 buses of 32 slots of 8 functions: an empty machine, a PC, one with the odd cases, one with 15 and one with 16 functions | the name is whole, the signature decoded, no table left; the list of devices is exact at every point, its table overflows with the sixteenth, the loops end |
| `paging` | pages of 32 bytes, 64 of them, 32 frames; four kernel ends, two of them with a bitset that reaches into the directory; leftovers of every kind in bitset, directory and tables; a stack inside and one outside what is mapped | chunks disjoint whatever memory held; in zeroed memory identity mapping, no frame shared but 0, the loop ends and paging is switched on |
| `boot` | 34 sectors, every count, three status codes, floppy and disk | `kmain` needs the whole kernel, no interrupt in protected mode, the error shown is the error |
| `sleep_milliseconds` (violation) | 50 Hz, `sleep(200)` | over after 4 ticks, not after 10: finding |
| `cpu_leaves` (violation) | as `reports` | `do_amd` reads leaves of the name that do not exist: finding |

*Bounds.* `TickModulus` 4 stands for 2^32: with sleeps of 2 and 3 ticks, calls start
at every distance from the wrap, and a goal never reaches the modulus, as in the
code (3000/50 and 200/50 against 2^32). Two turns of the loop give a second sleep
after a sleep. One device of each kind is enough because the handlers distinguish
only vectors from 40 on, registered ones and spurious ones; priorities need two
lines per controller, which `dispatch` has. The screen of two by four lets one character
wrap, one tab always cross the edge, and two newlines scroll; with low bytes that count
to three (`LowCells`, 256 in the code) the torn position on the way from 5 to 6 is 8,
behind the screen, as 0x7FF is on the way from 0x6FF to 0x700 on the real one. Every request, NMI
and fault may happen at any time; there is no bound on their number but that an
NMI blocks the next one. The PIT's divisor is the real one (1193182 / 50).
Terminal's integers are not cut to 8 or 16 bits, because with coordinates of type
`int8_t` no offset exceeds 2 * (128 * 127 + 127). Five characters hold two directives
with text between them, or `%%` next to one; INT_MAX matters only through the
comparison in `Fits`, which the strings reach from both sides. Paging keeps the
proportions its logic rests on (a table fills a page, a directory takes two and
a word, the bitset gets a byte for every word it needs, there are no more frames than a
page has bytes), and its kernel ends make the loop create one table or two, leave one to
three pages to users, and have the bitset end before the directory or reach two or three
words into it. Frames that are freed are lost, so that users run out of them. Leftovers are
one of each kind: a frame beyond memory, one the kernel has, entries allocated but not present,
stale entries in the directory, bits in the bitset. Boot and Pci have the real sizes.
Stub's vectors are one of each kind: on the master and on the slave, exceptions without
an error code and with one, the last of these included; 40 words hold the deepest nesting.
Four bytes of memory give regions that overlap by one to three bytes either way, and every
shorter call. DetectCpu's processors have brands at
both ends of the tables and behind them, extended leaves from none to 7 and to each leaf of the name, names that are
empty, end inside a register, at the end of a leaf, or not at all.

*Fairness.* The processor executes (weak fairness of handler steps and of
accepting requests), the PIT keeps ticking (weak). `kmain` is interrupted again and
again, so its steps are enabled again and again but not continuously; devices
are much slower than the processor, hence strong fairness of `MainStep` and
`SleepReturn`. The latter also says that `sleep` looks at `tick` before 2^32 ticks have
passed. The PIT's square wave holds its request for half a period, so that it is
not withdrawn every time: strong fairness of `AcceptMaster(0)`. `NoLineGoesDeaf`
assumes only that the lines of higher priority fall silent. In Paging and Reports the
processor executes: weak fairness of `InitialisePaging` and of the steps of Reports, which nothing
interrupts for long. The others assume none.

The type invariants of Stub, Crtc and Printf are checked by the runs and are theorems as
well; those of IntInstall, Interrupts, Kernel, Strings, Pci and Paging are theorems
(section 4) and in no run.

No run switches the deadlock check off: the states in which the machine really
stops have an explicit step (`Dead`, `Halted`, `Entered`, `Finished`, `Returned`, `Ended`, `Done`, `Stopped`).

## 4. The proofs

All for arbitrary constants, under the named assumptions of the modules.

`KernelProofs`, the dispatch: `IntInvHolds` proves the inductive invariant `IntInv`. The
property of interest, `InServiceIsOwed`, is not inductive: that an EOI clears the
caller's own bit needs to know that no other IRQ frame is below it (`NoNesting`), which in
turn needs that IF is off while one is on the stack and that each saved IF is the
one to go back to (`FramesSaved`), and that an NMI stops what lies below it
(`NmiHeldBack`). `IntInv` is the conjunction. From it follow `IntTypeCorrect`,
`InServiceIsAlwaysOwed`, `NeverNested`, `MainStaysInterruptible`, and the action
property `EoiAlwaysPrecise`. They hold for every set of devices and masks, with
any number of registered functions and exceptions.

`KernelProofs`, the kernel: `KernelImplementsDispatch` shows that every step of Kernel is one
Interrupts allows or leaves its state alone, so that the theorems above carry over
(`KernelInServiceIsOwed`). `KernelTypeCorrect` proves `KTypeOK`; the strengthening is
that `line` is below `TestLines` at every point inside the loop, the `sleep` called
there included.

`SleepLasts` is the theorem that `sleep` returns only after its ticks, one latched tick
excepted, for every width of `tick`, delay and frequency. The property counts edges
of the PIT, the code counts interrupts, and the two are related through three places
where a tick can be: latched in `irr`, in a handler that has not reached its increment, or
counted. The strengthening `TickBudget` says that the distance of `tick` from `ref`, plus
what is latched and in flight, is at most the edges since the call plus the one
that may have been under way when it was made; `HookedOnce` says that
`timer_callback` is reached from IRQ0 alone, so that nothing else counts. `SleepInv`
is the conjunction with `IntInv` and `KTypeInv`; that two ticks are never in
flight at once rests on `NoNesting`.

The rest of KernelProofs is about order. `FaultStaysFinal` says of the dispatch
that once an exception or an NMI is on the stack, what lies below it never changes
again (`StackKept`: every step leaves the frames below the fatal one alone);
`FaultStops` carries this to `tick` and `kmain`. `OrderInv` says where `kmain` has to be for the
timer to be set up (`TimerSet`) and for the screen to be initialised (`ScreenSet`);
from it follow `NoOtherFault` (`sleep` divides by a frequency that is not zero),
`NeverPrintsBlind`, and `SleepAlwaysHasItsClock`, the last for frequencies from 19 Hz on:
below, the divisor does not fit 16 bits and the PIT runs at another frequency.

`TerminalProofs` is for every screen of up to 127 by 127 cells. `CursorStaysOnScreen`
comes from an invariant that adds that the position carried from one character of a
string to the next is never negative. `TerminalImplementsConsole` shows that, until an NMI, every
step of the driver is one of Console or leaves its page alone; `PageInv` adds
that the memory is a line longer than the screen and that only an initialised screen is
printed on, and the lemmas under it relate offsets in memory to lines and columns.
`TornIsContained` follows the NMI's handler from a position that is off the screen.
`CrtcTypeCorrect` needs both: that the memory is the screen and a line, and holds cells, is
inductive only with a position that is a natural number, which a torn one is (`TornInv`).
A scroll that is cut short mixes two memories of which this holds (`MixedTyped`).

`StubProofs`: `Listing` is a stub with the dummy, line by line, and `Position` counts the
instructions of every stub by it (`CodeListed` shows that `Code`, put together from its
parts, is that listing). `StubInv` says what lies on the stack below what was interrupted:
`Words` are the 16 words of a frame in the order they are pushed, and before the instruction
at a position the first `Depth` of them are there, the argument of C excepted once C has had
it. With it go the registers that the rest of the stub relies on (`RegsAt`), the flags, and
that the interrupted code's own stack is untouched. None of the properties is inductive
without it: what `iret` and `popa` find depends on every push before, with and without an error
code. The order of frames is part of it: the kernel's own code, at most one interrupt or
exception in it, and at most one NMI in that. A request finds IF on inside a stub only before
`iret`, where `sti` still holds it off. Each instruction has a lemma, whether it puts words
on the stack (`PushKeepsInv`), takes them off (`PopKeepsInv`) or leaves it alone. From
`StubInv` follow `StubTypeCorrect`, `FrameAlwaysTrue`, `ContextAlwaysRestored` and
`FramesNeverPileUp`, for every set of interrupts and exceptions and every stack of 40 words or
more.

`IntInstallProofs`: `ChipsInv` says in which stage of its programming each controller is,
by the number of writes done, and that the two saved masks are the BIOS's;
`GatesInv` which gates are set by now; `LoadInv` that interrupts come on only after all
of it. From these `MasksAreRestored` and `IrqsReachTheirStubs`.

`BootProofs`: `ReadInv` says what the registers and the stack hold on the way from the
request to its check, and through the message for both ways to it; `ModeInv` which bits the mode switch
has set at each of its instructions.

`LibcProofs`, the memory functions: one loop invariant per function (`LoopInv`): what has
been copied, filled, compared or counted so far. For `memmove` it says that the bytes
still to be read are those of the call, which is where the direction matters. The bounds in the same invariant give
`StringsStayInside`: every byte that the next turn reads or writes (`Touched`) is one of those
the call was given (`Given`), which for `strlen` needs that what it has passed is not NUL.

`LibcProofs`, `printf`: `PrintfInv` says that between two turns of the loop the reader that
has the same characters behind it is in plain text (or at the end of the format), has
used the arguments that `va_arg` gave, and has the text that is out. A turn takes a piece
of the format at once, the reader one character after the other; `ReadText` joins the two
by induction on the characters, and `LaterArguments` shows, in the same way, that an argument
read now does not change what the characters before it meant. `ItoaConverts` shows by
induction on the digits that dividing and reversing yields the positional notation
(`NumeralStep` with `DivTwice`), and that -value, which wraps for the least int, still
has the right digits. `PrintsWhatFormatSays` holds for every `INT_MAX`, format and
argument; run `printf` has an int of eight bits.

Induction is on sets of numbers (`Induction`, from the library's well-founded minimum), for
the library's own theorem has a predicate as a parameter. That a recursive function has
the values its definition gives (`PowerStep`, `ReadingStep`, `DigitsIsNumeral`) is proved
with it: there is such a function, and only one.

`HardwareProofs`, `pci_explore`: `DescriptorIsTrue` shows that the host bridge takes an identifier apart as
`construct_identifier` put it together, and the bytes likewise. `PciInv` says that the list is
the part of `Expected` before the place the loops have come to; what a function that is
not tried (behind a function 0 that is alone) would have been is shown not to count.

`HardwareProofs`, `detect_cpu`: `CpuInv` says that everything printed is one of `Lines`, the
lines that the processor's own signature, brand and leaves justify, one for each label.
`BrandAlwaysInTable` and `SignatureAlwaysDecoded` follow, the
last with the arithmetic of `SignatureFields`: each layout's fields make up any number, and the extended family of an Intel processor, which
is printed for family 15, is eight bits of the field printed as reserved. (An AMD processor
without extended leaves gets no last line, and then there is nothing to put together.)
`NamePrinted` says where the pieces of the name are in the report at each leaf, with nothing
of that label before or after them. `NameIsAlwaysWhole` follows: `BytesOfRegister` takes the
bytes of a leaf back out of its registers, and by `PieceOfName` and `PartsAreName` the pieces,
each cut at its first NUL, are the name, wherever among its 48 characters it ends.

`PagingProofs`: `PagingTypeCorrect` holds whatever memory held: no address leaves the address
space and no index the bitset, though `clear_frame` may be given any number of 20 bits that
an entry was left with (`ClearFrameFits`). `FramesAreNotShared` is for memory that was zero. It
rests on `Owned`: the frame of a mapped page, if not 0, is taken in the bitset and no other
page's. `free_frame` keeps it because what it clears, with a frame number for an address, is
bit 0 (`ClearFrameFrees`). Words shared by bitset and directory do not disturb it because an entry
that shares its word is 0 only while the word is empty (`Blank`): no table is entered on top of
frames that are taken. With other memory it is false, as an entry may be left with a
frame that is handed out later.
`ChunksAreAlwaysSound` and `UsedMemoryIsMapped` have a hypothesis, `Room`: memory holds the
kernel, the bitset, the directory and a table for each of its pages, with the
paddings, and the bitset, with the bytes its words need and not those asked for, ends before
the directory. Without it the placement address may pass the end of memory, where
`alloc_frame` has no frame to give, and wrap; or a frame marked in the bitset makes a stale
entry. The second theorem is for memory that was zero besides. `RoomInv` bounds the
placement address by the number of tables made, and these by the pages mapped; that the loop
maps what its own calls allocate follows from its reading `placement_address` at every turn.

Only model-checked: liveness (`PendingIsTaken`, `IrqHandlersReturn`, `NoLineGoesDeaf`,
`EndsCaught`, `PagingIsSwitchedOn`, `ExploreEnds`), which TLAPS does not handle.

## 5. Findings

Shown by a run:

* `timer.c:17` computes `delay_ms / pit_frequency`; milliseconds would need
  `delay_ms * pit_frequency / 1000`. At 50 Hz `sleep(200)` lasts 80 ms.
* `detect_cpu.c:351`: `do_amd` tests for the first of the three leaves of the name and reads
  all three; the comment at 238 and `do_intel` ask for the last (`cpu_leaves`).

Visible in the models without a run of their own:

* `tty.c:106` blanks `MAX_COLS*2` cells, a line of memory more than the comment says
  (`ScrollUp` in Terminal, and the line its memory has behind the screen).
* `pci.c:105` reads `class_id` from 0x0E, which `pci.c:68` uses as the header type
  (`ListIsTrue` compares it with `type`).
* `paging.c:108` hands a frame number to `clear_frame`, which divides it by the page
  size once more: bit 0 is cleared, and the freed frame stays used (`FreeFrame`).
* An NMI between the two halves of the cursor position loses its message when the
  position goes from 0x6FF to 0x700: in between it is 0x7FF, behind the screen
  (`TornOutputIsContained`).
* `interrupt.asm:4` says that the stubs save the processor state; of the segment registers
  they save `ds`, from which they set all four on return. Harmless: the only code that changes `fs` is in
  `farpeekl` and `farpokeb`, which nothing calls.
* `interrupt.asm:39` and `:69` say that `iret` pops five things; without a change of privilege
  it pops three, and `esp` and `ss` of `registers_t` are not pushed: reading them gives
  the interrupted code's own stack. Of `ds` in `registers_t` only the low half is the
  selector (`FrameIsTrue`).
* `kernel.c:46` announces a fault "without registered handler", but `kernel.c:28` has
  registered one: `EndsCaught` ends with `divhandler` called.
* `do_intel` prints the extended family of family 15 and prints its bits again as part of
  "Reserved" (`detect_cpu.c:125`, `:162`; `SignatureIsDecoded` relates the two).
* `paging.c:160`: "XXX: RESETS HERE, NO CATCHED IRQ", say the authors. The loop maps up to
  `placement_address`; the stack at 0x90000 (`pm_switch.asm:29`) is not in there unless used
  memory reaches that far. The push behind the switch faults, and the registered `page_fault`
  cannot be called without a stack either (`EnablePaging`; run `paging` reaches "reset", which
  is the exception in `PagingIsSwitchedOn`). Whether this is the reset that the authors saw
  depends on the image; it is one that the code leads to.
* `paging.c:125`, `:179`, `:122`: directory and tables are not cleared, the bitset only to a
  quarter. The identity mapping that `paging.c:128` promises holds only if memory was zero
  (`clean` in `UsedMemoryIsIdentityMapped`; `IdentityMap` alone fails in run `paging`).
* `paging.c:121` allocates as many bytes as the bitset has words. Depending on where the kernel
  ends its last words are the first entries of the directory, and `get_page` takes the
  bits of frames for a table (`set_frame` and `GoAstray`, reached in run `paging` from the
  kernel ends `EndsShared`).
* `pci.c:140` does not check the count: `pc = "overrun"` is reached in run `reports`.
* `paging.c:86` waits for -1 from `first_frame`, which returns 0 when nothing is free:
  frame 0 is mapped (the exception in `OnlyFrameZeroIsShared`).
* An NMI during the boot delay prints through a `T_BUFF` that is still null (the
  exception in `NothingPrintedBlind`).
* `boot_sector.asm:40` says 15 sectors where 34 are read.

## 6. What is not modelled, and the plan

Not modelled because there is nothing to check: `hardware.c`, whose functions are one
instruction each (the modules model the device behind the port instead), the Makefile and
the tools. An NMI before `idt_load` has run goes through the BIOS's real-mode table in
protected mode; IntInstall leaves it out, and it leaves out `io_wait`.

Partly modelled: paging. `page_fault` only prints and stops; `get_page` with `make` set
after paging is on has no caller. What a processor or the kernel does after a stale entry of
the directory has been followed (`pc = "lost"`) is not followed either.

What is left:

1. The line that `pci_explore` prints, composed from Pci and Printf: `%x` of two bytes
   drops the leading zero of the second.
2. `get_page` with `make` while paging is on, should it get a caller: the new table
   lies outside the identity mapping.

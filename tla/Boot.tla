--------------------------------- MODULE Boot ---------------------------------
(***************************************************************************)
(* The boot sector, from the jump of the BIOS to the call of kmain: the    *)
(* disk read with its two error exits, and the switch to protected mode.   *)
(* Registers that no property looks at, and the output routines (they save *)
(* and restore all registers), are left out.                               *)
(*                                                                         *)
(* The sector relies on the BIOS for the segment registers: they are zero. *)
(***************************************************************************)
EXTENDS Integers, Sequences

CONSTANTS
  Requested,     (* dh in load_kernel: 34                                   *)
  Drives,        (* what the BIOS may pass in dl                            *)
  Codes          (* the status in ah                                        *)

KernelOffset == 4096
BootSector   == 31744  \* 0x7c00
RealStack    == 36864  \* 0x9000
PmStack      == 589824 \* 0x90000

\* What is read ends below the sector that reads it, and cylinder, head and
\* count fit their bytes.
ASSUME LayoutAssumption ==
  /\ Requested \in 1 .. 128
  /\ KernelOffset + (512 * Requested) <= BootSector
  /\ Drives \subseteq 0 .. 255 /\ Codes \subseteq 0 .. 255

VARIABLES
  pc,
  BOOT_DRIVE,
  ah, al, dh, dl,    (* registers                                           *)
  sp, stack,         (* the stack pointer's base, and what was pushed on it *)
  iflag,             (* IF                                                  *)
  pe,                (* cr0, bit 0                                          *)
  gdt,               (* GDTR has been loaded                                *)
  cs, ds,            (* "real", or the GDT's "code" and "data"              *)
  loaded,            (* sectors of the kernel in memory                     *)
  answer,            (* history: what int 0x13 returned in ah               *)
  shown              (* what error_traceback prints, in order               *)

regs == <<ah, al, dh, dl>>
mode == <<iflag, pe, gdt, cs, ds>>
vars == <<pc, BOOT_DRIVE, regs, sp, stack, mode, loaded, answer, shown>>

-----------------------------------------------------------------------------
(* Real mode.                                                              *)

Start ==
  /\ pc = "start"
  /\ BOOT_DRIVE' = dl
  /\ sp' = RealStack /\ stack' = <<>>
  /\ pc' = "load_kernel"
  /\ UNCHANGED <<regs, mode, loaded, answer, shown>>

LoadKernel ==
  /\ pc = "load_kernel"
  /\ dh' = Requested /\ dl' = BOOT_DRIVE
  /\ pc' = "disk_load"
  /\ UNCHANGED <<BOOT_DRIVE, ah, al, sp, stack, mode, loaded, answer, shown>>

\* pusha, push dx, and the arguments of int 0x13.
DiskLoad ==
  /\ pc = "disk_load"
  /\ stack' = stack \o <<<<ah, al, dh, dl>>, <<dh, dl>>>>
  /\ ah' = 2 /\ al' = dh /\ dh' = 0
  /\ pc' = "int13"
  /\ UNCHANGED <<BOOT_DRIVE, dl, sp, mode, loaded, answer, shown>>

\* The BIOS reads some of the sectors, says how many and whether it failed;
\* without the carry flag the count is right.
Int13 ==
  /\ pc = "int13"
  /\ \E carry \in BOOLEAN, code \in Codes, count, n \in 0 .. al :
       /\ ~carry => count = n
       /\ ah' = code /\ answer' = code
       /\ al' = count
       /\ loaded' = n
       /\ pc' = IF carry THEN "disk_error" ELSE "check"
  /\ UNCHANGED <<BOOT_DRIVE, dh, dl, sp, stack, mode, shown>>

\* Mutant: the count is not looked at.
AllReadAlways(count, wanted) == TRUE

AllRead(count, wanted) == count = wanted

\* What pop finds.
Fetched(s) == s[Len(s)]

\* pop dx, cmp, and on success popa and ret.
CheckCount ==
  /\ pc = "check"
  /\ LET dx == Fetched(stack)
     IN IF AllRead(al, dx[1])
        THEN LET saved == stack[Len(stack) - 1]
             IN /\ ah' = saved[1] /\ al' = saved[2] /\ dh' = saved[3] /\ dl' = saved[4]
                /\ stack' = SubSeq(stack, 1, Len(stack) - 2)
                /\ pc' = "cli"
        ELSE /\ dh' = dx[1] /\ dl' = dx[2]
             /\ stack' = SubSeq(stack, 1, Len(stack) - 1)
             /\ pc' = "sector_error"
             /\ UNCHANGED <<ah, al>>
  /\ UNCHANGED <<BOOT_DRIVE, sp, mode, loaded, answer, shown>>

\* Mutant: relies on the dx of disk_load, which one of the two ways has popped.
NotSaved(s, dx) == s

\* push dx
Saved(s, dx) == Append(s, dx)

\* The message, then the status: dx is used up for printing it.
ReportStatus ==
  /\ pc \in {"disk_error", "sector_error"}
  /\ stack' = Saved(stack, <<ah, dl>>)
  /\ dh' = 0 /\ dl' = ah
  /\ shown' = <<pc, ah>>
  /\ pc' = "disk"
  /\ UNCHANGED <<BOOT_DRIVE, ah, al, sp, mode, loaded, answer>>

\* dx is fetched back and the drive printed.
ReportDrive ==
  /\ pc = "disk"
  /\ dh' = 0 /\ dl' = Fetched(stack)[2]
  /\ stack' = SubSeq(stack, 1, Len(stack) - 1)
  /\ shown' = Append(shown, Fetched(stack)[2])
  /\ pc' = "hang"
  /\ UNCHANGED <<BOOT_DRIVE, ah, al, sp, mode, loaded, answer>>

-----------------------------------------------------------------------------
(* pm_switch.asm, with interrupts off.                                     *)

\* Mutant: the switch begins without cli.
NoCli == iflag' = iflag

ClearIf == iflag' = FALSE

Cli ==
  /\ pc = "cli"
  /\ ClearIf
  /\ pc' = "lgdt"
  /\ UNCHANGED <<BOOT_DRIVE, regs, sp, stack, pe, gdt, cs, ds, loaded, answer, shown>>

LoadGdt ==
  /\ pc = "lgdt"
  /\ gdt' = TRUE
  /\ pc' = "cr0"
  /\ UNCHANGED <<BOOT_DRIVE, regs, sp, stack, iflag, pe, cs, ds, loaded, answer, shown>>

SetPe ==
  /\ pc = "cr0"
  /\ pe' = TRUE
  /\ pc' = "jump"
  /\ UNCHANGED <<BOOT_DRIVE, regs, sp, stack, iflag, gdt, cs, ds, loaded, answer, shown>>

FarJump ==
  /\ pc = "jump"
  /\ cs' = IF gdt /\ pe THEN "code" ELSE "real"
  /\ pc' = "init_pm"
  /\ UNCHANGED <<BOOT_DRIVE, regs, sp, stack, iflag, pe, gdt, ds, loaded, answer, shown>>

\* The data segments and the stack; BEGIN_PM prints and calls the kernel, whose
\* entry calls kmain.
InitPm ==
  /\ pc = "init_pm"
  /\ ds' = "data"
  /\ sp' = PmStack /\ stack' = <<>>
  /\ pc' = "kmain"
  /\ UNCHANGED <<BOOT_DRIVE, regs, iflag, pe, gdt, cs, loaded, answer, shown>>

-----------------------------------------------------------------------------

Init ==
  /\ pc = "start"
  /\ BOOT_DRIVE = 0
  /\ ah = 0 /\ al = 0 /\ dh = 0 /\ dl \in Drives
  /\ sp = 0 /\ stack = <<>>
  /\ iflag = TRUE /\ pe = FALSE /\ gdt = FALSE
  /\ cs = "real" /\ ds = "real"
  /\ loaded = 0 /\ answer = 0 /\ shown = <<>>

\* jmp $ after an error; kmain goes on in Kernel.
Ended == pc \in {"hang", "kmain"} /\ UNCHANGED vars

Next ==
  \/ Start \/ LoadKernel \/ DiskLoad \/ Int13 \/ CheckCount \/ ReportStatus \/ ReportDrive
  \/ Cli \/ LoadGdt \/ SetPe \/ FarJump \/ InitPm
  \/ Ended

Spec == Init /\ [][Next]_vars

-----------------------------------------------------------------------------
(* Properties                                                              *)

\* kmain starts with the whole kernel in memory, in flat protected mode, on an
\* empty stack of its own.
KernelIsWhole ==
  pc = "kmain" =>
    /\ loaded = Requested
    /\ pe /\ cs = "code" /\ ds = "data"
    /\ sp = PmStack /\ stack = <<>>

\* From the switch to the sti of idt_load, the processor would look for a table
\* of gates where the BIOS has its vectors: no interrupt may be taken.
NoInterruptInProtectedMode == pe => ~iflag

\* After an error the status and the drive on the screen are those of the read,
\* on both ways to the message, with whatever each has left on the stack.
ErrorIsReported ==
  pc = "hang" => shown[2] = answer /\ shown[3] = BOOT_DRIVE
=============================================================================

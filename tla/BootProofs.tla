------------------------------ MODULE BootProofs ------------------------------
(***************************************************************************)
(* The boot sector, for every request, drive and answer of the BIOS.       *)
(***************************************************************************)
EXTENDS Boot, SequenceTheorems, TLAPS

Reading   == {"int13", "check", "disk_error"}
Switching == {"cli", "lgdt", "cr0", "jump", "init_pm", "kmain"}

\* What dx held when disk_load pushed it.
Asked == <<Requested, BOOT_DRIVE>>

\* The registers and the stack on the way from the request to its check.
ReadInv ==
  /\ pc = "disk_load" => dh = Requested /\ dl = BOOT_DRIVE /\ stack = <<>>
  /\ pc \in Reading =>
       /\ dl = BOOT_DRIVE
       /\ \E saved : stack = <<saved, Asked>>
  /\ pc = "check" => al = loaded
  /\ pc = "sector_error" =>
       /\ dl = BOOT_DRIVE
       /\ \E saved : stack = <<saved>>
  /\ pc \in {"check", "disk_error", "sector_error"} => ah = answer
  /\ pc = "disk" =>
       /\ Fetched(stack)[2] = BOOT_DRIVE
       /\ \E message : shown = <<message, answer>>

\* How far the switch has come.
ModeInv ==
  /\ pc \in Switching => loaded = Requested
  /\ pc \in Switching \ {"cli"} => ~iflag
  /\ pc \in Switching \ {"cli", "lgdt"} => gdt
  /\ pc \in {"jump", "init_pm", "kmain"} <=> pe
  /\ pc \in {"init_pm", "kmain"} => cs = "code"
  /\ pc = "kmain" => ds = "data" /\ sp = PmStack /\ stack = <<>>

BootInv ==
  /\ pc \in {"start", "load_kernel", "disk_load", "sector_error", "disk", "hang"} \cup Reading \cup Switching
  /\ pc = "load_kernel" => stack = <<>>
  /\ ReadInv /\ ModeInv
  /\ ErrorIsReported

LEMMA InitBoot == Init => BootInv
BY DEF Init, BootInv, ReadInv, ModeInv, Reading, Switching, ErrorIsReported

LEMMA DiskLoadStep ==
  ASSUME BootInv, DiskLoad
  PROVE  BootInv'
<1> DEFINE s == <<ah, al, dh, dl>>
<1>1. pc = "disk_load" /\ dh = Requested /\ dl = BOOT_DRIVE /\ stack = <<>>
  BY DEF DiskLoad, BootInv, ReadInv
<1>2. stack' = <<>> \o <<s, Asked>>
  BY <1>1 DEF DiskLoad, Asked
<1>3. <<>> \o <<s, Asked>> = <<s, Asked>>
  <2> HIDE DEF s
  <2> QED OBVIOUS
<1>4. \E saved : stack' = <<saved, Asked>>
  BY <1>2, <1>3
<1>5. pc' = "int13" /\ UNCHANGED <<BOOT_DRIVE, dl, sp, mode, loaded, answer, shown>>
  BY DEF DiskLoad
<1> QED
  BY <1>1, <1>4, <1>5 DEF BootInv, ReadInv, ModeInv, Reading, Switching, Asked, mode, ErrorIsReported

\* The whole kernel has been read when the count is what was asked for, which the
\* stack has kept.
LEMMA CheckCountStep ==
  ASSUME BootInv, CheckCount
  PROVE  BootInv'
<1>1. pc = "check" /\ dl = BOOT_DRIVE /\ al = loaded /\ ah = answer /\ ~pe
  BY DEF CheckCount, BootInv, ReadInv, ModeInv, Reading
<1>2. PICK saved : stack = <<saved, Asked>>
  BY <1>1 DEF BootInv, ReadInv, Reading
<1>3. Len(stack) = 2 /\ stack[Len(stack)] = Asked /\ Asked[1] = Requested /\ Asked[2] = BOOT_DRIVE
  BY <1>2 DEF Asked
<1>4. UNCHANGED <<BOOT_DRIVE, sp, mode, loaded, answer, shown>>
  BY DEF CheckCount
<1>5. CASE al = Requested
  <2>1. pc' = "cli"
    BY <1>3, <1>5 DEF CheckCount, AllRead, Fetched
  <2> QED
    BY <1>1, <1>4, <1>5, <2>1 DEF BootInv, ReadInv, ModeInv, Reading, Switching, mode, ErrorIsReported
<1>6. CASE al # Requested
  <2>1. pc' = "sector_error" /\ dl' = BOOT_DRIVE /\ ah' = ah /\ stack' = SubSeq(stack, 1, 1)
    BY <1>3, <1>6 DEF CheckCount, AllRead, Fetched
  <2>2. SubSeq(<<saved, Asked>>, 1, 1) = <<saved>>
    <3> DEFINE d == Asked
               s == SubSeq(<<saved, d>>, 1, 1)
    <3> HIDE DEF d
    <3>1. s = [k \in 1 .. 1 |-> <<saved, d>>[k]]
      OBVIOUS
    <3>2. \A k \in 1 .. 1 : <<saved, d>>[k] = saved
      OBVIOUS
    <3>3. s = [k \in 1 .. 1 |-> saved]
      BY <3>1, <3>2
    <3>4. [k \in 1 .. 1 |-> saved] = <<saved>>
      OBVIOUS
    <3> QED BY <3>3, <3>4 DEF d
  <2>3. \E first : stack' = <<first>>
    BY <1>2, <2>1, <2>2
  <2> QED
    BY <1>1, <1>4, <2>1, <2>3 DEF BootInv, ReadInv, ModeInv, Reading, Switching, mode, ErrorIsReported
<1> QED BY <1>5, <1>6

LEMMA StatusStep ==
  ASSUME BootInv, ReportStatus
  PROVE  BootInv'
<1>1. ah = answer /\ dl = BOOT_DRIVE /\ ~pe
  BY DEF ReportStatus, BootInv, ReadInv, ModeInv, Reading
<1>2. /\ shown' = <<pc, ah>> /\ pc' = "disk" /\ stack' = Append(stack, <<ah, dl>>)
      /\ UNCHANGED <<BOOT_DRIVE, ah, al, sp, mode, loaded, answer>>
  BY DEF ReportStatus, Saved
<1>3. Fetched(stack') = <<ah, dl>>
  <2> DEFINE d == <<ah, dl>>
  <2> HIDE DEF d
  <2>1. CASE pc = "disk_error"
    <3>1. PICK saved : stack = <<saved, Asked>>
      BY <2>1 DEF BootInv, ReadInv, Reading
    <3> DEFINE a == Asked
    <3> HIDE DEF a
    <3>2. Append(<<saved, a>>, d)[Len(Append(<<saved, a>>, d))] = d
      OBVIOUS
    <3> QED BY <1>2, <3>1, <3>2 DEF a, d, Fetched
  <2>2. CASE pc = "sector_error"
    <3>1. PICK saved : stack = <<saved>>
      BY <2>2 DEF BootInv, ReadInv
    <3>2. Append(<<saved>>, d)[Len(Append(<<saved>>, d))] = d
      OBVIOUS
    <3> QED BY <1>2, <3>1, <3>2 DEF d, Fetched
  <2> QED BY <2>1, <2>2 DEF ReportStatus, d
<1>4. Fetched(stack')[2] = BOOT_DRIVE'
  BY <1>1, <1>2, <1>3
<1>5. \E message : shown' = <<message, answer'>>
  BY <1>1, <1>2
<1> QED
  BY <1>1, <1>2, <1>4, <1>5
     DEF BootInv, ReadInv, ModeInv, Reading, Switching, mode, ErrorIsReported, Fetched

LEMMA DriveStep ==
  ASSUME BootInv, ReportDrive
  PROVE  BootInv'
<1>1. /\ Fetched(stack)[2] = BOOT_DRIVE /\ ~pe
  BY DEF ReportDrive, BootInv, ReadInv, ModeInv
<1>2. PICK message : shown = <<message, answer>>
  BY DEF ReportDrive, BootInv, ReadInv
<1>3. /\ shown' = Append(shown, BOOT_DRIVE) /\ pc' = "hang"
      /\ UNCHANGED <<BOOT_DRIVE, ah, al, sp, mode, loaded, answer>>
  BY <1>1 DEF ReportDrive
<1>4. shown'[2] = answer /\ shown'[3] = BOOT_DRIVE
  BY <1>2, <1>3
<1>5. ErrorIsReported'
  BY <1>3, <1>4 DEF ErrorIsReported
<1> QED BY <1>1, <1>3, <1>5 DEF BootInv, ReadInv, ModeInv, Reading, Switching, mode

LEMMA OtherSteps ==
  ASSUME BootInv,
         \/ Start \/ LoadKernel \/ Int13 \/ Cli \/ LoadGdt \/ SetPe \/ FarJump \/ InitPm
         \/ UNCHANGED vars
  PROVE  BootInv'
<1> USE DEF BootInv, ReadInv, ModeInv, Reading, Switching, Asked, ErrorIsReported, regs, mode
<1>1. CASE Start
  BY <1>1 DEF Start
<1>2. CASE LoadKernel
  BY <1>2 DEF LoadKernel
<1>3. CASE Int13
  <2>1. PICK carry \in BOOLEAN, code \in Codes, count \in 0 .. al, n \in 0 .. al :
          /\ ~carry => count = n
          /\ ah' = code /\ answer' = code /\ al' = count /\ loaded' = n
          /\ pc' = IF carry THEN "disk_error" ELSE "check"
    BY <1>3 DEF Int13
  <2> QED BY <1>3, <2>1 DEF Int13
<1>4. CASE Cli
  BY <1>4 DEF Cli, ClearIf
<1>5. CASE LoadGdt
  BY <1>5 DEF LoadGdt
<1>6. CASE SetPe
  BY <1>6 DEF SetPe
<1>7. CASE FarJump
  BY <1>7 DEF FarJump
<1>8. CASE InitPm
  BY <1>8 DEF InitPm
<1>9. CASE UNCHANGED vars
  BY <1>9 DEF vars
<1> QED BY <1>1, <1>2, <1>3, <1>4, <1>5, <1>6, <1>7, <1>8, <1>9

LEMMA BootStep == BootInv /\ [Next]_vars => BootInv'
BY DiskLoadStep, CheckCountStep, StatusStep, DriveStep, OtherSteps DEF Next, Ended

LEMMA BootInvHolds == Spec => []BootInv
BY InitBoot, BootStep, PTL DEF Spec

\* kmain starts only on a whole kernel, in flat protected mode, whatever the BIOS
\* answers.
THEOREM KernelIsAlwaysWhole == Spec => []KernelIsWhole
<1>1. BootInv => KernelIsWhole
  BY DEF BootInv, ModeInv, Switching, KernelIsWhole
<1> QED BY <1>1, BootInvHolds, PTL

\* The processor is never in protected mode with interrupts on before kmain.
THEOREM SwitchIsUninterrupted == Spec => []NoInterruptInProtectedMode
<1>1. BootInv => NoInterruptInProtectedMode
  BY DEF BootInv, ModeInv, Switching, NoInterruptInProtectedMode
<1> QED BY <1>1, BootInvHolds, PTL

\* An error on the screen is the error that the BIOS gave, on the drive booted from.
THEOREM ErrorIsAlwaysReported == Spec => []ErrorIsReported
<1>1. BootInv => ErrorIsReported
  BY DEF BootInv
<1> QED BY <1>1, BootInvHolds, PTL
=============================================================================

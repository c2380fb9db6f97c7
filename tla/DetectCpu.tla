------------------------------- MODULE DetectCpu -------------------------------
(***************************************************************************)
(* detect_cpu(): what CPUID says of the processor, decoded and printed.    *)
(* One step per CPUID instruction, with what is printed up to the next.    *)
(*                                                                         *)
(* Extended leaves are numbered from 0x80000000, so that a processor whose *)
(* largest leaf is 0 has NoLeaves.  A model or brand is printed by name:   *)
(* the name is its place in the table or switch that holds it.             *)
(***************************************************************************)
EXTENDS Integers, Sequences, FiniteSetsExt

CONSTANT Cpus    (* [vendor, signature, brand, max, name, sensor]           *)

NoLeaves == -2147483647 - 1
Nul == 0

ASSUME NumbersAssumption ==
  \A c \in Cpus :
    /\ c.signature \in 0 .. (2^28) - 1 /\ c.brand \in 0 .. 255
    /\ c.max \in Int

\* A name is 48 characters, and NUL from the first NUL on.
ASSUME NameAssumption ==
  \A c \in Cpus :
    /\ c.name \in [1 .. 48 -> 0 .. 127]
    /\ \A k \in 1 .. 47 : c.name[k] = Nul => c.name[k + 1] = Nul

VARIABLES
  cpu,       (* the processor                                               *)
  stage,
  j,         (* the leaf of the name to read next                           *)
  eax,       (* the signature                                               *)
  asked,     (* history: the extended leaves read                           *)
  out        (* what has been printed: pairs of a label and a value         *)

cpuVars == <<cpu, stage, j, eax, asked, out>>

-----------------------------------------------------------------------------
(* CPUID and printregs.                                                    *)

\* The four registers of a leaf of the name, as numbers.  Of a leaf that is not
\* there some registers come back as well: they are taken for the name too.
NameRegisters(leaf) ==
  LET byte(r, k) == cpu.name[16 * (leaf - 2) + 4 * (r - 1) + k + 1]
  IN [r \in 1 .. 4 |-> byte(r, 0) + (2^8 * byte(r, 1)) + (2^16 * byte(r, 2)) + (2^24 * byte(r, 3))]

\* Mutant: the registers are laid out side by side.
StringOfInterleaved(regs) ==
  [k \in 1 .. 17 |-> IF k = 17 THEN Nul
                     ELSE (regs[((k - 1) % 4) + 1] \div 2^(8 * ((k - 1) \div 4))) % 256]

\* char string[17]
StringOf(regs) ==
  [k \in 1 .. 17 |-> IF k = 17 THEN Nul
                     ELSE (regs[((k - 1) \div 4) + 1] \div 2^(8 * ((k - 1) % 4))) % 256]

UpToNul(s) == SubSeq(s, 1, Min({k \in DOMAIN s : s[k] = Nul}) - 1)

printregs(regs) == <<"name", UpToNul(StringOf(regs))>>

-----------------------------------------------------------------------------
(* The signature.                                                          *)

Bits(v, from, width) == (v \div 2^from) % 2^width

Stepping(sig) == Bits(sig, 0, 4)
Model(sig)    == Bits(sig, 4, 4)
Family(sig)   == Bits(sig, 8, 4)

\* Mutant: the field is taken to start with the type.
IntelReservedWithType(sig) == sig \div 2^12

IntelReserved(sig) == sig \div 2^14
AmdReserved(sig)   == sig \div 2^12

\* The models that do_intel's switch names.
IntelModels(family) ==
  CASE family = 4 -> 0 .. 5 \cup {7, 8}
    [] family = 5 -> 1 .. 4
    [] family = 6 -> {1, 3} \cup 5 .. 8
    [] OTHER      -> {}

\* do_amd gives the number for a model it has no name for.
AmdModels(family) == CASE family = 5 -> {8, 9} [] family = 6 -> {3, 6, 7} [] OTHER -> {}

NameIf(known, table, k) == IF known THEN <<table, k>> ELSE <<>>

IntelLines(sig) ==
  << <<"type", Bits(sig, 12, 2)>>,
     <<"family", Family(sig)>>,
     NameIf(Family(sig) \in 3 .. 6 \cup {15}, "family_name", Family(sig)) >>
  \o (IF Family(sig) = 15 THEN << <<"extended_family", Bits(sig, 20, 8)>> >> ELSE <<>>)
  \o << <<"model", Model(sig)>>,
        NameIf(Model(sig) \in IntelModels(Family(sig)), "model_name", Model(sig)) >>

AmdLines(sig) ==
  << <<"family", Family(sig)>>, <<"model", Model(sig)>>,
     NameIf(Family(sig) \in 4 .. 6,
            IF Model(sig) \in AmdModels(Family(sig)) THEN "model_name" ELSE "model_number",
            Model(sig)) >>

-----------------------------------------------------------------------------
(* The brand tables.                                                       *)

TableLength == 24    \* Intel[] and Intel_Other[]

\* Mutant: the bound is taken for the last index.
BrandFitsOneMore(brand) == brand <= 24

BrandFits(brand) == brand < 24

BrandLines(sig, brand) ==
  IF brand = 0 THEN <<>>
  ELSE << <<"brand", brand>>,
          IF ~BrandFits(brand) THEN <<"brand_reserved", 0>>
          ELSE <<IF sig \in {1713, 3859} THEN "Intel_Other" ELSE "Intel", brand>> >>

-----------------------------------------------------------------------------
(* The steps.                                                              *)

Vendor ==
  /\ stage = "vendor"
  /\ stage' = IF cpu.vendor \in {"Genu", "Auth"} THEN "signature" ELSE "done"
  /\ out' = IF cpu.vendor \in {"Genu", "Auth"} THEN out ELSE << <<"unknown", 0>> >>
  /\ UNCHANGED <<cpu, j, eax, asked>>

Intel == cpu.vendor = "Genu"

Signature ==
  /\ stage = "signature"
  /\ eax' = cpu.signature
  /\ out' = out \o IF Intel THEN IntelLines(eax') ELSE AmdLines(eax')
  /\ stage' = "max"
  /\ UNCHANGED <<cpu, j, asked>>

LastLine ==
  << <<"stepping", Stepping(eax)>>,
     <<"reserved", IF Intel THEN IntelReserved(eax) ELSE AmdReserved(eax)>> >>

\* do_intel has the name if there are leaves up to 4, do_amd if there are up to
\* 2, though it reads all three; only do_intel falls back on the tables.
MaxLeaf ==
  /\ stage = "max"
  /\ IF cpu.max >= (IF Intel THEN 4 ELSE 2)
     THEN stage' = "name" /\ out' = out
     ELSE /\ stage' = "done"
          /\ out' = IF Intel THEN out \o BrandLines(eax, cpu.brand) \o LastLine
                    ELSE IF cpu.max = NoLeaves THEN out ELSE out \o LastLine
  /\ asked' = asked \cup {0}
  /\ UNCHANGED <<cpu, j, eax>>

\* do_intel tests for each leaf again.
Name ==
  /\ stage = "name" /\ j <= 4
  /\ IF Intel /\ cpu.max < j
     THEN UNCHANGED <<asked, out>>
     ELSE asked' = asked \cup {j} /\ out' = Append(out, printregs(NameRegisters(j)))
  /\ j' = j + 1
  /\ UNCHANGED <<cpu, stage, eax>>

SensorLeaf(max) == max >= 7

\* After the name do_amd asks for the temperature sensor.
AfterName ==
  /\ stage = "name" /\ j > 4
  /\ IF ~Intel /\ SensorLeaf(cpu.max)
     THEN /\ asked' = asked \cup {7}
          /\ out' = out \o (IF cpu.sensor THEN << <<"sensor", 0>> >> ELSE <<>>) \o LastLine
     ELSE asked' = asked /\ out' = out \o LastLine
  /\ stage' = "done"
  /\ UNCHANGED <<cpu, j, eax>>

CpuInit ==
  /\ cpu \in Cpus
  /\ stage = "vendor" /\ j = 2 /\ eax = 0
  /\ asked = {} /\ out = <<>>

Reported == stage = "done" /\ UNCHANGED cpuVars

CpuNext == Vendor \/ Signature \/ MaxLeaf \/ Name \/ AfterName \/ Reported

CpuSpec == CpuInit /\ [][CpuNext]_cpuVars

-----------------------------------------------------------------------------
(* Properties                                                              *)

Printed(label) == {out[k][2] : k \in {m \in DOMAIN out : out[m] # <<>> /\ out[m][1] = label}}

\* The name comes in pieces of at most 16 characters, each printed up to its
\* first NUL: where the processor has all three leaves, the report has the three,
\* one after the other, and together they are the processor's name.
NameIsWhole ==
  stage = "done" /\ cpu.vendor \in {"Genu", "Auth"} /\ cpu.max >= 4 =>
    \E k \in DOMAIN out :
      /\ {m \in DOMAIN out : out[m] # <<>> /\ out[m][1] = "name"} = k .. k + 2
      /\ out[k][2] \o out[k + 1][2] \o out[k + 2][2] = UpToNul(Append(cpu.name, Nul))

\* No leaf is read that the processor says it does not have: all three of the
\* name are there, or the name is not printed (detect_cpu.c:238).
LeavesExist == \A leaf \in asked \ {0} : leaf <= cpu.max

\* A brand is looked for in its table only where the table has entries.
BrandIsInTable == Printed("Intel") \cup Printed("Intel_Other") \subseteq 0 .. TableLength - 1

\* In a report that ends with the stepping and the reserved bits, the fields put
\* together are the whole signature, whichever vendor's layout it has.  The
\* extended family of an Intel processor, printed for family 15 alone, is eight
\* bits of the field that the last line shows as reserved.
SignatureIsDecoded ==
  \A s \in Printed("stepping"), r \in Printed("reserved"), m \in Printed("model"),
     f \in Printed("family") :
    /\ Intel  => /\ \A t \in Printed("type") :
                      cpu.signature = s + 16 * m + 256 * f + 4096 * t + 16384 * r
                 /\ \A x \in Printed("extended_family") : f = 15 /\ x = (r \div 64) % 256
    /\ ~Intel => cpu.signature = s + 16 * m + 256 * f + 4096 * r
=============================================================================

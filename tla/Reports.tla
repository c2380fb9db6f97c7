-------------------------------- MODULE Reports --------------------------------
(***************************************************************************)
(* What kmain reports of the machine it runs on: detect_cpu, and after the *)
(* lines it prints in between, which leave both alone, pci_explore.        *)
(***************************************************************************)
EXTENDS DetectCpu, Pci

CONSTANT Hosts    (* pairs of a processor and a configuration space         *)

ASSUME HostsAssumption == Hosts \subseteq Cpus \X Machines

reportVars == <<cpuVars, vars>>

\* (void) detect_cpu();
DetectCpuRuns == CpuNext /\ UNCHANGED vars

\* pci_explore();
PciExploreRuns == stage = "done" /\ Explore /\ UNCHANGED cpuVars

\* kmain goes on in Kernel.
AllReported == stage = "done" /\ Finished /\ UNCHANGED cpuVars

ReportsInit == CpuInit /\ Init /\ <<cpu, machine>> \in Hosts

ReportsNext == DetectCpuRuns \/ PciExploreRuns \/ AllReported

ReportsSpec ==
  ReportsInit /\ [][ReportsNext]_reportVars /\ WF_reportVars(DetectCpuRuns \/ PciExploreRuns)
=============================================================================

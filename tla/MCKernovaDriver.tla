--------------------------- MODULE MCKernovaDriver ---------------------------
(***************************************************************************)
(* Instances of KernovaDriver for TLC: two processes and the administrator *)
(* on two CPUs, free to migrate or all bound to one of the CPUs.           *)
(***************************************************************************)
EXTENDS KernovaDriver, TLC

CONSTANTS p1, p2, c1, c2, g1, g2, g3, HLT, INVALID, kvm

MCProcs == {p1, p2}
MCCpus == {c1, c2}
MCPages == {g1, g2, g3}
MCExitCodes == {HLT, INVALID}
MCGuestSizes == {0, 4096, 4097}  \* around KERNOVA_GUEST_PAGE_SIZE

MCFree   == [t \in Tasks |-> MCCpus]
MCPinned == [t \in Tasks |-> {c1}]

\* CPUs nobody has used SVM on; in the pinned run another hypervisor has
\* enabled SVM on c1, with a host-save page of its own
MCBootSvme  == [c \in MCCpus |-> FALSE]
MCBootHsave == [c \in MCCpus |-> NULL]
MCUsedSvme  == [c \in MCCpus |-> c = c1]
MCUsedHsave == [c \in MCCpus |-> IF c = c1 THEN kvm ELSE NULL]

Symmetric == Permutations(MCProcs) \cup Permutations(MCPages) \cup Permutations(MCExitCodes)
=============================================================================

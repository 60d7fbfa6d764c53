---------------------------- MODULE SplitPolicy ----------------------------
(***************************************************************************)
(* Where the policy comes from on a device with a split policy             *)
(* (sepolicy/policydb.cpp): one that was compiled beforehand, on odm or    *)
(* vendor, when it was compiled from what the system partitions hold, and  *)
(* otherwise all the parts, compiled now.  Updates replace partitions one  *)
(* at a time.  A part is the number of its update.                         *)
(***************************************************************************)
EXTENDS Naturals, FiniteSets

CONSTANT MaxUpdates  \* bound

VARIABLES parts, hashed, precompiled, loadedPolicy, updates

splitVars == <<parts, hashed, precompiled, loadedPolicy, updates>>

System == {"plat", "system_ext", "product"}
Parts == System \cup {"vendor", "odm"}
Absent == 0                       \* a part, or a partition, that is not there
None == [p \in Parts |-> Absent]  \* no policy

\* A device has plat and vendor.  hashed: the system partitions with a checksum
\* file (plat's under one of two names), which older systems lack.
SplitInit ==
  /\ parts \in {f \in [Parts -> {Absent, 1}] : f["plat"] = 1 /\ f["vendor"] = 1}
  /\ hashed \in SUBSET {p \in System : parts[p] # Absent}
  /\ precompiled \in [{"odm", "vendor"} -> {None, parts}]
  /\ loadedPolicy = None /\ updates = 0

\* Fault: the last checksum decides.
check_precompiled_Last(pre) ==
  hashed # {} /\ \E p \in hashed : pre[p] = parts[p]

\* cmp_sha256 on every checksum that is there; without any, no.
check_precompiled(pre) == hashed # {} /\ \A p \in hashed : pre[p] = parts[p]

\* What reading a compiled policy, or compiling one, can give: it may fail.
\* compile_split takes plat and its mapping, and whatever else can be read.
from_file(pre) == {pre, None}
compile_split == {parts, None}

from_split ==
  IF precompiled["odm"] # None /\ check_precompiled(precompiled["odm"])
  THEN from_file(precompiled["odm"])
  ELSE IF precompiled["vendor"] # None /\ check_precompiled(precompiled["vendor"])
  THEN from_file(precompiled["vendor"])
  ELSE compile_split

\* The device boots.
Load == loadedPolicy' \in from_split /\ UNCHANGED <<parts, hashed, precompiled, updates>>

\* A partition is updated; a vendor or odm image may bring a policy compiled
\* from what the device then has, or from an older system.
Update(p) ==
  /\ updates < MaxUpdates /\ updates' = updates + 1
  /\ parts[p] # Absent /\ parts' = [parts EXCEPT ![p] = @ + 1]
  /\ IF p \in System THEN UNCHANGED precompiled
     ELSE \E pre \in {None, parts', [parts' EXCEPT !["plat"] = 1]} :
            precompiled' = [precompiled EXCEPT ![p] = pre]
  /\ loadedPolicy' = None /\ UNCHANGED hashed

SplitNext == Load \/ \E p \in Parts : Update(p)
SplitSpec == SplitInit /\ [][SplitNext]_splitVars

\* from_split: after any order of updates the policy is that of every system
\* partition with a checksum as it is now, and of all partitions when there is
\* no checksum to compare.
PolicyCurrent ==
  loadedPolicy # None =>
    \A p \in (IF hashed = {} THEN Parts ELSE hashed) : loadedPolicy[p] = parts[p]
=============================================================================

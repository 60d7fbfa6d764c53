------------------------- MODULE ModuleStoreProofs -------------------------
(***************************************************************************)
(* Proofs about the module store, for any set of modules and packages and  *)
(* any number of faults and requests.                                      *)
(***************************************************************************)
EXTENDS ModuleStore, TLAPS

\* What the daemon knows of the module in hand at each step.
Where ==
  /\ pc = "clean" => cur \in Present \cap Pending
  /\ pc = "rename" => cur \in Pending
  /\ pc = "flag" => cur \in Present
  /\ pc \in {"purge", "repurge"} => cur \in Present /\ (wanted[cur] = {} \/ cur \in Pending)
  /\ pc = "wipe" => \A m \in Modules : wanted[m] = {}
  /\ pc = "safe" => todo \subseteq Present

\* The wanted version is the pending one; where none is pending it is in
\* MODULEROOT, and nobody has asked for its removal.
Kept ==
  \A m \in Modules :
    /\ wanted[m] \subseteq {"old", "new"}
    /\ m \in Pending => wanted[m] \subseteq upd[m]
    /\ m \notin Pending /\ wanted[m] # {} =>
         m \in Present /\ wanted[m] \subseteq root[m] /\ "remove" \notin root[m]

IInv == TypeOK /\ Where /\ Kept /\ OneVersion

\* Every step keeps the types.
LEMMA TypeStep ==
  ASSUME TypeOK, Where, [Next]_vars
  PROVE  TypeOK'
<1> USE DEF TypeOK, vars, loop, bounds, history, Present, Pending, Steps,
    Files, Where
<1>1. ASSUME NEW m \in Modules, UpgradeNext(m) PROVE TypeOK'
  BY <1>1, StoreAssumption DEF UpgradeNext
<1>2. ASSUME NEW m \in Modules, CollectRemove(m) PROVE TypeOK'
  BY <1>2, StoreAssumption DEF CollectRemove, Collecting
<1>3. ASSUME NEW m \in Modules, CollectKeep(m) PROVE TypeOK'
  BY <1>3, StoreAssumption DEF CollectKeep, Collecting
<1>4. ASSUME NEW m \in Modules, Script(m) PROVE TypeOK'
  BY <1>4, StoreAssumption DEF Script, ScriptFlags
<1>5. ASSUME NEW m \in Modules, SafeDisable(m) PROVE TypeOK'
  BY <1>5, StoreAssumption DEF SafeDisable
<1>6. ASSUME NEW m \in Modules, Wipe(m) PROVE TypeOK'
  BY <1>6, StoreAssumption DEF Wipe, RemoveOne, ForgetOff
<1>7. CASE Clean
  BY <1>7, StoreAssumption DEF Clean, RemoveOne
<1>8. CASE Rename
  BY <1>8, StoreAssumption DEF Rename
<1>9. CASE Flag
  BY <1>9, StoreAssumption DEF Flag
<1>10. CASE UpgradeDone
  BY <1>10, StoreAssumption DEF UpgradeDone, Collect
<1>11. CASE Purge
  BY <1>11, StoreAssumption DEF Purge, RemoveOne, ForgetOff, Purging
<1>12. CASE CollectDone
  BY <1>12, StoreAssumption DEF CollectDone, Collecting, AfterCollect
<1>13. CASE ScriptsDone
  BY <1>13, StoreAssumption DEF ScriptsDone, Collect
<1>14. CASE SafeEnds
  BY <1>14, StoreAssumption DEF SafeEnds
<1>15. CASE WipeEnds
  BY <1>15, StoreAssumption DEF WipeEnds
<1>16. CASE UpgradeFails
  BY <1>16, StoreAssumption DEF UpgradeFails, Collect, Upgrading
<1>17. CASE CollectFails
  BY <1>17, StoreAssumption DEF CollectFails, Collecting, Purging, AfterCollect
<1>18. CASE Boot
  BY <1>18, StoreAssumption DEF Boot
<1>19. CASE BootSafe
  BY <1>19, StoreAssumption DEF BootSafe
<1>20. CASE Crash
  BY <1>20, StoreAssumption DEF Crash, PowerOff
<1>21. CASE Reboot
  BY <1>21, StoreAssumption DEF Reboot, PowerOff
<1>22. CASE RemoveModules
  BY <1>22, StoreAssumption DEF RemoveModules, Asks
<1>23. ASSUME NEW m \in Modules, Install(m) PROVE TypeOK'
  <2>1. PICK p \in Packages : /\ upd' = [upd EXCEPT ![m] = p]
                             /\ wanted' = [wanted EXCEPT ![m] = Payload(p)]
    BY <1>23 DEF Install
  <2>2. Payload(p) \in SUBSET Files
    BY DEF Payload
  <2>3. root' \in [Modules -> {Absent} \cup SUBSET Files]
    BY <1>23 DEF Install
  <2>4. upd' \in [Modules -> {Absent} \cup Packages] /\ wanted' \in [Modules -> SUBSET Files]
    BY <2>1, <2>2
  <2> QED
    BY <1>23, <2>3, <2>4, StoreAssumption DEF Install, Asks
<1>24. ASSUME NEW m \in Modules, Disable(m) PROVE TypeOK'
  BY <1>24, StoreAssumption DEF Disable, Asks
<1>25. ASSUME NEW m \in Modules, Enable(m) PROVE TypeOK'
  BY <1>25, StoreAssumption DEF Enable, Asks
<1>26. ASSUME NEW m \in Modules, Remove(m) PROVE TypeOK'
  BY <1>26, StoreAssumption DEF Remove, Asks
<1>27. CASE UNCHANGED vars
  BY <1>27
<1> QED
  BY <1>1, <1>2, <1>3, <1>4, <1>5, <1>6, <1>7, <1>8, <1>9, <1>10, <1>11,
    <1>12, <1>13, <1>14, <1>15, <1>16, <1>17, <1>18, <1>19, <1>20, <1>21,
    <1>22, <1>23, <1>24, <1>25, <1>26, <1>27 DEF Next, Daemon

\* Every step keeps what the daemon knows of the module in hand.
LEMMA WhereStep ==
  ASSUME TypeOK, Where, Kept, TypeOK', [Next]_vars
  PROVE  Where'
<1> USE DEF TypeOK, Where, Kept, vars, loop, bounds, history, Present,
    Pending, Files
<1>1. ASSUME NEW m \in Modules, UpgradeNext(m) PROVE Where'
  BY <1>1, StoreAssumption DEF UpgradeNext
<1>2. ASSUME NEW m \in Modules, CollectRemove(m) PROVE Where'
  BY <1>2, StoreAssumption DEF CollectRemove, Collecting
<1>3. ASSUME NEW m \in Modules, CollectKeep(m) PROVE Where'
  BY <1>3, StoreAssumption DEF CollectKeep, Collecting
<1>4. ASSUME NEW m \in Modules, Script(m) PROVE Where'
  BY <1>4, StoreAssumption DEF Script, ScriptFlags
<1>5. ASSUME NEW m \in Modules, SafeDisable(m) PROVE Where'
  BY <1>5, StoreAssumption DEF SafeDisable
<1>6. ASSUME NEW m \in Modules, Wipe(m) PROVE Where'
  BY <1>6, StoreAssumption DEF Wipe, RemoveOne, ForgetOff
<1>7. CASE Clean
  BY <1>7, StoreAssumption DEF Clean, RemoveOne
<1>8. CASE Rename
  BY <1>8, StoreAssumption DEF Rename
<1>9. CASE Flag
  BY <1>9, StoreAssumption DEF Flag
<1>10. CASE UpgradeDone
  BY <1>10, StoreAssumption DEF UpgradeDone, Collect
<1>11. CASE Purge
  BY <1>11, StoreAssumption DEF Purge, RemoveOne, ForgetOff, Purging
<1>12. CASE CollectDone
  BY <1>12, StoreAssumption DEF CollectDone, Collecting, AfterCollect
<1>13. CASE ScriptsDone
  BY <1>13, StoreAssumption DEF ScriptsDone, Collect
<1>14. CASE SafeEnds
  BY <1>14, StoreAssumption DEF SafeEnds
<1>15. CASE WipeEnds
  BY <1>15, StoreAssumption DEF WipeEnds
<1>16. CASE UpgradeFails
  BY <1>16, StoreAssumption DEF UpgradeFails, Collect, Upgrading
<1>17. CASE CollectFails
  BY <1>17, StoreAssumption DEF CollectFails, Collecting, Purging, AfterCollect
<1>18. CASE Boot
  BY <1>18, StoreAssumption DEF Boot
<1>19. CASE BootSafe
  BY <1>19, StoreAssumption DEF BootSafe
<1>20. CASE Crash
  BY <1>20, StoreAssumption DEF Crash, PowerOff
<1>21. CASE Reboot
  BY <1>21, StoreAssumption DEF Reboot, PowerOff
<1>22. CASE RemoveModules
  BY <1>22, StoreAssumption DEF RemoveModules, Asks
<1>23. ASSUME NEW m \in Modules, Install(m) PROVE Where'
  BY <1>23, StoreAssumption DEF Install, Asks, Payload
<1>24. ASSUME NEW m \in Modules, Disable(m) PROVE Where'
  BY <1>24, StoreAssumption DEF Disable, Asks
<1>25. ASSUME NEW m \in Modules, Enable(m) PROVE Where'
  BY <1>25, StoreAssumption DEF Enable, Asks
<1>26. ASSUME NEW m \in Modules, Remove(m) PROVE Where'
  BY <1>26, StoreAssumption DEF Remove, Asks
<1>27. CASE UNCHANGED vars
  BY <1>27
<1> QED
  BY <1>1, <1>2, <1>3, <1>4, <1>5, <1>6, <1>7, <1>8, <1>9, <1>10, <1>11,
    <1>12, <1>13, <1>14, <1>15, <1>16, <1>17, <1>18, <1>19, <1>20, <1>21,
    <1>22, <1>23, <1>24, <1>25, <1>26, <1>27 DEF Next, Daemon

\* Every step keeps the wanted versions.
LEMMA KeptStep ==
  ASSUME TypeOK, Where, Kept, TypeOK', [Next]_vars
  PROVE  Kept'
<1> USE DEF TypeOK, Where, Kept, vars, loop, bounds, history, Present,
    Pending, Files
<1>1. ASSUME NEW m \in Modules, UpgradeNext(m) PROVE Kept'
  BY <1>1, StoreAssumption DEF UpgradeNext
<1>2. ASSUME NEW m \in Modules, CollectRemove(m) PROVE Kept'
  BY <1>2, StoreAssumption DEF CollectRemove, Collecting
<1>3. ASSUME NEW m \in Modules, CollectKeep(m) PROVE Kept'
  BY <1>3, StoreAssumption DEF CollectKeep, Collecting
<1>4. ASSUME NEW m \in Modules, Script(m) PROVE Kept'
  BY <1>4, StoreAssumption DEF Script, ScriptFlags
<1>5. ASSUME NEW m \in Modules, SafeDisable(m) PROVE Kept'
  BY <1>5, StoreAssumption DEF SafeDisable
<1>6. ASSUME NEW m \in Modules, Wipe(m) PROVE Kept'
  BY <1>6, StoreAssumption DEF Wipe, RemoveOne, ForgetOff
<1>7. CASE Clean
  BY <1>7, StoreAssumption DEF Clean, RemoveOne
<1>8. CASE Rename
  BY <1>8, StoreAssumption DEF Rename
<1>9. CASE Flag
  BY <1>9, StoreAssumption DEF Flag
<1>10. CASE UpgradeDone
  BY <1>10, StoreAssumption DEF UpgradeDone, Collect
<1>11. CASE Purge
  BY <1>11, StoreAssumption DEF Purge, RemoveOne, ForgetOff, Purging
<1>12. CASE CollectDone
  BY <1>12, StoreAssumption DEF CollectDone, Collecting, AfterCollect
<1>13. CASE ScriptsDone
  BY <1>13, StoreAssumption DEF ScriptsDone, Collect
<1>14. CASE SafeEnds
  BY <1>14, StoreAssumption DEF SafeEnds
<1>15. CASE WipeEnds
  BY <1>15, StoreAssumption DEF WipeEnds
<1>16. CASE UpgradeFails
  BY <1>16, StoreAssumption DEF UpgradeFails, Collect, Upgrading
<1>17. CASE CollectFails
  BY <1>17, StoreAssumption DEF CollectFails, Collecting, Purging, AfterCollect
<1>18. CASE Boot
  BY <1>18, StoreAssumption DEF Boot
<1>19. CASE BootSafe
  BY <1>19, StoreAssumption DEF BootSafe
<1>20. CASE Crash
  BY <1>20, StoreAssumption DEF Crash, PowerOff
<1>21. CASE Reboot
  BY <1>21, StoreAssumption DEF Reboot, PowerOff
<1>22. CASE RemoveModules
  BY <1>22, StoreAssumption DEF RemoveModules, Asks
<1>23. ASSUME NEW m \in Modules, Install(m) PROVE Kept'
  BY <1>23, StoreAssumption DEF Install, Asks, Payload
<1>24. ASSUME NEW m \in Modules, Disable(m) PROVE Kept'
  BY <1>24, StoreAssumption DEF Disable, Asks
<1>25. ASSUME NEW m \in Modules, Enable(m) PROVE Kept'
  BY <1>25, StoreAssumption DEF Enable, Asks
<1>26. ASSUME NEW m \in Modules, Remove(m) PROVE Kept'
  BY <1>26, StoreAssumption DEF Remove, Asks
<1>27. CASE UNCHANGED vars
  BY <1>27
<1> QED
  BY <1>1, <1>2, <1>3, <1>4, <1>5, <1>6, <1>7, <1>8, <1>9, <1>10, <1>11,
    <1>12, <1>13, <1>14, <1>15, <1>16, <1>17, <1>18, <1>19, <1>20, <1>21,
    <1>22, <1>23, <1>24, <1>25, <1>26, <1>27 DEF Next, Daemon

\* No step brings files of two versions together.
LEMMA VersionStep ==
  ASSUME TypeOK, Where, OneVersion, TypeOK', [Next]_vars
  PROVE  OneVersion'
<1> USE DEF TypeOK, Where, OneVersion, vars, loop, bounds, history, Present,
    Pending, Files
<1>1. ASSUME NEW m \in Modules, UpgradeNext(m) PROVE OneVersion'
  BY <1>1, StoreAssumption DEF UpgradeNext
<1>2. ASSUME NEW m \in Modules, CollectRemove(m) PROVE OneVersion'
  BY <1>2, StoreAssumption DEF CollectRemove, Collecting
<1>3. ASSUME NEW m \in Modules, CollectKeep(m) PROVE OneVersion'
  BY <1>3, StoreAssumption DEF CollectKeep, Collecting
<1>4. ASSUME NEW m \in Modules, Script(m) PROVE OneVersion'
  BY <1>4, StoreAssumption DEF Script, ScriptFlags
<1>5. ASSUME NEW m \in Modules, SafeDisable(m) PROVE OneVersion'
  BY <1>5, StoreAssumption DEF SafeDisable
<1>6. ASSUME NEW m \in Modules, Wipe(m) PROVE OneVersion'
  BY <1>6, StoreAssumption DEF Wipe, RemoveOne, ForgetOff
<1>7. CASE Clean
  BY <1>7, StoreAssumption DEF Clean, RemoveOne
<1>8. CASE Rename
  BY <1>8, StoreAssumption DEF Rename, Payload
<1>9. CASE Flag
  BY <1>9, StoreAssumption DEF Flag
<1>10. CASE UpgradeDone
  BY <1>10, StoreAssumption DEF UpgradeDone, Collect
<1>11. CASE Purge
  BY <1>11, StoreAssumption DEF Purge, RemoveOne, ForgetOff, Purging
<1>12. CASE CollectDone
  BY <1>12, StoreAssumption DEF CollectDone, Collecting, AfterCollect
<1>13. CASE ScriptsDone
  BY <1>13, StoreAssumption DEF ScriptsDone, Collect
<1>14. CASE SafeEnds
  BY <1>14, StoreAssumption DEF SafeEnds
<1>15. CASE WipeEnds
  BY <1>15, StoreAssumption DEF WipeEnds
<1>16. CASE UpgradeFails
  BY <1>16, StoreAssumption DEF UpgradeFails, Collect, Upgrading
<1>17. CASE CollectFails
  BY <1>17, StoreAssumption DEF CollectFails, Collecting, Purging, AfterCollect
<1>18. CASE Boot
  BY <1>18, StoreAssumption DEF Boot
<1>19. CASE BootSafe
  BY <1>19, StoreAssumption DEF BootSafe
<1>20. CASE Crash
  BY <1>20, StoreAssumption DEF Crash, PowerOff
<1>21. CASE Reboot
  BY <1>21, StoreAssumption DEF Reboot, PowerOff
<1>22. CASE RemoveModules
  BY <1>22, StoreAssumption DEF RemoveModules, Asks
<1>23. ASSUME NEW m \in Modules, Install(m) PROVE OneVersion'
  BY <1>23, StoreAssumption DEF Install, Asks, Payload
<1>24. ASSUME NEW m \in Modules, Disable(m) PROVE OneVersion'
  BY <1>24, StoreAssumption DEF Disable, Asks
<1>25. ASSUME NEW m \in Modules, Enable(m) PROVE OneVersion'
  BY <1>25, StoreAssumption DEF Enable, Asks
<1>26. ASSUME NEW m \in Modules, Remove(m) PROVE OneVersion'
  BY <1>26, StoreAssumption DEF Remove, Asks
<1>27. CASE UNCHANGED vars
  BY <1>27
<1> QED
  BY <1>1, <1>2, <1>3, <1>4, <1>5, <1>6, <1>7, <1>8, <1>9, <1>10, <1>11,
    <1>12, <1>13, <1>14, <1>15, <1>16, <1>17, <1>18, <1>19, <1>20, <1>21,
    <1>22, <1>23, <1>24, <1>25, <1>26, <1>27 DEF Next, Daemon

\* The invariant holds at first.
LEMMA InitIInv == Init => IInv
<1> SUFFICES ASSUME Init PROVE IInv
  OBVIOUS
<1>1. TypeOK
  <2>1. root \in [Modules -> {Absent} \cup SUBSET Files]
    BY DEF Init, Files
  <2>2. wanted \in [Modules -> SUBSET Files]
    BY DEF Init, Files
  <2>3. disable \in BOOLEAN
    BY Zenon DEF Init
  <2> QED
    BY <2>1, <2>2, <2>3, StoreAssumption DEF Init, TypeOK, Steps, Present
<1>2. Where /\ Kept /\ OneVersion
  BY StoreAssumption DEF Init, Where, Kept, OneVersion, Present, Pending
<1> QED
  BY <1>1, <1>2 DEF IInv

\* Over any number of boots, crashes and failed operations of handle_modules and
\* remove_modules, no installed version is lost and no two versions are mixed.
THEOREM StoreSafe == Spec => [](NothingLost /\ OneVersion)
<1>1. IInv /\ [Next]_vars => IInv'
  BY TypeStep, WhereStep, KeptStep, VersionStep DEF IInv
<1>2. IInv => NothingLost /\ OneVersion
  BY DEF IInv, Kept, NothingLost, Holds, Present, Pending
<1> QED
  BY InitIInv, <1>1, <1>2, PTL DEF Spec
-----------------------------------------------------------------------------
Flags(m) == m \in Present /\ root[m] \cap {"disable", "remove"} # {}
Disabled(m) == m \in Present /\ "disable" \in root[m]

\* A module that turned itself off has a flag when the second collection comes
\* to it, and is not in the list that collection builds.
SelfOff ==
  /\ pc \in {"upgrade", "clean", "rename", "flag", "collect", "purge"} => selfoff = {}
  /\ pc = "scripts" => \A m \in selfoff \cap Present : Flags(m)
  /\ pc \in {"recollect", "repurge"} =>
       \A m \in selfoff : m \notin list /\ (m \in todo \cap Present => Flags(m))
  /\ pc = "repurge" => cur \notin todo

\* Without a fault: a module that is off keeps its flag "disable", except
\* between its old version and its new one, or while it is removed.
OffKept ==
  faults = 0 =>
    /\ pc \in {"clean", "rename", "flag"} /\ cur \in off => disable
    /\ \A m \in off :
         /\ pc \in {"off", "up", "safe", "upgrade", "collect"} => Disabled(m)
         /\ pc \in {"clean", "rename", "flag", "purge"} /\ m # cur => Disabled(m)
         /\ pc \in {"purge", "repurge", "wipe"} => m \in Present
         /\ pc = "scripts" => Flags(m)
         /\ pc \in {"recollect", "repurge"} => m \notin list
         /\ pc = "recollect" \/ (pc = "repurge" /\ m # cur) =>
              Disabled(m) \/ (Flags(m) /\ m \in todo)

\* Every step keeps the flags of those that turned themselves off.
LEMMA SelfOffStep ==
  ASSUME TypeOK, Where, SelfOff, TypeOK', [Next]_vars
  PROVE  SelfOff'
<1> USE DEF TypeOK, Where, SelfOff, vars, loop, bounds, history, Present,
    Pending, Files, Flags
<1>1. ASSUME NEW m \in Modules, UpgradeNext(m) PROVE SelfOff'
  BY <1>1, StoreAssumption DEF UpgradeNext
<1>2. ASSUME NEW m \in Modules, CollectRemove(m) PROVE SelfOff'
  BY <1>2, StoreAssumption DEF CollectRemove, Collecting
<1>3. ASSUME NEW m \in Modules, CollectKeep(m) PROVE SelfOff'
  BY <1>3, StoreAssumption DEF CollectKeep, Collecting
<1>4. ASSUME NEW m \in Modules, Script(m) PROVE SelfOff'
  BY <1>4, StoreAssumption DEF Script, ScriptFlags
<1>5. ASSUME NEW m \in Modules, SafeDisable(m) PROVE SelfOff'
  BY <1>5, StoreAssumption DEF SafeDisable
<1>6. ASSUME NEW m \in Modules, Wipe(m) PROVE SelfOff'
  BY <1>6, StoreAssumption DEF Wipe, RemoveOne, ForgetOff
<1>7. CASE Clean
  BY <1>7, StoreAssumption DEF Clean, RemoveOne
<1>8. CASE Rename
  BY <1>8, StoreAssumption DEF Rename
<1>9. CASE Flag
  BY <1>9, StoreAssumption DEF Flag
<1>10. CASE UpgradeDone
  BY <1>10, StoreAssumption DEF UpgradeDone, Collect
<1>11. CASE Purge
  BY <1>11, StoreAssumption DEF Purge, RemoveOne, ForgetOff, Purging
<1>12. CASE CollectDone
  BY <1>12, StoreAssumption DEF CollectDone, Collecting, AfterCollect
<1>13. CASE ScriptsDone
  BY <1>13, StoreAssumption DEF ScriptsDone, Collect
<1>14. CASE SafeEnds
  BY <1>14, StoreAssumption DEF SafeEnds
<1>15. CASE WipeEnds
  BY <1>15, StoreAssumption DEF WipeEnds
<1>16. CASE UpgradeFails
  BY <1>16, StoreAssumption DEF UpgradeFails, Collect, Upgrading
<1>17. CASE CollectFails
  BY <1>17, StoreAssumption DEF CollectFails, Collecting, Purging, AfterCollect
<1>18. CASE Boot
  BY <1>18, StoreAssumption DEF Boot
<1>19. CASE BootSafe
  BY <1>19, StoreAssumption DEF BootSafe
<1>20. CASE Crash
  BY <1>20, StoreAssumption DEF Crash, PowerOff
<1>21. CASE Reboot
  BY <1>21, StoreAssumption DEF Reboot, PowerOff
<1>22. CASE RemoveModules
  BY <1>22, StoreAssumption DEF RemoveModules, Asks
<1>23. ASSUME NEW m \in Modules, Install(m) PROVE SelfOff'
  BY <1>23, StoreAssumption DEF Install, Asks, Payload
<1>24. ASSUME NEW m \in Modules, Disable(m) PROVE SelfOff'
  BY <1>24, StoreAssumption DEF Disable, Asks
<1>25. ASSUME NEW m \in Modules, Enable(m) PROVE SelfOff'
  BY <1>25, StoreAssumption DEF Enable, Asks
<1>26. ASSUME NEW m \in Modules, Remove(m) PROVE SelfOff'
  BY <1>26, StoreAssumption DEF Remove, Asks
<1>27. CASE UNCHANGED vars
  BY <1>27
<1> QED
  BY <1>1, <1>2, <1>3, <1>4, <1>5, <1>6, <1>7, <1>8, <1>9, <1>10, <1>11,
    <1>12, <1>13, <1>14, <1>15, <1>16, <1>17, <1>18, <1>19, <1>20, <1>21,
    <1>22, <1>23, <1>24, <1>25, <1>26, <1>27 DEF Next, Daemon

\* Every step keeps the flags of those that are off.
LEMMA OffStep ==
  ASSUME TypeOK, Where, OffKept, TypeOK', [Next]_vars
  PROVE  OffKept'
<1> USE DEF TypeOK, Where, OffKept, vars, loop, bounds, history, Present,
    Pending, Files, Flags, Disabled
<1>1. ASSUME NEW m \in Modules, UpgradeNext(m) PROVE OffKept'
  BY <1>1, StoreAssumption DEF UpgradeNext
<1>2. ASSUME NEW m \in Modules, CollectRemove(m) PROVE OffKept'
  BY <1>2, StoreAssumption DEF CollectRemove, Collecting
<1>3. ASSUME NEW m \in Modules, CollectKeep(m) PROVE OffKept'
  BY <1>3, StoreAssumption DEF CollectKeep, Collecting
<1>4. ASSUME NEW m \in Modules, Script(m) PROVE OffKept'
  BY <1>4, StoreAssumption DEF Script, ScriptFlags
<1>5. ASSUME NEW m \in Modules, SafeDisable(m) PROVE OffKept'
  BY <1>5, StoreAssumption DEF SafeDisable
<1>6. ASSUME NEW m \in Modules, Wipe(m) PROVE OffKept'
  BY <1>6, StoreAssumption DEF Wipe, RemoveOne, ForgetOff
<1>7. CASE Clean
  BY <1>7, StoreAssumption DEF Clean, RemoveOne
<1>8. CASE Rename
  BY <1>8, StoreAssumption DEF Rename
<1>9. CASE Flag
  BY <1>9, StoreAssumption DEF Flag
<1>10. CASE UpgradeDone
  BY <1>10, StoreAssumption DEF UpgradeDone, Collect
<1>11. CASE Purge
  BY <1>11, StoreAssumption DEF Purge, RemoveOne, ForgetOff, Purging
<1>12. CASE CollectDone
  BY <1>12, StoreAssumption DEF CollectDone, Collecting, AfterCollect
<1>13. CASE ScriptsDone
  BY <1>13, StoreAssumption DEF ScriptsDone, Collect
<1>14. CASE SafeEnds
  BY <1>14, StoreAssumption DEF SafeEnds
<1>15. CASE WipeEnds
  BY <1>15, StoreAssumption DEF WipeEnds
<1>16. CASE UpgradeFails
  BY <1>16, StoreAssumption DEF UpgradeFails, Collect, Upgrading
<1>17. CASE CollectFails
  BY <1>17, StoreAssumption DEF CollectFails, Collecting, Purging, AfterCollect
<1>18. CASE Boot
  BY <1>18, StoreAssumption DEF Boot
<1>19. CASE BootSafe
  BY <1>19, StoreAssumption DEF BootSafe
<1>20. CASE Crash
  BY <1>20, StoreAssumption DEF Crash, PowerOff
<1>21. CASE Reboot
  BY <1>21, StoreAssumption DEF Reboot, PowerOff
<1>22. CASE RemoveModules
  BY <1>22, StoreAssumption DEF RemoveModules, Asks
<1>23. ASSUME NEW m \in Modules, Install(m) PROVE OffKept'
  BY <1>23, StoreAssumption DEF Install, Asks, Payload
<1>24. ASSUME NEW m \in Modules, Disable(m) PROVE OffKept'
  BY <1>24, StoreAssumption DEF Disable, Asks
<1>25. ASSUME NEW m \in Modules, Enable(m) PROVE OffKept'
  BY <1>25, StoreAssumption DEF Enable, Asks
<1>26. ASSUME NEW m \in Modules, Remove(m) PROVE OffKept'
  BY <1>26, StoreAssumption DEF Remove, Asks
<1>27. CASE UNCHANGED vars
  BY <1>27
<1> QED
  BY <1>1, <1>2, <1>3, <1>4, <1>5, <1>6, <1>7, <1>8, <1>9, <1>10, <1>11,
    <1>12, <1>13, <1>14, <1>15, <1>16, <1>17, <1>18, <1>19, <1>20, <1>21,
    <1>22, <1>23, <1>24, <1>25, <1>26, <1>27 DEF Next, Daemon

\* handle_modules: for any modules, boots and faults, none that turned itself off
\* is mounted, and without faults none that the user or safe mode turned off.
THEOREM DisabledNotMounted == Spec => DisabledStays
<1> DEFINE Inv == IInv /\ SelfOff /\ OffKept
<1>1. Init => Inv
  BY InitIInv DEF Init, SelfOff, OffKept
<1>2. Inv /\ [Next]_vars => Inv'
  BY TypeStep, WhereStep, KeptStep, VersionStep, SelfOffStep, OffStep DEF IInv
<1>3. ASSUME Inv, [Next]_vars
      PROVE  [Mounts => /\ module_list' \cap selfoff = {}
                        /\ faults = 0 => module_list' \cap off = {}]_vars
  <2> SUFFICES ASSUME Mounts, Next
               PROVE  /\ module_list' \cap selfoff = {}
                      /\ faults = 0 => module_list' \cap off = {}
    BY <1>3
  <2>1. pc \in {"recollect", "repurge"} /\ module_list' = list
    BY DEF Mounts, Next, Daemon, UpgradeNext, CollectRemove, CollectKeep, Script, SafeDisable,
           Wipe, Clean, Rename, Flag, UpgradeDone, Purge, CollectDone, ScriptsDone, SafeEnds,
           WipeEnds, UpgradeFails, CollectFails, Boot, BootSafe, Crash, Reboot, PowerOff,
           RemoveModules, Install, Disable, Enable, Remove, Collecting, Purging, AfterCollect
  <2> QED
    BY <1>3, <2>1 DEF SelfOff, OffKept
<1> QED
  BY <1>1, <1>2, <1>3, PTL DEF Spec, DisabledStays
=============================================================================

-------------------------- MODULE BootStagesProofs --------------------------
(* Proofs about the boot stages, for any modules, bridge and bounds. *)
EXTENDS BootStages, SequenceTheorems, TLAPS

\* Before CountBoot has let a boot through, the counter covers the boots that
\* did not complete; between CountBoot and RunScripts also the present one.
Capped == IF bootloop <= 2 THEN bootloop ELSE 2
LoopInv ==
  /\ unfinished <= Capped + 2 * faults
  /\ step = "scripts" => unfinished + 1 <= Capped + 2 * faults

\* A daemon that has not finished post-fs-data has loaded nothing.
StageInv ==
  /\ step \in PostFsData => state = {}
  /\ "PostFsDataDone" \notin state => state = {} /\ module_list = Unset
  /\ zygisk_enabled => step = "modules" \/ "PostFsDataDone" \in state
  /\ step \in {"lateStart", "resetCount", "resetZygisk"} => "PostFsDataDone" \in state

\* post-fs-data is asked for once in a boot, so it runs before any script has.
OnceInv ==
  /\ "POST_FS_DATA" \in waiting => "POST_FS_DATA" \in requested /\ step \notin PostFsData
  /\ step \in PostFsData => "POST_FS_DATA" \in requested
  /\ \/ "POST_FS_DATA" \notin requested
     \/ "POST_FS_DATA" \in waiting
     \/ step \in PostFsData \ {"modules"}
     => ran = {} /\ "PostFsDataDone" \notin state
  /\ "SafeMode" \in state => ran = {} /\ step # "lateStart"
  /\ "service" \in ran \/ step = "lateStart" => "post-fs-data" \in ran
  /\ step \in {"modules"} => "post-fs-data" \in ran
  /\ "PostFsDataDone" \in state /\ "SafeMode" \notin state => "post-fs-data" \in ran

\* What safe mode has disabled, and the boot that follows.
CleanInv == clean => disabled = Modules /\ ~zygisk_config

\* The loader is in the property only with its name in ZygiskState, or after
\* the daemon that put it there has gone, and then no other daemon adds it.
BridgeInv ==
  /\ ~HasLoader(nbprop) => lib_name = <<>>
  /\ HasLoader(nbprop) =>
       \/ nbprop = lib_name
       \/ /\ lib_name = <<>> /\ stops > 0 /\ ~zygisk_enabled
          /\ "POST_FS_DATA" \notin waiting /\ step \notin PostFsData
  /\ HasLoader(nbprop) => "POST_FS_DATA" \in requested /\ "POST_FS_DATA" \notin waiting
                          /\ step \notin PostFsData \ {"modules"}

SafeInv == "SafeMode" \in state => module_list = Unset /\ ~zygisk_enabled

IInv ==
  /\ TypeOK /\ LoopInv /\ StageInv /\ OnceInv /\ CleanInv /\ BridgeInv
  /\ SafeInv /\ SafeModeSticks
-----------------------------------------------------------------------------
USE FlagsAssumption, BoundsAssumption
USE DEF vars, storage, device, daemon, history, bridge, zygisk

\* The stored counter keeps counting the boots that did not complete.
LEMMA LoopStep == ASSUME IInv, [Next]_vars PROVE LoopInv'
<1> USE DEF LoopInv, Capped, Failing
<1>1. unfinished \in Nat /\ bootloop \in Nat /\ faults \in Nat /\ MaxFaults \in Nat
  BY DEF IInv, TypeOK
<1>2. CASE UNCHANGED <<unfinished, bootloop, faults>> /\ step' # "scripts"
  BY <1>1, <1>2 DEF IInv
<1>3. CASE CountBoot
  BY <1>1, <1>3 DEF CountBoot, IInv
<1>4. CASE RunScripts
  BY <1>1, <1>4 DEF RunScripts, IInv
<1>5. CASE ResetCount
  BY <1>1, <1>5 DEF ResetCount, IInv
<1>6. CASE UNCHANGED <<unfinished, bootloop, step>> /\ faults' = faults
  BY <1>1, <1>6 DEF IInv
<1>7. CASE DisableModules
  BY <1>1, <1>7 DEF DisableModules, IInv
<1>8. CASE DisableZygisk
  BY <1>1, <1>8 DEF DisableZygisk, ReturnPostFsData, IInv
<1> QED
  BY <1>2, <1>3, <1>4, <1>5, <1>6, <1>7, <1>8
  DEF Next, Request, PostFsDataEarly, EnterPostFsData, EnterLateStart, EnterBootComplete,
      AbortPostFsData, HandleModules, LateStart, ResetZygisk, ZygoteRestart, StopDaemon,
      DaemonDies, UserEnables, Reboot, NewDaemon, ReturnPostFsData

\* A daemon that has not finished post_fs_data has loaded nothing, whatever comes next.
LEMMA StageStep == ASSUME IInv, [Next]_vars PROVE StageInv'
<1> USE DEF StageInv, PostFsData
<1>0. TypeOK /\ StageInv
  BY DEF IInv
<1>1. CASE \E s \in Stages : Request(s)
  BY <1>0, <1>1 DEF Request
<1>2. CASE PostFsDataEarly
  BY <1>0, <1>2 DEF PostFsDataEarly, Acquire
<1>3. CASE EnterPostFsData
  BY <1>0, <1>3 DEF EnterPostFsData, Acquire
<1>4. CASE EnterLateStart
  BY <1>0, <1>4 DEF EnterLateStart, Acquire
<1>5. CASE EnterBootComplete
  BY <1>0, <1>5 DEF EnterBootComplete, Acquire
<1>6. CASE AbortPostFsData
  BY <1>0, <1>6 DEF AbortPostFsData, ReturnPostFsData
<1>7. CASE CountBoot
  BY <1>0, <1>7 DEF CountBoot
<1>8. CASE DisableModules
  BY <1>0, <1>8 DEF DisableModules
<1>9. CASE DisableZygisk
  BY <1>0, <1>9 DEF DisableZygisk, ReturnPostFsData
<1>10. CASE RunScripts
  BY <1>0, <1>10 DEF RunScripts
<1>11. CASE HandleModules
  BY <1>0, <1>11 DEF HandleModules, ReturnPostFsData
<1>12. CASE LateStart
  BY <1>0, <1>12 DEF LateStart
<1>13. CASE ResetCount
  BY <1>0, <1>13 DEF ResetCount
<1>14. CASE ResetZygisk
  BY <1>0, <1>14 DEF ResetZygisk
<1>15. CASE ZygoteRestart
  BY <1>0, <1>15 DEF ZygoteRestart
<1>16. CASE StopDaemon
  BY <1>0, <1>16 DEF StopDaemon, NewDaemon
<1>17. CASE DaemonDies
  BY <1>0, <1>17 DEF DaemonDies, NewDaemon
<1>18. CASE UserEnables
  BY <1>0, <1>18 DEF UserEnables
<1>19. CASE Reboot
  BY <1>0, <1>19 DEF Reboot, NewDaemon
<1>20. CASE UNCHANGED vars
  BY <1>0, <1>20
<1> QED
  BY <1>1, <1>2, <1>3, <1>4, <1>5, <1>6, <1>7, <1>8, <1>9, <1>10, <1>11, <1>12, <1>13, <1>14, <1>15, <1>16, <1>17, <1>18, <1>19, <1>20 DEF Next

\* post_fs_data runs once in a boot, and before any script has run.
LEMMA OnceStep == ASSUME IInv, [Next]_vars PROVE OnceInv'
<1> USE DEF OnceInv, StageInv, PostFsData
<1>0. TypeOK /\ OnceInv /\ StageInv
  BY DEF IInv
<1>1. CASE \E s \in Stages : Request(s)
  BY <1>0, <1>1 DEF Request
<1>2. CASE PostFsDataEarly
  BY <1>0, <1>2 DEF PostFsDataEarly, Acquire
<1>3. CASE EnterPostFsData
  BY <1>0, <1>3 DEF EnterPostFsData, Acquire
<1>4. CASE EnterLateStart
  BY <1>0, <1>4 DEF EnterLateStart, Acquire
<1>5. CASE EnterBootComplete
  BY <1>0, <1>5 DEF EnterBootComplete, Acquire
<1>6. CASE AbortPostFsData
  BY <1>0, <1>6 DEF AbortPostFsData, ReturnPostFsData
<1>7. CASE CountBoot
  BY <1>0, <1>7 DEF CountBoot
<1>8. CASE DisableModules
  BY <1>0, <1>8 DEF DisableModules
<1>9. CASE DisableZygisk
  BY <1>0, <1>9 DEF DisableZygisk, ReturnPostFsData
<1>10. CASE RunScripts
  BY <1>0, <1>10 DEF RunScripts
<1>11. CASE HandleModules
  BY <1>0, <1>11 DEF HandleModules, ReturnPostFsData
<1>12. CASE LateStart
  BY <1>0, <1>12 DEF LateStart
<1>13. CASE ResetCount
  BY <1>0, <1>13 DEF ResetCount
<1>14. CASE ResetZygisk
  BY <1>0, <1>14 DEF ResetZygisk
<1>15. CASE ZygoteRestart
  BY <1>0, <1>15 DEF ZygoteRestart
<1>16. CASE StopDaemon
  BY <1>0, <1>16 DEF StopDaemon, NewDaemon
<1>17. CASE DaemonDies
  BY <1>0, <1>17 DEF DaemonDies, NewDaemon
<1>18. CASE UserEnables
  BY <1>0, <1>18 DEF UserEnables
<1>19. CASE Reboot
  BY <1>0, <1>19 DEF Reboot, NewDaemon
<1>20. CASE UNCHANGED vars
  BY <1>0, <1>20
<1> QED
  BY <1>1, <1>2, <1>3, <1>4, <1>5, <1>6, <1>7, <1>8, <1>9, <1>10, <1>11, <1>12, <1>13, <1>14, <1>15, <1>16, <1>17, <1>18, <1>19, <1>20 DEF Next

\* What post_fs_data disabled in safe mode stays off, and safe mode loads nothing.
LEMMA CleanStep == ASSUME IInv, [Next]_vars PROVE (CleanInv /\ SafeInv /\ SafeModeSticks)'
<1> USE DEF CleanInv, SafeInv, SafeModeSticks, StageInv, PostFsData, TypeOK
<1>0. TypeOK /\ CleanInv /\ SafeInv /\ SafeModeSticks /\ StageInv
  BY DEF IInv
<1>1. CASE \E s \in Stages : Request(s)
  BY <1>0, <1>1 DEF Request
<1>2. CASE PostFsDataEarly
  BY <1>0, <1>2 DEF PostFsDataEarly, Acquire
<1>3. CASE EnterPostFsData
  BY <1>0, <1>3 DEF EnterPostFsData, Acquire
<1>4. CASE EnterLateStart
  BY <1>0, <1>4 DEF EnterLateStart, Acquire
<1>5. CASE EnterBootComplete
  BY <1>0, <1>5 DEF EnterBootComplete, Acquire
<1>6. CASE AbortPostFsData
  BY <1>0, <1>6 DEF AbortPostFsData, ReturnPostFsData
<1>7. CASE CountBoot
  BY <1>0, <1>7 DEF CountBoot
<1>8. CASE DisableModules
  BY <1>0, <1>8 DEF DisableModules
<1>9. CASE DisableZygisk
  BY <1>0, <1>9 DEF DisableZygisk, ReturnPostFsData
<1>10. CASE RunScripts
  BY <1>0, <1>10 DEF RunScripts, Failing
<1>11. CASE HandleModules
  BY <1>0, <1>11 DEF HandleModules, ReturnPostFsData
<1>12. CASE LateStart
  BY <1>0, <1>12 DEF LateStart
<1>13. CASE ResetCount
  BY <1>0, <1>13 DEF ResetCount, Failing
<1>14. CASE ResetZygisk
  BY <1>0, <1>14 DEF ResetZygisk
<1>15. CASE ZygoteRestart
  BY <1>0, <1>15 DEF ZygoteRestart
<1>16. CASE StopDaemon
  BY <1>0, <1>16 DEF StopDaemon, NewDaemon
<1>17. CASE DaemonDies
  BY <1>0, <1>17 DEF DaemonDies, NewDaemon
<1>18. CASE UserEnables
  BY <1>0, <1>18 DEF UserEnables
<1>19. CASE Reboot
  BY <1>0, <1>19 DEF Reboot, NewDaemon
<1>20. CASE UNCHANGED vars
  BY <1>0, <1>20
<1> QED
  BY <1>1, <1>2, <1>3, <1>4, <1>5, <1>6, <1>7, <1>8, <1>9, <1>10, <1>11, <1>12, <1>13, <1>14, <1>15, <1>16, <1>17, <1>18, <1>19, <1>20 DEF Next
-----------------------------------------------------------------------------
\* The values the property and lib_name can have, and which start with the loader.
LEMMA LoaderValues ==
  /\ \A v \in Values : HasLoader(v) <=> v \in {<<ZYGISKLDR>>, <<ZYGISKLDR, BridgeLib>>}
  /\ OrigBridge \in Values /\ ~HasLoader(OrigBridge)
<1>1. \A a, b : Head(<<a>>) = a /\ Head(<<a, b>>) = a /\ <<a>> # <<>> /\ <<a, b>> # <<>>
  OBVIOUS
<1>2. <<ZYGISKLDR>> # <<NoBridge>> /\ <<ZYGISKLDR>> # <<BridgeLib>>
  BY LibsAssumption
<1>3. <<ZYGISKLDR, BridgeLib>> # <<NoBridge>> /\ <<ZYGISKLDR, BridgeLib>> # <<BridgeLib>>
  BY LibsAssumption
<1> QED
  BY <1>1, <1>2, <1>3, LibsAssumption, BridgeAssumption DEF Values, HasLoader

\* set_prop puts the loader in front of a value without it, and remembers the result.
LEMMA SetPropStep ==
  ASSUME BridgeInv, lib_name \in Values, nbprop \in Values, SetProp,
         lib_name = <<>> => ~HasLoader(nbprop)
  PROVE  nbprop' \in Values /\ HasLoader(nbprop') /\ lib_name' = nbprop'
<1>1. CASE lib_name # <<>>
  BY <1>1 DEF SetProp, BridgeInv
<1>2. CASE lib_name = <<>>
  <2>1. nbprop \in {<<>>, <<NoBridge>>, <<BridgeLib>>}
    BY <1>2, LoaderValues DEF Values
  <2>2. <<ZYGISKLDR>> \o <<BridgeLib>> = <<ZYGISKLDR, BridgeLib>>
    <3> DEFINE s == <<ZYGISKLDR>> \o <<BridgeLib>>
               t == <<ZYGISKLDR, BridgeLib>>
               S == {ZYGISKLDR, BridgeLib}
    <3>1. s \in Seq(S) /\ t \in Seq(S) /\ Len(s) = 2 /\ Len(t) = 2
      OBVIOUS
    <3>2. s[1] = t[1] /\ s[2] = t[2]
      OBVIOUS
    <3>3. \A i \in 1 .. Len(s) : s[i] = t[i]
      BY <3>1, <3>2
    <3> HIDE DEF s, t
    <3>4. s = t
      BY <3>1, <3>3, SeqEqual
    <3> QED
      BY <3>4 DEF s, t
  <2>3. nbprop' \in {<<ZYGISKLDR>>, <<ZYGISKLDR, BridgeLib>>} /\ lib_name' = nbprop'
    BY <1>2, <2>1, <2>2 DEF SetProp
  <2> QED
    BY <2>3, LoaderValues DEF Values
<1> QED
  BY <1>1, <1>2

\* restore_prop takes the loader away again.
LEMMA RestorePropStep ==
  ASSUME lib_name \in Values, BridgeInv,
         nbprop' = IF Len(lib_name) > 1 THEN Tail(lib_name) ELSE <<NoBridge>>
  PROVE  nbprop' \in Values /\ ~HasLoader(nbprop')
<1>1. Len(<<>>) = 0 /\ \A a, b : Len(<<a>>) = 1 /\ Len(<<a, b>>) = 2 /\ Tail(<<a, b>>) = <<b>>
  OBVIOUS
<1>2. nbprop' \in {<<NoBridge>>, <<BridgeLib>>}
  <2>1. CASE lib_name = <<ZYGISKLDR, BridgeLib>>
    BY <1>1, <2>1
  <2>2. CASE lib_name = <<>>
    BY <1>1, <2>2
  <2>3. CASE \E lib : lib_name = <<lib>>
    BY <1>1, <2>3
  <2> QED
    BY <2>1, <2>2, <2>3 DEF Values
<1>3. ~HasLoader(<<NoBridge>>) /\ ~HasLoader(<<BridgeLib>>)
  BY LibsAssumption DEF HasLoader
<1> QED
  BY <1>2, <1>3 DEF Values

\* Actions that write the property go through set_prop or restore_prop.
LEMMA BridgeStep == ASSUME IInv, [Next]_vars PROVE BridgeInv' /\ lib_name' \in Values /\ nbprop' \in Values
<1> USE DEF BridgeInv, PostFsData, StageInv, OnceInv
<1>0. TypeOK /\ BridgeInv /\ StageInv /\ OnceInv
  BY DEF IInv
<1>t. lib_name \in Values /\ nbprop \in Values /\ <<>> \in Values /\ ~HasLoader(<<>>)
  BY <1>0 DEF TypeOK, Values, HasLoader
<1>c. CASE UNCHANGED <<nbprop, lib_name>>
  <2>1. CASE \E s \in Stages : Request(s)
    <3>1. PICK s \in Stages : Request(s)
      BY <2>1
    <3>2. s = "POST_FS_DATA" => s \notin requested
      BY <3>1 DEF Request
    <3>3. UNCHANGED <<step, zygisk_enabled, stops>> /\ requested' = requested \cup {s}
          /\ waiting' = waiting \cup {s}
      BY <3>1 DEF Request
    <3> QED
      BY <1>0, <1>t, <1>c, <3>2, <3>3
  <2>2. CASE PostFsDataEarly \/ EnterPostFsData \/ EnterLateStart \/ EnterBootComplete
    BY <1>0, <1>t, <1>c, <2>2 DEF PostFsDataEarly, EnterPostFsData, EnterLateStart,
       EnterBootComplete, Acquire
  <2>3. CASE AbortPostFsData \/ CountBoot \/ DisableModules \/ DisableZygisk
    BY <1>0, <1>t, <1>c, <2>3 DEF AbortPostFsData, CountBoot, DisableModules,
       DisableZygisk, ReturnPostFsData
  <2>4. CASE LateStart \/ ResetCount \/ ResetZygisk
    BY <1>0, <1>t, <1>c, <2>4 DEF LateStart, ResetCount, ResetZygisk
  <2>7. CASE RunScripts
    BY <1>0, <1>t, <1>c, <2>7 DEF RunScripts
  <2>8. CASE HandleModules
    BY <1>0, <1>t, <1>c, <2>8 DEF HandleModules, ReturnPostFsData
  <2>5. CASE ZygoteRestart \/ UserEnables \/ UNCHANGED vars
    BY <1>0, <1>t, <1>c, <2>5 DEF ZygoteRestart, UserEnables
  <2>6. CASE StopDaemon \/ DaemonDies \/ Reboot
    BY <1>0, <1>t, <1>c, <2>6, LoaderValues DEF StopDaemon, DaemonDies, Reboot, NewDaemon, TypeOK
  <2> QED
    BY <2>1, <2>2, <2>3, <2>4, <2>5, <2>6, <2>7, <2>8 DEF Next
<1>1. CASE HandleModules /\ SetProp
  BY <1>0, <1>t, <1>1, SetPropStep DEF HandleModules, ReturnPostFsData
<1>2. CASE ResetZygisk /\ RestoreProp
  BY <1>0, <1>t, <1>2, RestorePropStep DEF ResetZygisk, RestoreProp
<1>3. CASE ZygoteRestart /\ zygisk_enabled /\ SetProp
  BY <1>0, <1>t, <1>3, SetPropStep DEF ZygoteRestart, PostFsDataReturned
<1>4. CASE ZygoteRestart /\ RestoreProp
  BY <1>0, <1>t, <1>4, RestorePropStep DEF ZygoteRestart, RestoreProp
<1>5. CASE StopDaemon
  BY <1>0, <1>t, <1>5, RestorePropStep DEF StopDaemon, NewDaemon, RestoreProp
<1>6. CASE DaemonDies
  BY <1>0, <1>t, <1>6 DEF DaemonDies, NewDaemon, TypeOK
<1>7. CASE Reboot
  BY <1>0, <1>t, <1>7, LoaderValues DEF Reboot, NewDaemon
<1>8. CASE UNCHANGED vars
  BY <1>8, <1>c
<1> QED
  BY <1>c, <1>1, <1>2, <1>3, <1>4, <1>5, <1>6, <1>7, <1>8
  DEF Next, Request, PostFsDataEarly, EnterPostFsData, EnterLateStart, EnterBootComplete,
      AbortPostFsData, CountBoot, DisableModules, DisableZygisk, RunScripts, HandleModules,
      LateStart, ResetCount, ResetZygisk, ZygoteRestart, UserEnables,
      ResetAfterBoot, ResetAfterCrash

\* The state of a daemon that has just started.
LEMMA NewDaemonType ==
  ASSUME NewDaemon
  PROVE  /\ waiting' \subseteq Stages /\ step' \in Steps /\ state' \subseteq Flags
         /\ zygisk_enabled' \in BOOLEAN /\ module_list' = Unset /\ start_count' \in Nat
  BY DEF NewDaemon, Stages, Steps, Flags

\* Every action keeps the types.
LEMMA TypeStep == ASSUME IInv, [Next]_vars PROVE TypeOK'
<1> USE DEF TypeOK, Stages, Flags, Steps
<1>0. TypeOK /\ lib_name' \in Values /\ nbprop' \in Values
  BY BridgeStep DEF IInv
<1>1. CASE \E s \in Stages : Request(s)
  BY <1>0, <1>1 DEF Request
<1>2. CASE PostFsDataEarly \/ EnterPostFsData \/ EnterLateStart \/ EnterBootComplete
  BY <1>0, <1>2 DEF PostFsDataEarly, EnterPostFsData, EnterLateStart, EnterBootComplete,
     Acquire
<1>3. CASE AbortPostFsData
  BY <1>0, <1>3 DEF AbortPostFsData, ReturnPostFsData
<1>4. CASE CountBoot
  BY <1>0, <1>4 DEF CountBoot, Failing
<1>5. CASE DisableModules
  BY <1>0, <1>5 DEF DisableModules, Failing
<1>6. CASE DisableZygisk
  BY <1>0, <1>6 DEF DisableZygisk, ReturnPostFsData, Failing
<1>7. CASE RunScripts
  BY <1>0, <1>7 DEF RunScripts, Failing
<1>8. CASE HandleModules
  BY <1>0, <1>8 DEF HandleModules, ReturnPostFsData
<1>9. CASE LateStart
  BY <1>0, <1>9 DEF LateStart
<1>10. CASE ResetCount
  BY <1>0, <1>10 DEF ResetCount, Failing
<1>11. CASE ResetZygisk
  BY <1>0, <1>11 DEF ResetZygisk, ResetAfterBoot
<1>12. CASE ZygoteRestart
  BY <1>0, <1>12 DEF ZygoteRestart, ResetAfterCrash
<1>13. CASE StopDaemon \/ DaemonDies \/ Reboot
  <2>1. NewDaemon
    BY <1>13 DEF StopDaemon, DaemonDies, Reboot
  <2>2. CASE StopDaemon \/ DaemonDies
    <3>1. stops' \in 0 .. MaxStops
      BY <1>0, <2>2 DEF StopDaemon, DaemonDies
    <3>2. UNCHANGED <<storage, device, unfinished, clean, ran, boots, faults>>
      BY <2>2 DEF StopDaemon, DaemonDies
    <3> QED
      BY <1>0, <2>1, <3>1, <3>2, NewDaemonType
  <2>3. CASE Reboot
    <3>1. requested' \subseteq Stages /\ ran' \subseteq {"post-fs-data", "service"}
      BY <2>3 DEF Reboot
    <3>2. restarts' \in 0 .. MaxRestarts /\ boots' \in Nat
      BY <1>0, <2>3 DEF Reboot
    <3> QED
      BY <1>0, <2>1, <2>3, <3>1, <3>2, NewDaemonType DEF Reboot
  <2> QED
    BY <1>13, <2>2, <2>3
<1>14. CASE UserEnables
  BY <1>0, <1>14 DEF UserEnables
<1>15. CASE UNCHANGED vars
  BY <1>0, <1>15
<1> QED
  BY <1>1, <1>2, <1>3, <1>4, <1>5, <1>6, <1>7, <1>8, <1>9, <1>10, <1>11, <1>12, <1>13,
     <1>14, <1>15 DEF Next

\* The first boot of a device.
LEMMA InitIInv == Init => IInv
<1> SUFFICES ASSUME Init PROVE IInv
  OBVIOUS
<1>v. <<>> \in Values
  BY DEF Values
<1>d. /\ waiting \subseteq Stages /\ step \in Steps /\ state \subseteq Flags
      /\ zygisk_enabled \in BOOLEAN /\ module_list = Unset
      /\ lib_name = <<>> /\ start_count \in Nat
  BY DEF Init, FreshDaemon, FreshState, Stages, Steps, Flags
<1>s. zygisk_config \in BOOLEAN /\ clean \in BOOLEAN
  BY DEF Init
<1>r. disabled \subseteq Modules /\ requested \subseteq Stages
      /\ ran \subseteq {"post-fs-data", "service"}
  BY DEF Init
<1>n. /\ bootloop \in Nat /\ unfinished \in Nat /\ boots \in Nat
      /\ restarts \in 0 .. MaxRestarts /\ faults \in 0 .. MaxFaults /\ stops \in 0 .. MaxStops
  BY DEF Init
<1>1. TypeOK
  BY <1>v, <1>d, <1>s, <1>r, <1>n, LoaderValues DEF Init, TypeOK
<1>2. LoopInv /\ StageInv /\ OnceInv /\ CleanInv /\ SafeInv /\ SafeModeSticks
  BY DEF Init, FreshDaemon, FreshState, LoopInv, Capped, StageInv, OnceInv, CleanInv, SafeInv,
     SafeModeSticks, PostFsData
<1>3. BridgeInv
  BY LoaderValues DEF Init, FreshDaemon, FreshState, BridgeInv
<1> QED
  BY <1>1, <1>2, <1>3 DEF IInv

\* Whatever the modules, the bridge and the bounds: the bootloop counter lets at
\* most two boots in a row load modules without completing (two more for each
\* storage operation that fails), what safe mode disables stays disabled, a boot
\* in safe mode runs nothing, and the loader is remembered and never stacked.
THEOREM BootSafe ==
  Spec => [](/\ BootloopBounded /\ SafeModeSticks /\ SafeModeRunsNothing
             /\ LoaderRemembered /\ NeverStacked)
<1>1. Init => IInv
  BY InitIInv
<1>2. IInv /\ [Next]_vars => IInv'
  BY LoopStep, StageStep, OnceStep, CleanStep, BridgeStep, TypeStep DEF IInv
<1>3. IInv => /\ BootloopBounded /\ SafeModeSticks /\ SafeModeRunsNothing
              /\ LoaderRemembered /\ NeverStacked
  <2> SUFFICES ASSUME IInv
               PROVE  /\ BootloopBounded /\ SafeModeSticks /\ SafeModeRunsNothing
                      /\ LoaderRemembered /\ NeverStacked
    OBVIOUS
  <2>1. BootloopBounded /\ SafeModeSticks /\ SafeModeRunsNothing
    BY DEF IInv, TypeOK, LoopInv, Capped, OnceInv, SafeInv, BootloopBounded, SafeModeRunsNothing
  <2>2. LoaderRemembered
    BY DEF IInv, TypeOK, BridgeInv, LoaderRemembered
  <2>3. NeverStacked
    <3>1. \A v \in Values : \A i \in 2 .. Len(v) : v[i] = BridgeLib
      BY DEF Values
    <3> QED
      BY <3>1, LibsAssumption DEF IInv, TypeOK, NeverStacked
  <2> QED
    BY <2>1, <2>2, <2>3
<1> QED
  BY <1>1, <1>2, <1>3, PTL DEF Spec
-----------------------------------------------------------------------------
\* Zygote has not restarted when post-fs-data sets the property.
RollInv ==
  /\ RollbackSticks
  /\ start_count > 1 => "PostFsDataDone" \in state

\* A zygote restart comes after post-fs-data, so set_prop cannot undo the rollback.
LEMMA RollStep == ASSUME ~Overrun, IInv, RollInv, [Next]_vars PROVE RollInv'
<1> USE DEF RollInv, RollbackSticks
<1>0. TypeOK /\ BridgeInv /\ StageInv /\ OnceInv /\ start_count \in Nat
  BY DEF IInv, TypeOK
<1>1. CASE UNCHANGED <<nbprop, start_count>> /\ state \subseteq state'
  BY <1>1
<1>2. CASE HandleModules
  <2>1. start_count' <= 3 /\ start_count' = start_count /\ "PostFsDataDone" \in state'
    BY <1>0, <1>2 DEF HandleModules, ReturnPostFsData, StageInv, PostFsData
  <2> QED
    BY <1>0, <2>1
<1>3. CASE ResetZygisk /\ ResetAfterBoot
  BY <1>3 DEF ResetAfterBoot
<1>4. CASE ZygoteRestart /\ zygisk_enabled
  <2>1. "PostFsDataDone" \in state /\ UNCHANGED state
    BY <1>0, <1>4 DEF ZygoteRestart, PostFsDataReturned, StageInv, PostFsData
  <2>2. CASE start_count' > 3
    <3>1. nbprop' = IF Len(lib_name) > 1 THEN Tail(lib_name) ELSE <<NoBridge>>
      BY <1>4, <2>2 DEF ZygoteRestart, ResetAfterCrash, RestoreProp
    <3> QED
      BY <1>0, <2>1, <3>1, RestorePropStep DEF TypeOK
  <2>3. CASE ~(start_count' > 3)
    BY <2>1, <2>3
  <2> QED
    BY <2>2, <2>3
<1>5. CASE StopDaemon \/ DaemonDies \/ Reboot
  <2>1. start_count' = 1
    BY <1>5 DEF StopDaemon, DaemonDies, Reboot, NewDaemon
  <2> QED
    BY <2>1
<1> QED
  BY <1>1, <1>2, <1>3, <1>4, <1>5
  DEF Next, Request, PostFsDataEarly, EnterPostFsData, EnterLateStart, EnterBootComplete,
      AbortPostFsData, CountBoot, DisableModules, DisableZygisk, RunScripts, ReturnPostFsData,
      LateStart, ResetCount, ResetZygisk, ZygoteRestart, UserEnables

\* When post-fs-data ends before its client stops waiting, and so before zygote
\* runs, a rollback of the native bridge lasts until the boot is complete.
THEOREM RollbackSafe == ASSUME ~Overrun PROVE Spec => []RollbackSticks
<1>1. Init => IInv /\ RollInv
  BY InitIInv DEF Init, FreshDaemon, FreshState, RollInv, RollbackSticks
<1>2. IInv /\ RollInv /\ [Next]_vars => IInv' /\ RollInv'
  BY RollStep, LoopStep, StageStep, OnceStep, CleanStep, BridgeStep, TypeStep DEF IInv
<1>3. RollInv => RollbackSticks
  BY DEF RollInv
<1> QED
  BY <1>1, <1>2, <1>3, PTL DEF Spec

\* set_prop: whatever restarts or is replaced, the loader is never put in front of
\* itself in the native bridge property.
THEOREM BridgeNeverStacked == Spec => []NeverStacked
BY BootSafe, PTL

\* post_fs_data: once a boot in safe mode has disabled everything, nothing is
\* loaded in a later one until the user enables it.
THEOREM SafeModeKept == Spec => []SafeModeSticks
BY BootSafe, PTL
=============================================================================

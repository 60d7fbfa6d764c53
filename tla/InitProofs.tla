------------------------------ MODULE InitProofs ------------------------------
(***************************************************************************)
(* Proofs about magiskinit with the hand-over of the policy (MagiskInit,   *)
(* SePatch), for any device, overlay and partitions, where the invariant   *)
(* says what each phase has left of the stock system; and about the choice *)
(* of that policy (SplitPolicy), for any number of updates.                *)
(***************************************************************************)
EXTENDS MagiskInit, SplitPolicy, SequenceTheorems, TLAPS

(* magiskinit *)

(* The hand-over of the policy, SePatch *)

\* Nothing of SePatch has happened.
SeFresh ==
  /\ strat = "none" /\ init_at = "none" /\ helper_at = "none"
  /\ mocked = {} /\ policy = 0 /\ sz = 0 /\ kernel = "none"

\* The policy is complete whenever the helper takes it.
Sound == Prompt \/ strat # "Legacy"

\* How far init can be, and what the mock file holds, for each step of a helper that
\* opens the FIFO of a node init comes to after it has written the policy ...
OpenInv ==
  /\ helper_at = "open" =>
       /\ strat \in {"LdPreload", "SelinuxFs"} /\ mocked = Nodes(strat) /\ kernel = "none"
       /\ init_at \in {"exec", "write", "reach", "blocked"}
       /\ init_at \in {"reach", "blocked"} => policy = Full
  /\ helper_at \in {"cleanup", "load"} /\ strat # "Legacy" =>
       init_at = "read" /\ policy = Full /\ kernel = "none"
  /\ helper_at = "answer" /\ strat # "Legacy" => init_at = "read"

\* ... and of the one that stops init twice: before the policy, and behind it.
LegacyInv ==
  /\ helper_at \in {"wait_fs", "open_version", "unmount", "poll"} => strat = "Legacy" /\ kernel = "none"
  /\ helper_at = "wait_fs" =>
       mocked = {"version"} /\ policy = 0 /\ sz = 0 /\ init_at \in {"exec", "reach", "blocked"}
  /\ helper_at = "open_version" =>
       mocked = {"version", "load", "reqprot"} /\ policy = 0 /\ sz = 0 /\ init_at \in {"reach", "blocked"}
  /\ helper_at \in {"unmount", "poll"} =>
       /\ {"load", "reqprot"} \subseteq mocked
       /\ init_at \in {"write", "reach", "blocked"}
       /\ init_at \in {"reach", "blocked"} => policy = Full
  /\ helper_at = "unmount" => sz = 0
  /\ helper_at \in {"cleanup", "load"} /\ strat = "Legacy" /\ Prompt =>
       init_at = "blocked" /\ policy = Full /\ kernel = "none"
  /\ helper_at = "answer" /\ strat = "Legacy" /\ Prompt => init_at = "blocked"

SeInv ==
  /\ policy \in 0 .. Full /\ sz \in 0 .. Full
  /\ helper_at \in {"none", "open", "cleanup", "load", "answer", "exit",
                    "wait_fs", "open_version", "unmount", "poll"}
  /\ helper_at = "none" => kernel \in {"none", "stock"}
  /\ helper_at # "none" => strat \in Strategies
  /\ OpenInv /\ LegacyInv
  /\ Sound /\ helper_at = "answer" => kernel = "patched"
  /\ Sound /\ helper_at = "exit" => kernel = "patched" /\ init_at = "done"

\* What init or the helper does keeps the invariant.
LEMMA SePreserved ==
  ASSUME SeInv, InitNext \/ HelperNext
  PROVE  SeInv'
<1> USE DEF SeInv, OpenInv, LegacyInv, Full, Sound, Strategies
<1>1. CASE InitStarts
  BY <1>1 DEF InitStarts, init_goes
<1>2. CASE InitOpens
  <2>1. /\ strat = "LdPreload" => Node = "ack" /\ Nodes(strat) = {"preload", "ack"}
        /\ strat = "SelinuxFs" => Node = "enforce" /\ Nodes(strat) = {"load", "enforce"}
    BY DEF Node, Nodes
  <2>2. strat = "Legacy" => Node = IF policy = 0 THEN "version" ELSE "reqprot"
    BY DEF Node
  <2>3. /\ init_at = "reach" /\ UNCHANGED <<strat, helper_at, mocked, policy, sz, kernel>>
        /\ Node \in mocked => init_at' = "blocked"
    BY <1>2 DEF InitOpens, init_goes
  <2>4. OpenInv'
    BY <2>1, <2>3
  <2>5. LegacyInv'
    <3>1. helper_at \in {"wait_fs", "open_version", "unmount", "poll"} => Node \in mocked
      <4>1. CASE helper_at \in {"wait_fs", "open_version"}
        BY <2>2, <4>1
      <4>2. CASE helper_at \in {"unmount", "poll"}
        BY <2>2, <2>3, <4>2
      <4> QED BY <4>1, <4>2
    <3> QED BY <2>3, <3>1
  <2> QED BY <2>3, <2>4, <2>5
<1>3. CASE security_load_policy
  <2>1. \/ /\ policy' = IF policy < Full THEN policy + 1 ELSE policy
           /\ init_at' = IF policy < Full THEN "write" ELSE "reach"
           /\ kernel' = kernel
        \/ /\ policy = 0 /\ {"preload", "load"} \intersect mocked = {}
           /\ kernel' = "stock" /\ init_at' = "done" /\ policy' = policy
    BY <1>3 DEF security_load_policy
  <2>2. init_at = "write" /\ UNCHANGED <<strat, helper_at, mocked, sz>>
    BY <1>3 DEF security_load_policy
  <2>3. helper_at \in {"open", "unmount", "poll"} => {"preload", "load"} \intersect mocked # {}
    <3>1. strat \in {"LdPreload", "SelinuxFs"} => {"preload", "load"} \intersect Nodes(strat) # {}
      BY DEF Nodes
    <3> QED BY <3>1
  <2>4. OpenInv'
    BY <2>1, <2>2, <2>3
  <2>5. LegacyInv'
    BY <2>1, <2>2, <2>3
  <2> QED BY <2>1, <2>2, <2>3, <2>4, <2>5
<1>4. CASE wait_fs
  BY <1>4 DEF wait_fs, helper_goes
<1>5. CASE open_version
  BY <1>5 DEF open_version, Meet, helper_goes
<1>6. CASE unmount_version
  BY <1>6 DEF unmount_version, helper_goes
<1>7. CASE poll
  BY <1>7 DEF poll
<1>8. CASE open
  BY <1>8 DEF open, Meet, helper_goes
<1>9. CASE cleanup
  BY <1>9 DEF cleanup, helper_goes
<1>10. CASE load
  BY <1>10 DEF load, helper_goes
<1>11. CASE answer
  BY <1>11 DEF answer, Meet, helper_goes
<1> QED BY <1>1, <1>2, <1>3, <1>4, <1>5, <1>6, <1>7, <1>8, <1>9, <1>10, <1>11
        DEF InitNext, HelperNext
-----------------------------------------------------------------------------
(* The ways to boot *)

\* The device will come back to magiskinit, in its second stage.
Returns == stage = "first" /\ (sdcard = "magiskinit" \/ init = "hexpatched")

\* magiskinit has not touched what init will see.
Untouched ==
  /\ root = StockRoot(dev) /\ (dev.sbin => SbinFiles \subseteq sbin)
  /\ DOMAIN holds = {"backup", "overlay"} /\ holds["backup"] \subseteq {"/", "/data"}
  /\ tmp.at = "none" /\ DOMAIN tmp = {"at", "rc", "files", "preinit"} /\ SeFresh

\* The handlers of the first stage.
FirstPhases == {"first_stage", "recovery_or_charger", "rootfs", "legacy_system_as_root",
                "find_block"}

\* What exec_init may be told to unmount.
Points == {"/proc", "/sys", "/data", "/dev"}

FirstInv ==
  phase \in FirstPhases \/ (phase = "start" /\ stage = "first") =>
    /\ stage = "first" /\ init = "magiskinit" /\ sdcard = "none" /\ Untouched
    /\ phase = "start" => mounts = {}
    /\ phase # "start" =>
         /\ mount_list \in Seq(Points) /\ {"/proc", "/sys"} \subseteq Range(mount_list)
         /\ mounts \subseteq {"/proc", "/sys", "/data"}
         /\ phase # "find_block" => mounts \subseteq {"/proc", "/sys"}
         /\ Abstains <=> phase = "recovery_or_charger"
    /\ phase \in {"start", "recovery_or_charger"} => holds["backup"] \subseteq {"/"}

SecondInv ==
  \/ phase = "platform" /\ Returns
  \/ phase = "start" /\ stage = "second"
  \/ phase = "second_stage"
  => /\ Untouched
     /\ mounts \subseteq {"/data", "/init", "/sdcard"}
     /\ phase # "platform" => stage = "second" /\ (dev.stays \/ "/" \notin holds["backup"])
     /\ phase = "second_stage" => mount_list = <<>>

\* What exec_init hands over.
Handed ==
  /\ init \in {"orig", "sysinit"}
  /\ holds["backup"] = {}
  /\ mounts \subseteq (IF Abstains THEN {} ELSE {"/sbin", "/debug_ramdisk", "/magisk"}) \union Vendor

\* The scripts of overlay.d that are injected.
NewScripts == {n \in dev.overlay \intersect RcNames :
                 n # "init.rc" /\ <<"", n>> \notin DOMAIN StockRoot(dev)}

\* The root directory that goes with it.
Patched ==
  /\ root[Rc(dev, "init.rc")] = [from |-> "stock", add |-> SetToBag(NewScripts \union {"magisk"})]
  /\ root[Rc(dev, "init.zygote.rc")].add = SetToBag({"zygote-restart"})
  /\ \A n \in NewScripts : <<"", n>> \notin DOMAIN root

Reachable ==
  /\ dev.sbin => SbinFiles \subseteq sbin
  /\ DOMAIN tmp = {"at", "rc", "files", "preinit"}
  /\ ~Abstains => IF tmp.rc = "/sbin" THEN "magisk" \in sbin
                  ELSE tmp.at = tmp.rc /\ "magisk" \in tmp.files
  /\ tmp.at = "/magisk/tmp" /\ ~Abstains =>
       /\ tmp.rc = "/sbin" /\ "magisk" \in tmp.files
       /\ dev.sbin => SbinFiles \subseteq mirror

LastInv ==
  phase = "running" \/ (phase = "platform" /\ ~Returns) =>
    /\ Handed /\ Reachable
    /\ Abstains => root = StockRoot(dev) /\ tmp.at = "none"
    /\ ~Abstains => Patched

DeviceInv == stage \in {"first", "second"} /\ SeInv /\ FirstInv /\ SecondInv /\ LastInv

\* What exec_init unmounts when one more point was put on the list.
LEMMA RangeAppend ==
  ASSUME NEW S, NEW s \in Seq(S), NEW x \in S
  PROVE  Append(s, x) \in Seq(S) /\ Range(Append(s, x)) = Range(s) \union {x}
<1>1. /\ Append(s, x) \in Seq(S) /\ Len(Append(s, x)) = Len(s) + 1
      /\ \A i \in 1 .. Len(s) : Append(s, x)[i] = s[i]
      /\ Append(s, x)[Len(s) + 1] = x
  BY AppendProperties
<1>2. DOMAIN Append(s, x) = 1 .. Len(s) + 1 /\ DOMAIN s = 1 .. Len(s) /\ Len(s) \in Nat
  BY <1>1
<1> QED BY <1>1, <1>2 DEF Range

\* Lines put into a script that has none yet: each of them once.
LEMMA EmptyPlus == \A S : EmptyBag (+) SetToBag(S) = SetToBag(S)
  BY DEF EmptyBag, SetToBag, (+)

\* What patch_rc_scripts does to scripts nobody has patched, put before other files:
\* init.rc gets the list and Magisk's triggers once each, zygote's script the report of
\* restarts.
Scripted(src, list, rest, zfrom) ==
  src[Rc(dev, "init.rc")] = Plain("stock") /\ src[Rc(dev, "init.zygote.rc")] = Plain(zfrom) =>
    LET over == Onto(patch_rc_scripts(src, list), rest) IN
    /\ DOMAIN over = {Rc(dev, "init.rc"), Rc(dev, "init.zygote.rc")} \union DOMAIN rest
    /\ over[Rc(dev, "init.rc")] = [from |-> "stock", add |-> SetToBag(list \union {"magisk"})]
    /\ over[Rc(dev, "init.zygote.rc")].add = SetToBag({"zygote-restart"})

\* patch_rc_scripts on scripts that nobody has patched.
LEMMA ScriptsPatched == \A src, list, rest, zfrom : Scripted(src, list, rest, zfrom)
<1> SUFFICES ASSUME NEW src, NEW list, NEW rest, NEW zfrom,
                    src[Rc(dev, "init.rc")] = Plain("stock"),
                    src[Rc(dev, "init.zygote.rc")] = Plain(zfrom)
             PROVE  LET over == Onto(patch_rc_scripts(src, list), rest) IN
                    /\ DOMAIN over = {Rc(dev, "init.rc"), Rc(dev, "init.zygote.rc")} \union DOMAIN rest
                    /\ over[Rc(dev, "init.rc")] =
                         [from |-> "stock", add |-> SetToBag(list \union {"magisk"})]
                    /\ over[Rc(dev, "init.zygote.rc")].add = SetToBag({"zygote-restart"})
  BY DEF Scripted
<1> DEFINE i == Rc(dev, "init.rc")
           z == Rc(dev, "init.zygote.rc")
           pi == [src[i] EXCEPT !.add = @ (+) SetToBag(list \union {"magisk"})]
           pz == [src[z] EXCEPT !.add = @ (+) SetToBag({"zygote-restart"})]
<1>1. patch_rc_scripts(src, list) = [p \in {i, z} |-> IF p = i THEN pi ELSE pz]
  BY DEF patch_rc_scripts
<1>2. i # z
  BY DEF Rc
<1>3. pi = [from |-> "stock", add |-> SetToBag(list \union {"magisk"})]
  <2>1. pi = [from |-> "stock", add |-> EmptyBag (+) SetToBag(list \union {"magisk"})]
    BY DEF Plain
  <2> QED BY <2>1, EmptyPlus
<1>4. pz.add = SetToBag({"zygote-restart"})
  <2>1. pz.add = EmptyBag (+) SetToBag({"zygote-restart"})
    BY DEF Plain
  <2> QED BY <2>1, EmptyPlus
<1> HIDE DEF i, z, pi, pz
<1> DEFINE s == patch_rc_scripts(src, list)
           over == Onto(s, rest)
<1>5. DOMAIN s = {i, z} /\ s[i] = pi /\ s[z] = pz
  BY <1>1, <1>2
<1> HIDE DEF s
<1>6. DOMAIN over = {i, z} \union DOMAIN rest /\ over[i] = s[i] /\ over[z] = s[z]
  BY <1>5 DEF Onto
<1> QED BY <1>3, <1>4, <1>5, <1>6 DEF i, z, s

\* The scripts of the stock root, which patch_rc_scripts reads.
LEMMA StockScripts ==
  /\ DOMAIN StockRoot(dev) = {Rc(dev, "init.rc"), Rc(dev, "init.zygote.rc")} \union ({""} \X Stock)
  /\ StockRoot(dev)[Rc(dev, "init.rc")] = Plain("stock")
  /\ StockRoot(dev)[Rc(dev, "init.zygote.rc")] = Plain("stock")
  BY DEF StockRoot

\* load_overlay_rc against the stock root: the scripts to inject, and the other files.
LEMMA OverlayLoaded ==
  LET l == load_overlay_rc(dev.overlay, StockRoot(dev)) IN
  /\ l.rc_list = NewScripts
  /\ DOMAIN l.files \subseteq {""} \X ((dev.overlay \ {"init.rc"}) \ NewScripts)
  /\ \A p \in DOMAIN l.files : l.files[p] = Plain("overlay")
  BY DEF load_overlay_rc, NewScripts

\* The root directory after patch_ro_root ...
LEMMA RoPatched ==
  ASSUME root = StockRoot(dev), dev' = dev,
         LET l == load_overlay_rc(dev.overlay, root) IN
         root' = mount_overlay(Onto(patch_rc_scripts(root, l.rc_list), l.files), root)
  PROVE  Patched'
<1> DEFINE i == Rc(dev, "init.rc")
           z == Rc(dev, "init.zygote.rc")
           l == load_overlay_rc(dev.overlay, root)
           over == Onto(patch_rc_scripts(root, l.rc_list), l.files)
<1>1. l.rc_list = NewScripts
  BY OverlayLoaded
<1>2. /\ root[i] = Plain("stock") /\ root[z] = Plain("stock") /\ {i, z} \subseteq DOMAIN root
  BY StockScripts
<1>3. /\ {i, z} \subseteq DOMAIN over
      /\ over[i] = [from |-> "stock", add |-> SetToBag(NewScripts \union {"magisk"})]
      /\ over[z].add = SetToBag({"zygote-restart"})
  <2>1. Scripted(root, l.rc_list, l.files, "stock")
    BY ScriptsPatched
  <2> HIDE DEF l
  <2> QED BY <1>1, <1>2, <2>1 DEF Scripted
<1>4. root' = mount_overlay(over, root)
  OBVIOUS
<1> HIDE DEF over, l, i, z
<1>5. /\ DOMAIN root' = DOMAIN root /\ root'[i] = over[i] /\ root'[z] = over[z]
  BY <1>2, <1>3, <1>4 DEF mount_overlay
<1>6. \A n \in NewScripts : <<"", n>> \notin DOMAIN root
  BY DEF NewScripts
<1>7. NewScripts' = NewScripts
  BY DEF NewScripts, StockRoot, Rc
<1>8. Rc(dev, "init.rc")' = i /\ Rc(dev, "init.zygote.rc")' = z
  BY DEF Rc, i, z
<1> QED BY <1>3, <1>5, <1>6, <1>7, <1>8 DEF Patched

\* ... and after patch_rw_root, whichever files its move_into came to.
LEMMA RwPatched ==
  ASSUME root = StockRoot(dev), dev' = dev,
         NEW before \in SUBSET DOMAIN load_overlay_rc(dev.overlay, root).files,
         LET l == load_overlay_rc(dev.overlay, root)
             moved == Onto([p \in before |-> l.files[p]], root) IN
         root' = Onto(patch_rc_scripts(moved, l.rc_list), moved)
  PROVE  Patched'
<1> DEFINE i == Rc(dev, "init.rc")
           z == Rc(dev, "init.zygote.rc")
           l == load_overlay_rc(dev.overlay, root)
           files == [p \in before |-> l.files[p]]
           moved == Onto(files, root)
<1>1. /\ l.rc_list = NewScripts
      /\ DOMAIN files \subseteq {""} \X ((dev.overlay \ {"init.rc"}) \ NewScripts)
      /\ \A p \in DOMAIN files : files[p] = Plain("overlay")
  <2>1. /\ l.rc_list = NewScripts
        /\ DOMAIN l.files \subseteq {""} \X ((dev.overlay \ {"init.rc"}) \ NewScripts)
        /\ \A p \in DOMAIN l.files : l.files[p] = Plain("overlay")
    BY OverlayLoaded
  <2>2. before \subseteq DOMAIN l.files
    OBVIOUS
  <2> HIDE DEF l
  <2> QED BY <2>1, <2>2
<1>2. /\ root[i] = Plain("stock") /\ root[z] = Plain("stock") /\ {i, z} \subseteq DOMAIN root
  BY StockScripts
<1>3. i \notin {""} \X ((dev.overlay \ {"init.rc"}) \ NewScripts)
  BY DEF Rc
<1>4. \A n \in NewScripts : <<"", n>> \notin DOMAIN root /\ <<"", n>> \notin DOMAIN files
  BY <1>1 DEF NewScripts
<1>5. root' = Onto(patch_rc_scripts(moved, l.rc_list), moved)
  OBVIOUS
<1> HIDE DEF l, files, i, z
<1>6. /\ DOMAIN moved = DOMAIN files \union DOMAIN root
      /\ moved[i] = Plain("stock") /\ moved[z] \in {Plain("stock"), Plain("overlay")}
  BY <1>1, <1>2, <1>3 DEF Onto
<1> HIDE DEF moved
<1>7. PICK zfrom : moved[z] = Plain(zfrom)
  BY <1>6
<1>8. /\ DOMAIN root' = {i, z} \union DOMAIN moved
      /\ root'[i] = [from |-> "stock", add |-> SetToBag(NewScripts \union {"magisk"})]
      /\ root'[z].add = SetToBag({"zygote-restart"})
  <2>1. Scripted(moved, l.rc_list, moved, zfrom)
    BY ScriptsPatched
  <2> QED BY <1>1, <1>5, <1>6, <1>7, <2>1 DEF Scripted, i, z
<1>9. DOMAIN root' = DOMAIN moved
  BY <1>2, <1>6, <1>8
<1>10. NewScripts' = NewScripts
  BY DEF NewScripts, StockRoot, Rc
<1>11. Rc(dev, "init.rc")' = i /\ Rc(dev, "init.zygote.rc")' = z
  BY DEF Rc, i, z
<1> QED BY <1>4, <1>6, <1>8, <1>9, <1>10, <1>11 DEF Patched

\* handle_sepolicy starts the hand-over, whichever strategy it takes.
LEMMA HandledSepolicy ==
  ASSUME SeFresh, NEW s, handle_sepolicy(s)
  PROVE  SeInv'
<1>1. /\ policy' = 0 /\ sz' = 0 /\ kernel' = "none" /\ init_at' = "exec" /\ strat' = s
  BY DEF handle_sepolicy, SeFresh
<1>2. \/ helper_at' = "none"
      \/ s = "Legacy" /\ helper_at' = "wait_fs" /\ mocked' = {"version"}
      \/ s \in {"LdPreload", "SelinuxFs"} /\ helper_at' = "open" /\ mocked' = Nodes(s)
  <2>1. /\ s = "Legacy" => Nodes(s) = {"version"}
    BY DEF Nodes
  <2>2. CASE helper_at' = "none"
    BY <2>2
  <2>3. CASE helper_at' # "none"
    <3>1. /\ mocked' = Nodes(s)
          /\ helper_at' = CASE s = "Legacy" -> "wait_fs" [] s \in Strategies \ {"Legacy"} -> "open"
                            [] OTHER -> "none"
      BY <2>3 DEF handle_sepolicy
    <3>2. CASE s = "Legacy"
      BY <2>1, <3>1, <3>2
    <3>3. CASE s # "Legacy" /\ s \in Strategies
      BY <3>1, <3>3 DEF Strategies
    <3>4. CASE s \notin Strategies
      BY <2>3, <3>1, <3>4 DEF Strategies
    <3> QED BY <3>2, <3>3, <3>4
  <2> QED BY <2>2, <2>3
<1> QED BY <1>1, <1>2 DEF SeInv, OpenInv, LegacyInv, Full, Sound, Strategies

-----------------------------------------------------------------------------
(* Each step keeps DeviceInv *)

\* A step of magiskinit that leaves SePatch alone.
LEMMA SeUnchanged ==
  ASSUME SeFresh, UNCHANGED sevars
  PROVE  SeFresh' /\ SeInv'
  BY DEF SeFresh, SeInv, OpenInv, LegacyInv, sevars, Full, Sound

\* magiskinit's main decides how to boot: nothing of the system is touched yet.
LEMMA Start ==
  ASSUME DeviceInv, start
  PROVE  DeviceInv'
<1>1. Untouched /\ Untouched' /\ SeInv'
  BY SeUnchanged DEF DeviceInv, FirstInv, SecondInv, start, Untouched
<1>2. CASE stage = "first"
  <2>1. /\ mount_list' = <<"/proc", "/sys">> /\ mounts' = mounts \union {"/proc", "/sys"}
        /\ mounts = {} /\ stage' = "first" /\ init' = "magiskinit" /\ sdcard' = "none"
        /\ holds' = holds /\ holds["backup"] \subseteq {"/"}
    BY <1>2 DEF start, DeviceInv, FirstInv
  <2>2. mount_list' \in Seq(Points) /\ Range(mount_list') = {"/proc", "/sys"}
    <3>1. <<"/proc", "/sys">> \in Seq(Points)
      BY DEF Points
    <3>2. DOMAIN <<"/proc", "/sys">> = {1, 2}
      OBVIOUS
    <3>3. Range(<<"/proc", "/sys">>) = {"/proc", "/sys"}
      BY <3>2 DEF Range
    <3> QED BY <2>1, <3>1, <3>3
  <2>3. /\ phase' \in FirstPhases /\ phase' # "find_block"
        /\ Abstains' <=> phase' = "recovery_or_charger"
    BY <1>2 DEF start, Abstains, FirstPhases
  <2> QED BY <1>1, <2>1, <2>2, <2>3 DEF DeviceInv, FirstInv, SecondInv, LastInv, FirstPhases
<1>3. CASE stage = "second"
  <2>1. /\ phase' = "second_stage" /\ stage' = "second" /\ mount_list' = <<>>
        /\ UNCHANGED <<mounts, holds, dev>>
        /\ mounts \subseteq {"/data", "/init", "/sdcard"}
        /\ dev.stays \/ "/" \notin holds["backup"]
    BY <1>3 DEF start, DeviceInv, SecondInv
  <2> QED BY <1>1, <2>1 DEF DeviceInv, FirstInv, SecondInv, LastInv, FirstPhases
<1> QED BY <1>2, <1>3 DEF DeviceInv

\* What prepare_data, switch_root and patch_ro_root do to the copies of the backup.
LEMMA Prepared ==
  ASSUME DOMAIN holds = {"backup", "overlay"}, holds["backup"] \subseteq {"/", "/data"}, prepare_data
  PROVE  /\ DOMAIN holds' = {"backup", "overlay"} /\ holds'["backup"] \subseteq {"/", "/data"}
  BY DEF prepare_data

\* switch_root leaves only the copies that are not on the old root.
LEMMA Switched ==
  ASSUME DOMAIN holds = {"backup", "overlay"}, holds["backup"] \subseteq {"/", "/data"}
  PROVE  /\ DOMAIN switch_root = {"backup", "overlay"} /\ switch_root["backup"] \subseteq {"/data"}
  BY DEF switch_root

\* first_stage leaves the root alone and makes init come back to magiskinit.
LEMMA FirstStage ==
  ASSUME DeviceInv, first_stage
  PROVE  DeviceInv'
<1> USE DEF FirstPhases
<1>1. /\ Untouched /\ stage = "first" /\ init = "magiskinit"
      /\ {"/proc", "/sys"} \subseteq Range(mount_list) /\ mounts \subseteq {"/proc", "/sys"}
  BY DEF DeviceInv, FirstInv, first_stage
<1>2. Untouched' /\ SeInv'
  BY <1>1, Prepared, SeUnchanged DEF first_stage, Untouched
<1>3. Returns'
  BY <1>1 DEF first_stage, Returns, restore_ramdisk_init, hijack_init_with_switch_root,
              hexpatch_init_for_second_stage
<1>4. stage' = "first" /\ phase' = "platform" /\ mounts' \subseteq {"/data", "/sdcard"}
  BY <1>1 DEF first_stage, exec_init
<1> QED BY <1>2, <1>3, <1>4 DEF DeviceInv, FirstInv, SecondInv, LastInv

\* Recovery and charger mode get the stock init and nothing of Magisk.
LEMMA RecoveryOrCharger ==
  ASSUME DeviceInv, recovery_or_charger
  PROVE  DeviceInv'
<1> USE DEF FirstPhases
<1>1. /\ Untouched /\ stage = "first" /\ sdcard = "none" /\ Abstains
      /\ {"/proc", "/sys"} \subseteq Range(mount_list) /\ mounts \subseteq {"/proc", "/sys"}
      /\ holds["backup"] \subseteq {"/"}
  BY DEF DeviceInv, FirstInv, recovery_or_charger
<1>2. SeInv'
  BY <1>1, SeUnchanged DEF recovery_or_charger, Untouched
<1>3. stage' = "first" /\ phase' = "platform" /\ mounts' = {} /\ init' \in {"orig", "sysinit"}
  BY <1>1 DEF recovery_or_charger, exec_init, restore_ramdisk_init
<1>4. ~Returns' /\ Abstains'
  BY <1>1, <1>3 DEF recovery_or_charger, Returns, Abstains
<1>5. holds'["backup"] = {}
  BY <1>1 DEF recovery_or_charger, Untouched
<1>6. Handed' /\ Reachable' /\ root' = StockRoot(dev') /\ tmp'.at = "none"
  BY <1>1, <1>3, <1>4, <1>5 DEF Handed, Reachable, Untouched, recovery_or_charger
<1> QED BY <1>2, <1>3, <1>4, <1>6 DEF DeviceInv, FirstInv, SecondInv, LastInv

\* legacy_system_as_root prepares /data and looks for the root partition.
LEMMA LegacySystemAsRoot ==
  ASSUME DeviceInv, legacy_system_as_root
  PROVE  DeviceInv'
<1> USE DEF FirstPhases
<1>1. /\ Untouched /\ stage = "first" /\ sdcard = "none" /\ init = "magiskinit" /\ ~Abstains
      /\ mount_list \in Seq(Points) /\ {"/proc", "/sys"} \subseteq Range(mount_list)
      /\ mounts \subseteq {"/proc", "/sys"}
  BY DEF DeviceInv, FirstInv, legacy_system_as_root
<1>2. UNCHANGED sevars
  BY DEF legacy_system_as_root, sevars
<1>3. Untouched' /\ SeInv'
  BY <1>1, <1>2, Prepared, SeUnchanged DEF legacy_system_as_root, Untouched
<1>4. /\ stage' = stage /\ sdcard' = sdcard /\ init' = init /\ mount_list' = mount_list
      /\ mounts' = mounts \union {"/data"} /\ phase' = "find_block" /\ (Abstains' <=> Abstains)
  BY DEF legacy_system_as_root, Abstains
<1> QED BY <1>1, <1>3, <1>4 DEF DeviceInv, FirstInv, SecondInv, LastInv

\* The steps of find_block that do not find the root partition.
LEMMA FindBlock ==
  ASSUME DeviceInv, find_block \/ RootCannotMount \/ BlockAppears
  PROVE  DeviceInv'
<1> USE DEF FirstPhases
<1>1. UNCHANGED sevars
  BY DEF find_block, RootCannotMount, BlockAppears, sevars
<1>2. /\ UNCHANGED <<dev, stage, config, mount_list, mounts, init, sdcard, holds, root, tmp, sbin>>
      /\ phase = "find_block" /\ phase' \in {"find_block", "abort"}
  BY DEF find_block, RootCannotMount, BlockAppears
<1>3. Untouched
  BY <1>2 DEF DeviceInv, FirstInv
<1>4. Untouched' /\ SeInv'
  BY <1>1, <1>2, <1>3, SeUnchanged DEF Untouched
<1>5. Abstains' <=> Abstains
  BY <1>2 DEF Abstains
<1>6. FirstInv'
  BY <1>2, <1>4, <1>5 DEF DeviceInv, FirstInv
<1> QED BY <1>2, <1>4, <1>6 DEF DeviceInv, SecondInv, LastInv

\* What is left behind by patch_rw_root ...
LEMMA RwRoot ==
  ASSUME Untouched, patch_rw_root, dev' = dev, mount_list \in Seq(Points)
  PROVE  /\ Patched' /\ SeInv' /\ Reachable' /\ holds'["backup"] = {}
         /\ Range(mount_list') = Range(mount_list) \union {"/data"}
<1>1. Patched'
  <2>1. root = StockRoot(dev)
    BY DEF Untouched
  <2>2. PICK before \in SUBSET DOMAIN load_overlay_rc(dev.overlay, root).files :
          LET l == load_overlay_rc(dev.overlay, root)
              moved == Onto([p \in before |-> l.files[p]], root) IN
          root' = Onto(patch_rc_scripts(moved, l.rc_list), moved)
    BY DEF patch_rw_root
  <2> QED BY <2>1, <2>2, RwPatched
<1>2. SeInv'
  BY HandledSepolicy DEF patch_rw_root, Untouched
<1>3. holds'["backup"] = {}
  BY DEF patch_rw_root, Untouched
<1>4. /\ tmp'.at = "/magisk/tmp" /\ tmp'.rc = "/sbin" /\ "magisk" \in tmp'.files
      /\ DOMAIN tmp' = {"at", "rc", "files", "preinit"}
      /\ mirror' = sbin /\ sbin' = sbin \union {"magisk"}
  BY DEF patch_rw_root, setup_tmp
<1>5. Reachable'
  BY <1>4 DEF Reachable, Untouched
<1>6. Range(mount_list') = Range(mount_list) \union {"/data"}
  <2>1. mount_list' = Append(mount_list, "/data")
    BY DEF patch_rw_root
  <2>2. "/data" \in Points
    BY DEF Points
  <2> QED BY <2>1, <2>2, RangeAppend
<1> QED BY <1>1, <1>2, <1>3, <1>5, <1>6

\* ... and by patch_ro_root.
LEMMA RoRoot ==
  ASSUME Untouched, NEW list \in Seq(Points), NEW held,
         DOMAIN held = {"backup", "overlay"}, held["backup"] \subseteq {"/data"},
         patch_ro_root(list, held), dev' = dev
  PROVE  /\ Patched' /\ SeInv' /\ Reachable' /\ holds'["backup"] = {}
         /\ tmp'.at \in {"/sbin", "/debug_ramdisk"}
         /\ Range(mount_list') = Range(list) \union {"/data"}
<1>1. Patched'
  BY RoPatched DEF patch_ro_root, Untouched
<1>2. SeInv'
  BY HandledSepolicy DEF patch_ro_root, Untouched
<1>3. holds'["backup"] = {}
  BY DEF patch_ro_root
<1>4. /\ tmp'.at = (IF dev.sbin THEN "/sbin" ELSE "/debug_ramdisk") /\ tmp'.rc = tmp'.at
      /\ "magisk" \in tmp'.files /\ DOMAIN tmp' = {"at", "rc", "files", "preinit"}
      /\ sbin' = IF dev.sbin THEN tmp'.files \union sbin ELSE sbin
  BY DEF patch_ro_root, setup_tmp, recreate_sbin
<1>5. Reachable'
  BY <1>4 DEF Reachable, Untouched
<1>6. Range(mount_list') = Range(list) \union {"/data"}
  <2>1. mount_list' = Append(list, "/data")
    BY DEF patch_ro_root
  <2>2. "/data" \in Points
    BY DEF Points
  <2> QED BY <2>1, <2>2, RangeAppend
<1> QED BY <1>1, <1>2, <1>3, <1>4, <1>5, <1>6

\* rootfs patches the ramdisk it runs from and hands over to its init.
LEMMA Rootfs ==
  ASSUME DeviceInv, rootfs
  PROVE  DeviceInv'
<1> USE DEF FirstPhases
<1>1. /\ Untouched /\ stage = "first" /\ sdcard = "none" /\ ~Abstains
      /\ mount_list \in Seq(Points) /\ {"/proc", "/sys"} \subseteq Range(mount_list)
      /\ mounts \subseteq {"/proc", "/sys"}
  BY DEF DeviceInv, FirstInv, rootfs
<1>2. /\ Patched' /\ SeInv' /\ Reachable' /\ holds'["backup"] = {}
      /\ Range(mount_list') = Range(mount_list) \union {"/data"}
  BY <1>1, RwRoot DEF rootfs
<1>3. /\ stage' = "first" /\ sdcard' = "none" /\ phase' = "platform" /\ init' \in {"orig", "sysinit"}
  BY <1>1 DEF rootfs, exec_init, restore_ramdisk_init
<1>4. mounts' \subseteq {"/magisk"}
  BY <1>1, <1>2 DEF rootfs, exec_init
<1>5. ~Returns' /\ ~Abstains'
  BY <1>1, <1>3 DEF rootfs, Returns, Abstains
<1>6. Handed'
  BY <1>2, <1>3, <1>4, <1>5 DEF Handed
<1> QED BY <1>2, <1>3, <1>5, <1>6 DEF DeviceInv, FirstInv, SecondInv, LastInv

\* second_stage patches the root, as a ramdisk or from outside.
LEMMA SecondStage ==
  ASSUME DeviceInv, second_stage
  PROVE  DeviceInv'
<1> USE DEF FirstPhases
<1>1. /\ Untouched /\ stage = "second" /\ mount_list = <<>>
      /\ mounts \subseteq {"/data", "/init", "/sdcard"} /\ (dev.stays \/ "/" \notin holds["backup"])
  BY DEF DeviceInv, SecondInv, second_stage
<1>2. mount_list \in Seq(Points)
  BY <1>1
<1>3. /\ stage' = "second" /\ phase' = "platform" /\ init' = "sysinit" /\ dev' = dev
  BY <1>1 DEF second_stage, exec_init
<1>4. ~Returns' /\ ~Abstains'
  BY <1>3 DEF Returns, Abstains
<1>5. /\ Patched' /\ SeInv' /\ Reachable' /\ holds'["backup"] = {}
      /\ mounts' \subseteq {"/magisk", "/sbin", "/debug_ramdisk"}
  <2>1. CASE dev.stays
    <3>1. /\ Patched' /\ SeInv' /\ Reachable' /\ holds'["backup"] = {}
          /\ "/data" \in Range(mount_list')
      BY <1>1, <1>2, <1>3, <2>1, RwRoot DEF second_stage
    <3>2. mounts' \subseteq {"/magisk"}
      BY <1>1, <2>1, <3>1 DEF second_stage, exec_init
    <3> QED BY <3>1, <3>2
  <2>2. CASE ~dev.stays
    <3>1. patch_ro_root(mount_list, holds)
      BY <2>2 DEF second_stage
    <3>2. DOMAIN holds = {"backup", "overlay"} /\ holds["backup"] \subseteq {"/data"}
      BY <1>1, <2>2 DEF Untouched
    <3>3. /\ Patched' /\ SeInv' /\ Reachable' /\ holds'["backup"] = {}
          /\ tmp'.at \in {"/sbin", "/debug_ramdisk"} /\ "/data" \in Range(mount_list')
      BY <1>1, <1>2, <1>3, <3>1, <3>2, RoRoot
    <3>4. mounts' \subseteq {"/sbin", "/debug_ramdisk"}
      BY <1>1, <2>2, <3>3 DEF second_stage, exec_init
    <3> QED BY <3>3, <3>4
  <2> QED BY <2>1, <2>2
<1>6. Handed'
  BY <1>3, <1>4, <1>5 DEF Handed
<1> QED BY <1>3, <1>4, <1>5, <1>6 DEF DeviceInv, FirstInv, SecondInv, LastInv

\* mount_system_root, with the root partition found: either the device has a second stage,
\* and init will come back, or the mounted root is patched at once.
LEMMA MountSystemRoot ==
  ASSUME DeviceInv, mount_system_root
  PROVE  DeviceInv'
<1> USE DEF FirstPhases
<1>1. /\ Untouched /\ stage = "first" /\ sdcard = "none" /\ ~Abstains
      /\ mount_list \in Seq(Points) /\ {"/proc", "/sys"} \subseteq Range(mount_list)
      /\ mounts \subseteq {"/proc", "/sys", "/data"}
  BY DEF DeviceInv, FirstInv, mount_system_root
<1> DEFINE list == Append(mount_list, "/dev")
           points == mounts \union {"/dev"} \union Vendor
<1>2. list \in Seq(Points) /\ Range(list) = Range(mount_list) \union {"/dev"}
  BY <1>1, RangeAppend DEF Points
<1>3. /\ stage' = "first" /\ sdcard' = "none" /\ phase' = "platform" /\ dev' = dev
      /\ config' = config
  BY <1>1 DEF mount_system_root, exec_init
<1>4. ~Abstains' /\ Vendor' = Vendor
  BY <1>1, <1>3 DEF Abstains, Vendor
<1>5. DOMAIN switch_root = {"backup", "overlay"} /\ switch_root["backup"] \subseteq {"/data"}
  BY <1>1, Switched DEF Untouched
<1>6. CASE dev.two_stage
  <2>1. /\ init' = "hexpatched" /\ holds' = switch_root /\ exec_init(list, points \union {"/init"})
        /\ UNCHANGED <<root, tmp, sbin, mirror, sevars>>
    BY <1>6 DEF mount_system_root, hexpatch_init_for_second_stage
  <2>2. UNCHANGED sevars
    BY <2>1 DEF sevars
  <2>3. Vendor = {}
    BY <1>6 DEF Vendor
  <2>4. mounts' \subseteq {"/data", "/init"}
    <3> HIDE DEF list
    <3> QED BY <1>1, <1>2, <2>1, <2>3 DEF exec_init
  <2>5. Untouched' /\ SeInv'
    BY <1>1, <1>3, <1>5, <2>1, <2>2, SeUnchanged DEF Untouched
  <2>6. Returns'
    BY <1>3, <2>1 DEF Returns
  <2> QED BY <1>3, <2>4, <2>5, <2>6 DEF DeviceInv, FirstInv, SecondInv, LastInv
<1>7. CASE ~dev.two_stage
  <2>1. /\ init' = "orig" /\ patch_ro_root(list, switch_root)
        /\ exec_init(mount_list', points \union {tmp'.at})
    BY <1>7 DEF mount_system_root
  <2> HIDE DEF list
  <2>2. /\ Patched' /\ SeInv' /\ Reachable' /\ holds'["backup"] = {}
        /\ tmp'.at \in {"/sbin", "/debug_ramdisk"}
        /\ Range(mount_list') = Range(list) \union {"/data"}
    BY <1>1, <1>2, <1>3, <1>5, <2>1, RoRoot
  <2>3. mounts' \subseteq {"/sbin", "/debug_ramdisk"} \union Vendor
    BY <1>1, <1>2, <2>1, <2>2 DEF exec_init
  <2>4. ~Returns'
    BY <1>3, <2>1 DEF Returns
  <2>5. Handed'
    BY <1>4, <2>1, <2>2, <2>3 DEF Handed
  <2> QED BY <1>3, <1>4, <2>2, <2>4, <2>5 DEF DeviceInv, FirstInv, SecondInv, LastInv
<1> QED BY <1>6, <1>7

\* What runs between magiskinit and the system: a first stage of init, or none.
LEMMA PlatformStep ==
  ASSUME DeviceInv, Platform
  PROVE  DeviceInv'
<1> USE DEF FirstPhases
<1>1. UNCHANGED sevars
  BY DEF Platform, sevars
<1>2. UNCHANGED <<dev, config, mounts, init, sdcard, root, tmp, sbin, mirror>> /\ phase = "platform"
  BY DEF Platform
<1>3. CASE Returns
  <2>1. /\ phase' = "start" /\ stage' = "second" /\ holds' = IF dev.stays THEN holds ELSE switch_root
    BY <1>3 DEF Platform, Returns
  <2>2. Untouched /\ mounts \subseteq {"/data", "/init", "/sdcard"}
    BY <1>2, <1>3 DEF DeviceInv, SecondInv
  <2>3. /\ DOMAIN holds' = {"backup", "overlay"} /\ holds'["backup"] \subseteq {"/", "/data"}
        /\ dev.stays \/ "/" \notin holds'["backup"]
    BY <2>1, <2>2, Switched DEF Untouched
  <2>4. Untouched' /\ SeInv'
    BY <1>1, <1>2, <2>2, <2>3, SeUnchanged DEF Untouched
  <2> QED BY <1>2, <2>1, <2>2, <2>3, <2>4 DEF DeviceInv, FirstInv, SecondInv, LastInv
<1>4. CASE ~Returns
  <2>1. phase' = "running" /\ UNCHANGED <<stage, holds>>
    BY <1>4 DEF Platform, Returns
  <2>2. (Abstains' <=> Abstains) /\ Vendor' = Vendor
    BY <1>2, <2>1 DEF Abstains, Vendor
  <2>3. Handed /\ Reachable /\ (Abstains => root = StockRoot(dev) /\ tmp.at = "none")
        /\ (~Abstains => Patched)
    BY <1>2, <1>4 DEF DeviceInv, LastInv
  <2>4. Handed' /\ Reachable'
    BY <1>2, <2>1, <2>2, <2>3 DEF Handed, Reachable
  <2>5. Patched' <=> Patched
    BY <1>2 DEF Patched, NewScripts, Rc, StockRoot
  <2>6. SeInv'
    BY <1>1 DEF DeviceInv, SeInv, OpenInv, LegacyInv, Sound, sevars
  <2> QED BY <1>2, <2>1, <2>2, <2>3, <2>4, <2>5, <2>6 DEF DeviceInv, FirstInv, SecondInv, LastInv
<1> QED BY <1>3, <1>4

\* magisk_proxy_main brings the files of the ramdisk into /sbin.
LEMMA MagiskProxyMain ==
  ASSUME DeviceInv, magisk_proxy_main
  PROVE  DeviceInv'
<1> USE DEF FirstPhases
<1>1. UNCHANGED sevars
  BY DEF magisk_proxy_main, sevars
<1>2. /\ UNCHANGED <<dev, phase, stage, config, init, holds, root, mirror>>
      /\ phase = "running" /\ tmp.at = "/magisk/tmp"
  BY DEF magisk_proxy_main
<1>3. Handed /\ Reachable /\ ~Abstains /\ Patched
  BY <1>2 DEF DeviceInv, LastInv
<1>4. ~Abstains' /\ Vendor' = Vendor
  BY <1>2, <1>3 DEF Abstains, Vendor
<1>5. Handed'
  BY <1>2, <1>3, <1>4 DEF Handed, magisk_proxy_main
<1>6. /\ DOMAIN tmp' = {"at", "rc", "files", "preinit"}
      /\ tmp'.at = "/sbin" /\ tmp'.rc = "/sbin" /\ tmp.files = tmp'.files
  BY <1>2, <1>3 DEF Reachable, magisk_proxy_main
<1>7. Reachable'
  BY <1>2, <1>3, <1>4, <1>6 DEF Reachable, magisk_proxy_main, recreate_sbin
<1>8. Patched'
  BY <1>2, <1>3 DEF Patched, NewScripts, Rc, StockRoot
<1>9. SeInv'
  BY <1>1 DEF DeviceInv, SeInv, OpenInv, LegacyInv, Sound, sevars
<1> QED BY <1>2, <1>4, <1>5, <1>7, <1>8, <1>9 DEF DeviceInv, FirstInv, SecondInv, LastInv

\* What runs beside or after magiskinit: it never runs before the root is patched.
LEMMA RunsLater ==
  ASSUME DeviceInv, InitRuns \/ HelperRuns \/ UNCHANGED deviceVars
  PROVE  DeviceInv'
<1> USE DEF FirstPhases
<1>1. UNCHANGED <<dev, phase, stage, config, mount_list, mounts, init, sdcard, holds, appeared, want,
                  root, tmp, sbin, mirror>>
  BY DEF InitRuns, HelperRuns, deviceVars, bootvars
<1>2. SeInv'
  <2>1. CASE UNCHANGED deviceVars
    BY <2>1 DEF DeviceInv, SeInv, OpenInv, LegacyInv, Sound, deviceVars, sevars
  <2> QED BY <2>1, SePreserved DEF InitRuns, HelperRuns, DeviceInv
<1>3. ASSUME SeFresh, phase # "running" PROVE SeFresh'
  <2>1. ~HelperNext
    BY <1>3 DEF SeFresh, HelperNext, wait_fs, open_version, unmount_version, poll, open,
                cleanup, load, answer, Meet, helper_goes
  <2>2. UNCHANGED sevars
    BY <1>3, <2>1 DEF InitRuns, HelperRuns, deviceVars
  <2> QED BY <1>3, <2>2, SeUnchanged
<1>4. (Abstains' <=> Abstains) /\ Vendor' = Vendor /\ (Returns' <=> Returns)
  BY <1>1 DEF Abstains, Vendor, Returns
<1>5. phase # "running" /\ Untouched => Untouched'
  BY <1>1, <1>3 DEF Untouched
<1>6. FirstInv' /\ SecondInv'
  BY <1>1, <1>4, <1>5 DEF DeviceInv, FirstInv, SecondInv
<1>7. (Patched' <=> Patched) /\ (Handed' <=> Handed) /\ (Reachable' <=> Reachable)
  BY <1>1, <1>4 DEF Patched, NewScripts, Rc, StockRoot, Handed, Reachable
<1>8. LastInv'
  BY <1>1, <1>4, <1>7 DEF DeviceInv, LastInv
<1> QED BY <1>1, <1>2, <1>6, <1>8 DEF DeviceInv

\* Whatever device, whatever way to boot and in whatever order magiskinit, init and the
\* helper that loads the policy take their steps, DeviceInv holds.
THEOREM DeviceInvariant == DeviceSpec => []DeviceInv
<1>1. DeviceInit => DeviceInv
  <2> SUFFICES ASSUME DeviceInit PROVE DeviceInv
    OBVIOUS
  <2>1. SeFresh /\ SeInv
    <3>1. SeInit
      BY DEF DeviceInit
    <3>2. SeFresh /\ policy = 0 /\ sz = 0 /\ helper_at = "none" /\ kernel = "none"
      BY <3>1 DEF SeInit, SeFresh
    <3>3. OpenInv /\ LegacyInv
      BY <3>2 DEF OpenInv, LegacyInv
    <3> QED BY <3>2, <3>3 DEF SeInv, Full
  <2>2. Untouched
    BY <2>1 DEF DeviceInit, Untouched
  <2> QED BY <2>1, <2>2 DEF DeviceInit, DeviceInv, FirstInv, SecondInv, LastInv, FirstPhases
<1>2. DeviceInv /\ [DeviceNext]_deviceVars => DeviceInv'
  BY Start, FirstStage, RecoveryOrCharger, Rootfs, SecondStage, LegacySystemAsRoot, FindBlock,
     MountSystemRoot, PlatformStep, MagiskProxyMain, RunsLater DEF DeviceNext, MagiskInitNext
<1> QED BY <1>1, <1>2, PTL DEF DeviceSpec

\* When the system runs, its scripts have been patched exactly once (patch_rc_scripts), on
\* every way to boot; a boot to recovery has them as they were.
THEOREM RootIsPatchedOnce == DeviceSpec => []RootPatchedOnce
<1>1. DeviceInv => RootPatchedOnce
  BY DEF DeviceInv, LastInv, Reachable, Patched, NewScripts, RootPatchedOnce
<1> QED BY <1>1, DeviceInvariant, PTL

\* exec_init hands over to an init that is not ours, with none of the copies of the backup
\* still held and no mount point left but those of Magisk's files and the vendor's.
THEOREM HandoverIsClean == DeviceSpec => []CleanHandover
<1>1. DeviceInv => CleanHandover
  BY DEF DeviceInv, LastInv, Handed, CleanHandover
<1> QED BY <1>1, DeviceInvariant, PTL

\* handle_sepolicy: init never goes on with a policy other than the whole patched one while
\* a helper is there to load it.  The legacy strategy polls the size of the file, and has
\* this only of an init that writes without a pause (Prompt); the other two always.
THEOREM InitIsBlocked == DeviceSpec => [](Sound => BlockedUntilLoaded)
<1>1. DeviceInv => (Sound => BlockedUntilLoaded)
  <2> SUFFICES ASSUME SeInv, Sound PROVE BlockedUntilLoaded
    BY DEF DeviceInv
  <2>1. kernel # "torn"
    BY DEF SeInv, OpenInv, LegacyInv, Sound
  <2>2. init_at = "done" /\ helper_at # "none" => kernel = "patched"
    BY DEF SeInv, OpenInv, LegacyInv, Sound, Strategies
  <2> QED BY <2>1, <2>2 DEF BlockedUntilLoaded
<1> QED BY <1>1, DeviceInvariant, PTL
-----------------------------------------------------------------------------
(* The policy that is loaded *)

\* Versions of the partitions, and of those each precompiled policy was made from.
SplitTypes ==
  /\ parts \in [Parts -> Nat] /\ hashed \subseteq System
  /\ parts["plat"] # Absent
  /\ precompiled \in [{"odm", "vendor"} -> [Parts -> Nat]]
  /\ loadedPolicy \in [Parts -> Nat]

SplitInv == SplitTypes /\ PolicyCurrent

\* from_split gives the policy of the partitions as they are: a precompiled one is used
\* only when check_precompiled finds it made from exactly these, whatever was updated.
THEOREM SplitPolicyCurrent == SplitSpec => []PolicyCurrent
<1> USE DEF SplitInv, SplitTypes, PolicyCurrent, System, Parts, None, Absent
<1>1. SplitInit => SplitInv
  <2> SUFFICES ASSUME SplitInit PROVE SplitInv
    OBVIOUS
  <2>1. parts \in [Parts -> Nat]
    BY DEF SplitInit
  <2>2. None \in [Parts -> Nat]
    OBVIOUS
  <2> QED BY <2>1, <2>2 DEF SplitInit
<1>2. SplitInv /\ [SplitNext]_splitVars => SplitInv'
  <2> SUFFICES ASSUME SplitInv, [SplitNext]_splitVars PROVE SplitInv'
    OBVIOUS
  <2>1. CASE Load
    <3> USE <2>1 DEF Load, check_precompiled
    <3>1. PICK pre \in {precompiled["odm"], precompiled["vendor"], parts} :
            /\ pre = parts \/ check_precompiled(pre)
            /\ loadedPolicy' = pre \/ loadedPolicy' = None
      BY DEF from_split, from_file, compile_split
    <3>2. pre \in [Parts -> Nat] /\ None \in [Parts -> Nat]
      OBVIOUS
    <3>3. SplitTypes'
      BY <3>1, <3>2
    <3>4. PolicyCurrent'
      BY <3>1, <3>2
    <3> QED BY <3>3, <3>4
  <2>2. ASSUME NEW p \in Parts, Update(p) PROVE SplitInv'
    <3>1. parts' \in [Parts -> Nat] /\ parts'["plat"] # Absent
      BY <2>2 DEF Update
    <3>2. precompiled' \in [{"odm", "vendor"} -> [Parts -> Nat]]
      BY <2>2, <3>1 DEF Update
    <3> QED BY <2>2, <3>1, <3>2 DEF Update
  <2>3. CASE UNCHANGED splitVars
    BY <2>3 DEF splitVars
  <2> QED BY <2>1, <2>2, <2>3 DEF SplitNext
<1>3. SplitInv => PolicyCurrent
  OBVIOUS
<1> QED BY <1>1, <1>2, <1>3, PTL DEF SplitSpec
===============================================================================

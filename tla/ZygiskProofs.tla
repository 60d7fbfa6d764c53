---------------------------- MODULE ZygiskProofs ----------------------------
(***************************************************************************)
(* Proofs about Zygisk in a process, from the zygote to the app, for any   *)
(* modules, descriptors and calls.  The invariant follows four things      *)
(* through an intercepted call: the hooks, the modules and mounts of the   *)
(* app, who is the zygote and who its child, and the open descriptors.     *)
(***************************************************************************)
EXTENDS Zygisk, TLAPS

\* The steps of an intercepted call.
InCall == {"fork_pre", "get_info", "onLoad", "callbacks", "sanitize_fds", "orig_check",
           "orig_fork", "orig_unshare", "orig_setcontext", "post", "destroy"}
OutOfCall == {"start", "bridge", "vm", "crashed", "idle", "app", "undefined"}

\* The shape of what the code keeps in structures.
InContext ==
  /\ DOMAIN ctx = {"call", "pid", "flags", "fd", "info", "modules", "todo", "allowed",
                   "exempted", "promised", "ignore"}
  /\ ctx.call \in Families /\ ctx.pid \in {-1, 0, 1}
  /\ ctx.exempted \subseteq Fds /\ ctx.promised \subseteq Fds

\* Types.
ZygTypes ==
  /\ at \in InCall \union OutOfCall /\ role \in {"zygote", "usap", "child"}
  /\ at \in InCall => InContext
  /\ at \in OutOfCall => ctx = NoCtx
  /\ at # "start" => DOMAIN hook = {"alive", "backup", "self_handle", "runtime_callbacks",
                                    "should_unmap", "fnPtr"}
  /\ DOMAIN mods = {"mapped", "api", "unload"}

\* No method of class Zygote is ours, so that no call will be intercepted.
Unhooked == \A f \in Families : jni[f] # "ours"

\* What points into the library, and what becomes of it.
HookInv ==
  /\ \A f \in Families : jni[f] \in {"orig", "absent", "ours"}
  /\ at = "start" => plt = {} /\ lib = "absent"
  /\ at \in {"start", "bridge", "vm"} => Unhooked
  /\ at # "start" => plt \subseteq hook.backup
  /\ at \in InCall =>
       /\ lib = "mapped" /\ mods.api = ctx.modules
       /\ \A f \in Families : jni[f] = "absent" \/ hook.fnPtr[f] = "orig"
       /\ ctx.pid > 0 => at \in {"sanitize_fds", "orig_check", "orig_fork", "post", "destroy"}
       /\ at \in {"fork_pre", "get_info", "onLoad"} \/ ctx.pid > 0 => ctx.modules = {}
  /\ at \in OutOfCall => mods.api = {}
  /\ at = "idle" /\ ~Unhooked =>
       \A f \in Families : jni[f] = "absent" \/ hook.fnPtr[f] = "orig"
  /\ Unloader \in plt => at \in {"app", "idle", "undefined"} /\ Unhooked
  /\ lib = "unmapped" => at \in {"app", "idle"} /\ plt = {} /\ Unhooked
  /\ at \in {"bridge", "vm"} \/ (at = "idle" /\ ~Unhooked) => lib = "mapped"

\* The modules and the mounts of an app.
DenyInv ==
  /\ \/ at \in {"start", "bridge", "vm", "fork_pre", "get_info", "onLoad"}
     \/ at = "idle" /\ ~Unhooked
     => mods.mapped = {}
  /\ \/ at \in {"start", "bridge", "vm"} \/ (at = "idle" /\ ~Unhooked)
     \/ at \in InCall \ {"orig_setcontext", "post", "destroy"}
     => ns # "private"
  /\ at \in {"bridge", "vm"} \union InCall \/ (at = "idle" /\ ~Unhooked) => Symbols \ MayMiss \subseteq plt
  /\ at \in InCall =>
       /\ ctx.pid > 0 => mods.mapped = {} /\ ns # "private"
       /\ ctx.call # "fork_server" /\ UNMOUNT_MASK \subseteq told =>
            mods.mapped = {} /\ at \notin {"onLoad", "callbacks"}
       /\ "unshare" \notin MayMiss /\ "DO_REVERT_UNMOUNT" \in ctx.flags => ns # "private"

\* The zygote is told from its children.
ForkInv ==
  /\ at \in {"start", "bridge", "vm"} => role = "zygote"
  /\ at = "idle" => role # "child"
  /\ at \in InCall =>
       /\ ctx.call = "specialize_app" <=> role = "usap"
       /\ role = "usap" =>
            ctx.pid = -1 /\ at \notin {"fork_pre", "sanitize_fds", "orig_check", "orig_fork"}
       /\ at = "fork_pre" => role = "zygote"
       /\ at # "fork_pre" /\ ~ForkFails => (ctx.pid > 0 <=> role = "zygote")
  /\ role = "zygote" /\ ~ForkFails =>
       /\ mods.mapped = {} /\ Unloader \notin plt
       /\ at # "start" => hook.alive /\ ~hook.should_unmap
       /\ fds \subseteq {"base", "logd"}

\* The descriptors.
FdInv ==
  /\ ~rejected
  /\ at \in {"idle", "get_info", "onLoad"} => fds \subseteq {"base", "logd"}
  /\ at = "idle" => "__android_log_close" \in plt \/ role = "usap"
  /\ at \in InCall =>
       /\ ctx.promised \subseteq fds
       /\ ctx.call = "specialize_app" <=> "SKIP_CLOSE_LOG_PIPE" \in ctx.flags
       /\ ctx.call = "fork_app" <=> "APP_FORK_AND_SPECIALIZE" \in ctx.flags
       /\ at \in {"fork_pre", "get_info", "onLoad"} => ctx.promised = {}
       /\ at \in {"fork_pre", "get_info", "onLoad", "callbacks", "sanitize_fds"} =>
            /\ "POST_SPECIALIZE" \notin ctx.flags /\ ctx.allowed \subseteq {"base"}
            /\ ctx.call # "specialize_app" =>
                 /\ ctx.promised \subseteq ctx.exempted
                 /\ ctx.promised # {} => can_exempt_fd
       /\ at = "sanitize_fds" /\ ctx.promised # {} => is_child
       /\ at = "orig_check" =>
            fds \subseteq {"base"} \union UNION {ctx.ignore[i] : i \in DOMAIN ctx.ignore}

\* When the descriptors of Zygisk are closed in time.
Closes == ~ForkFails /\ "__android_log_close" \notin MayMiss


\* Every step keeps the shapes.
LEMMA TypesStep ==
  ASSUME ZygTypes, ZygiskNext
  PROVE  ZygTypes'
<1> USE DEF ZygTypes, InCall, OutOfCall
<1>1. CASE hook_entry
  BY <1>1 DEF hook_entry, hook_plt
<1>2. CASE post_native_bridge_load
  BY <1>2 DEF post_native_bridge_load
<1>3. CASE hook_zygote_jni
  BY <1>3 DEF hook_zygote_jni, hook_jni_methods
<1>4. CASE nativeForkAndSpecialize
  BY <1>4 DEF nativeForkAndSpecialize, nativeForkAndSpecialize_pre, Called, ZygiskContext,
              InContext, Families
<1>5. CASE nativeSpecializeAppProcess
  BY <1>5 DEF nativeSpecializeAppProcess, nativeSpecializeAppProcess_pre, Called, ZygiskContext,
              InContext, Families
<1>6. CASE nativeForkSystemServer
  BY <1>6 DEF nativeForkSystemServer, nativeForkSystemServer_pre, Called, ZygiskContext,
              InContext, Families
<1>7. CASE nativeForkUsap
  BY <1>7 DEF nativeForkUsap, android_log_close
<1>8. CASE fork_pre
  <2>1. /\ at \in InCall /\ at' \in {"sanitize_fds", "get_info"} /\ role' \in {"child", role}
        /\ UNCHANGED <<hook, mods>>
    BY <1>8 DEF fork_pre
  <2>2. PICK pid \in Pids : \/ ctx' = [ctx EXCEPT !.pid = pid]
                           \/ ctx' = [ctx EXCEPT !.pid = pid, !.allowed = fds \ {"logd"}]
    BY <1>8 DEF fork_pre
  <2>3. pid \in {-1, 0, 1}
    BY DEF Pids
  <2>4. InContext
    BY <2>1
  <2>5. /\ DOMAIN ctx' = DOMAIN ctx /\ ctx'.call = ctx.call /\ ctx'.pid = pid
        /\ ctx'.exempted = ctx.exempted /\ ctx'.promised = ctx.promised
    BY <2>2, <2>4 DEF InContext
  <2>6. InContext'
    BY <2>3, <2>4, <2>5 DEF InContext
  <2> QED BY <2>1, <2>6
<1>9. CASE app_specialize_pre
  BY <1>9 DEF app_specialize_pre, Informed, AfterPre, get_module_info, InContext
<1>10. CASE server_specialize_pre
  BY <1>10 DEF server_specialize_pre, Informed, AfterPre, get_module_info, InContext
<1>11. CASE onLoad
  BY <1>11 DEF onLoad, AfterPre, InContext
<1>12. ASSUME NEW m \in Modules, PreCallback(m) PROVE ZygTypes'
  BY <1>12, SMTT(30) DEF PreCallback, AfterPre, exempt_fd, Raised, setOption, InContext
<1>13. CASE sanitize_fds
  BY <1>13 DEF sanitize_fds, InContext
<1>14. CASE OrigCheck
  BY <1>14 DEF OrigCheck, android_log_close, InContext
<1>15. CASE OrigFork
  BY <1>15 DEF OrigFork, InContext
<1>16. CASE OrigUnshare
  BY <1>16 DEF OrigUnshare, InContext
<1>17. CASE OrigSetContext
  BY <1>17 DEF OrigSetContext, InContext
<1>18. CASE SpecializePost
  BY <1>18 DEF SpecializePost, run_modules_post, InContext
<1>19. CASE ForkPost
  BY <1>19 DEF ForkPost, run_modules_post, fork_post, InContext
<1>20. CASE Destroy
  BY <1>20 DEF Destroy, register_jni_methods, hook_unloader
<1>21. CASE pthread_attr_destroy
  BY <1>21 DEF pthread_attr_destroy
<1> QED BY <1>1, <1>2, <1>3, <1>4, <1>5, <1>6, <1>7, <1>8, <1>9, <1>10, <1>11, <1>12, <1>13,
           <1>14, <1>15, <1>16, <1>17, <1>18, <1>19, <1>20, <1>21 DEF ZygiskNext

\* How an intercepted call begins.
LEMMA CallBegins ==
  ASSUME nativeForkAndSpecialize \/ nativeSpecializeAppProcess \/ nativeForkSystemServer
  PROVE  /\ at = "idle" /\ ~Unhooked
         /\ UNCHANGED <<role, lib, plt, hook, jni, fds, mods, sigchld, ns, told, unloaded, rejected>>
         /\ ctx'.pid = -1 /\ ctx'.modules = {} /\ ctx'.promised = {} /\ ctx'.exempted = {}
         /\ ctx'.allowed = {}
         /\ \/ /\ at' = "fork_pre" /\ role = "zygote" /\ ctx'.call = "fork_app"
               /\ ctx'.flags = {"APP_FORK_AND_SPECIALIZE"}
            \/ /\ at' = "fork_pre" /\ role = "zygote" /\ ctx'.call = "fork_server"
               /\ ctx'.flags = {"SERVER_FORK_AND_SPECIALIZE"}
            \/ /\ at' = "get_info" /\ role = "usap" /\ ctx'.call = "specialize_app"
               /\ ctx'.flags = {"SKIP_CLOSE_LOG_PIPE"}
  BY DEF nativeForkAndSpecialize, nativeForkAndSpecialize_pre, nativeSpecializeAppProcess,
         nativeSpecializeAppProcess_pre, nativeForkSystemServer, nativeForkSystemServer_pre,
         Called, ZygiskContext, Unhooked, Families

\* What run_modules_post leaves alone.
LEMMA ModulesPost ==
  ASSUME InContext, DOMAIN mods = {"mapped", "api", "unload"}, run_modules_post
  PROVE  /\ ctx' = [ctx EXCEPT !.flags = @ \union {"POST_SPECIALIZE"}]
         /\ mods'.mapped \subseteq mods.mapped /\ mods'.api = mods.api
<1>1. PICK more : /\ mods' = [mods EXCEPT !.unload = @ \union more,
                                          !.mapped = @ \ (mods.unload \union more)]
                  /\ ctx' = [ctx EXCEPT !.flags = @ \union {"POST_SPECIALIZE"}]
  BY DEF run_modules_post
<1>2. mods'.mapped = mods.mapped \ (mods.unload \union more) /\ mods'.api = mods.api
  BY <1>1
<1> QED BY <1>1, <1>2

\* The end of an intercepted call, up to ~ZygiskContext.
LEMMA CallPost ==
  ASSUME ZygTypes, SpecializePost \/ ForkPost
  PROVE  /\ at = "post" /\ at' = "destroy"
         /\ UNCHANGED <<role, lib, plt, hook, jni, fds, ns, told, unloaded, rejected>>
         /\ ctx'.call = ctx.call /\ ctx'.pid = ctx.pid /\ ctx'.promised = ctx.promised
         /\ ctx'.modules = ctx.modules
         /\ ctx'.flags \subseteq ctx.flags \union {"POST_SPECIALIZE"} /\ ctx.flags \subseteq ctx'.flags
         /\ mods'.mapped \subseteq mods.mapped /\ mods'.api = mods.api
<1>1. InContext /\ DOMAIN mods = {"mapped", "api", "unload"} /\ at = "post"
  BY DEF ZygTypes, InCall, SpecializePost, ForkPost
<1>2. CASE run_modules_post
  <2>1. /\ ctx' = [ctx EXCEPT !.flags = @ \union {"POST_SPECIALIZE"}]
        /\ mods'.mapped \subseteq mods.mapped /\ mods'.api = mods.api
    BY <1>1, <1>2, ModulesPost
  <2> QED BY <1>1, <2>1 DEF SpecializePost, ForkPost, InContext
<1>3. CASE ~run_modules_post
  BY <1>3 DEF SpecializePost, ForkPost
<1> QED BY <1>2, <1>3

\* What fork_pre leaves alone, in the parent and in the child.
LEMMA Forked ==
  ASSUME ZygTypes, fork_pre
  PROVE  /\ UNCHANGED <<lib, plt, hook, jni, mods, ns, told, unloaded, rejected>> /\ at = "fork_pre"
         /\ ctx'.call = ctx.call /\ ctx'.flags = ctx.flags /\ ctx'.modules = ctx.modules
         /\ ctx'.exempted = ctx.exempted /\ ctx'.promised = ctx.promised /\ ctx'.ignore = ctx.ignore
         /\ \E pid \in Pids :
              /\ role' = (IF pid = 0 THEN "child" ELSE role) /\ ctx'.pid = pid
              /\ \/ pid > 0 /\ at' = "sanitize_fds" /\ fds' = fds /\ ctx'.allowed = ctx.allowed
                 \/ /\ ~ pid > 0 /\ at' = "get_info" /\ ctx'.allowed = fds \ {"logd"}
                    /\ fds \subseteq fds' /\ fds' \subseteq fds \union {"logd"}
<1>1. InContext /\ at = "fork_pre"
  BY DEF ZygTypes, InCall, fork_pre
<1>2. PICK pid \in Pids :
        /\ role' = IF pid = 0 THEN "child" ELSE role
        /\ IF pid > 0
           THEN at' = "sanitize_fds" /\ ctx' = [ctx EXCEPT !.pid = pid] /\ fds' = fds
           ELSE /\ at' = "get_info"
                /\ ctx' = [ctx EXCEPT !.pid = pid, !.allowed = fds \ {"logd"}]
                /\ fds' \in {fds, fds \union {"logd"}}
  BY DEF fork_pre
<1>3. /\ ctx'.call = ctx.call /\ ctx'.flags = ctx.flags /\ ctx'.modules = ctx.modules
      /\ ctx'.exempted = ctx.exempted /\ ctx'.promised = ctx.promised /\ ctx'.ignore = ctx.ignore
      /\ ctx'.pid = pid /\ ctx'.allowed = IF pid > 0 THEN ctx.allowed ELSE fds \ {"logd"}
  BY <1>1, <1>2 DEF InContext
<1>4. UNCHANGED <<lib, plt, hook, jni, mods, ns, told, unloaded, rejected>>
  BY DEF fork_pre
<1> QED BY <1>1, <1>2, <1>3, <1>4

\* Every step keeps track of the hooks: what restore_plt_hook and restore_jni_hook will
\* have to undo is what was done.
LEMMA HookStep ==
  ASSUME ZygTypes, ZygTypes', HookInv, ZygiskNext
  PROVE  HookInv'
<1> USE DEF ZygTypes, InContext, InCall, OutOfCall, HookInv, Unhooked
<1>1. CASE hook_entry
  BY <1>1 DEF hook_entry, hook_plt, Symbols, Unloader
<1>2. CASE post_native_bridge_load
  BY <1>2 DEF post_native_bridge_load
<1>3. CASE hook_zygote_jni
  <2>1. /\ at = "vm" /\ at' \in {"idle", "crashed"} /\ UNCHANGED <<lib, plt, mods>>
        /\ lib = "mapped" /\ plt \subseteq hook.backup /\ Unloader \notin plt /\ mods.api = {} /\ Unhooked
    BY <1>3 DEF hook_zygote_jni
  <2>2. hook'.backup = hook.backup
    BY <1>3 DEF hook_zygote_jni, hook_jni_methods
  <2>3. CASE UNCHANGED jni
    BY <2>1, <2>2, <2>3
  <2>4. CASE hook_jni_methods({f \in Families : jni[f] = "orig"})
    <3>1. \A f \in Families : IF jni[f] = "orig" THEN jni'[f] = "ours" /\ hook'.fnPtr[f] = "orig"
                              ELSE jni'[f] = "absent"
      BY <2>1, <2>4 DEF hook_jni_methods
    <3> QED BY <2>1, <2>2, <3>1
  <2> QED BY <1>3, <2>3, <2>4 DEF hook_zygote_jni
<1>4. CASE nativeForkAndSpecialize
  BY <1>4 DEF nativeForkAndSpecialize, nativeForkAndSpecialize_pre, Called, ZygiskContext
<1>5. CASE nativeSpecializeAppProcess
  BY <1>5 DEF nativeSpecializeAppProcess, nativeSpecializeAppProcess_pre, Called, ZygiskContext
<1>6. CASE nativeForkSystemServer
  BY <1>6 DEF nativeForkSystemServer, nativeForkSystemServer_pre, Called, ZygiskContext
<1>7. CASE nativeForkUsap
  BY <1>7 DEF nativeForkUsap
<1>8. CASE fork_pre
  BY <1>8, Forked
<1>9. CASE app_specialize_pre
  BY <1>9 DEF app_specialize_pre, Informed, AfterPre, get_module_info
<1>10. CASE server_specialize_pre
  BY <1>10 DEF server_specialize_pre, Informed, AfterPre, get_module_info
<1>11. CASE onLoad
  <2>1. /\ at = "onLoad" /\ at' \in {"orig_unshare", "sanitize_fds", "callbacks"}
        /\ UNCHANGED <<lib, plt, hook, jni>> /\ ctx'.modules = mods'.api /\ ctx'.pid = ctx.pid
    BY <1>11 DEF onLoad, AfterPre
  <2>2. ~ ctx.pid > 0
    BY <2>1
  <2> QED BY <2>1, <2>2
<1>12. ASSUME NEW m \in Modules, PreCallback(m) PROVE HookInv'
  BY <1>12 DEF PreCallback, AfterPre, exempt_fd, Raised, setOption
<1>13. CASE sanitize_fds
  BY <1>13 DEF sanitize_fds
<1>14. CASE OrigCheck
  BY <1>14 DEF OrigCheck
<1>15. CASE OrigFork
  BY <1>15 DEF OrigFork
<1>16. CASE OrigUnshare
  BY <1>16 DEF OrigUnshare
<1>17. CASE OrigSetContext
  BY <1>17 DEF OrigSetContext
<1>18. CASE SpecializePost
  BY <1>18, CallPost
<1>19. CASE ForkPost
  BY <1>19, CallPost
<1>20. CASE Destroy
  <2>1. at = "destroy" /\ at' \in {"idle", "app"} /\ lib' = lib /\ lib = "mapped" /\ Unloader \notin plt
    BY <1>20 DEF Destroy
  <2>2. CASE ~is_child
    <3>1. UNCHANGED <<plt, hook, jni, mods>> /\ ctx.modules = {}
      BY <1>20, <2>1, <2>2 DEF Destroy, is_child
    <3> QED BY <2>1, <3>1
  <2>3. CASE is_child
    <3>1. mods'.api = {}
      BY <1>20, <2>1, <2>3 DEF Destroy
    <3>2. \A f \in Families : jni'[f] \in {"orig", "absent"}
      BY <1>20, <2>1, <2>3 DEF Destroy, register_jni_methods
    <3>3. plt' \subseteq hook'.backup
      <4>1. plt \subseteq hook.backup
        BY <2>1
      <4>2. DOMAIN hook = {"alive", "backup", "self_handle", "runtime_callbacks", "should_unmap", "fnPtr"}
        BY <2>1
      <4>3. hook_unloader([hook EXCEPT !.should_unmap = TRUE])
        BY <1>20, <2>3 DEF Destroy
      <4> HIDE DEF ZygTypes, HookInv
      <4>4. hook'.backup = hook.backup \union {Unloader}
        BY <4>2, <4>3 DEF hook_unloader
      <4>5. plt' \subseteq plt \union {Unloader}
        BY <4>3 DEF hook_unloader
      <4> QED BY <4>1, <4>4, <4>5
    <3> QED BY <2>1, <3>1, <3>2, <3>3
  <2> QED BY <2>2, <2>3
<1>21. CASE pthread_attr_destroy
  <2>1. at \in {"app", "idle"} /\ UNCHANGED <<jni, mods>> /\ Unhooked /\ mods.api = {} /\ lib # "unmapped"
    BY <1>21 DEF pthread_attr_destroy
  <2>2. CASE ~hook.alive
    BY <1>21, <2>1, <2>2 DEF pthread_attr_destroy
  <2>3. CASE hook.alive
    <3>1. /\ at' = at /\ hook'.backup = hook.backup /\ plt' \subseteq plt
          /\ lib' = lib \/ (lib' = "unmapped" /\ plt' = {})
      <4>1. plt \subseteq hook.backup
        BY <2>1
      <4>2. DOMAIN hook = {"alive", "backup", "self_handle", "runtime_callbacks", "should_unmap", "fnPtr"}
        BY <2>1
      <4> HIDE DEF ZygTypes, HookInv
      <4>3. PICK back : /\ plt' = plt \ back
                        /\ hook' = [hook EXCEPT !.alive = FALSE, !.should_unmap = (back = hook.backup)]
                        /\ lib' = IF back = hook.backup THEN "unmapped" ELSE lib
                        /\ at' = at
        BY <1>21, <2>3 DEF pthread_attr_destroy
      <4>4. hook'.backup = hook.backup
        BY <4>2, <4>3
      <4> QED BY <4>1, <4>3, <4>4
    <3> QED BY <2>1, <3>1
  <2> QED BY <2>2, <2>3
<1> QED BY <1>1, <1>2, <1>3, <1>4, <1>5, <1>6, <1>7, <1>8, <1>9, <1>10, <1>11, <1>12, <1>13,
           <1>14, <1>15, <1>16, <1>17, <1>18, <1>19, <1>20, <1>21 DEF ZygiskNext

\* Every step of a process on the denylist leads to the revert of its mounts.
LEMMA DenyStep ==
  ASSUME ZygTypes, HookInv, HookInv', DenyInv, ZygiskNext
  PROVE  DenyInv'
<1> USE DEF ZygTypes, InContext, InCall, OutOfCall, HookInv, DenyInv, Unhooked
<1>1. CASE hook_entry
  BY <1>1 DEF hook_entry, hook_plt
<1>2. CASE post_native_bridge_load
  BY <1>2 DEF post_native_bridge_load
<1>3. CASE hook_zygote_jni
  BY <1>3 DEF hook_zygote_jni, hook_jni_methods
<1>4. CASE nativeForkAndSpecialize
  BY <1>4, CallBegins
<1>5. CASE nativeSpecializeAppProcess
  BY <1>5, CallBegins
<1>6. CASE nativeForkSystemServer
  BY <1>6, CallBegins
<1>7. CASE nativeForkUsap
  BY <1>7 DEF nativeForkUsap
<1>8. CASE fork_pre
  BY <1>8, Forked
<1>9. CASE app_specialize_pre
  BY <1>9 DEF app_specialize_pre, Informed, AfterPre, get_module_info, UNMOUNT_MASK
<1>10. CASE server_specialize_pre
  BY <1>10 DEF server_specialize_pre, Informed, AfterPre, get_module_info, UNMOUNT_MASK
<1>11. CASE onLoad
  BY <1>11 DEF onLoad, AfterPre
<1>12. ASSUME NEW m \in Modules, PreCallback(m) PROVE DenyInv'
  BY <1>12 DEF PreCallback, AfterPre, exempt_fd, Raised, setOption
<1>13. CASE sanitize_fds
  BY <1>13 DEF sanitize_fds
<1>14. CASE OrigCheck
  BY <1>14 DEF OrigCheck
<1>15. CASE OrigFork
  BY <1>15 DEF OrigFork
<1>16. CASE OrigUnshare
  BY <1>16 DEF OrigUnshare, Symbols
<1>17. CASE OrigSetContext
  BY <1>17 DEF OrigSetContext
<1>18. CASE SpecializePost
  BY <1>18, CallPost
<1>19. CASE ForkPost
  BY <1>19, CallPost
<1>20. CASE Destroy
  BY <1>20 DEF Destroy, register_jni_methods, hook_unloader, is_child
<1>21. CASE pthread_attr_destroy
  BY <1>21 DEF pthread_attr_destroy
<1> QED BY <1>1, <1>2, <1>3, <1>4, <1>5, <1>6, <1>7, <1>8, <1>9, <1>10, <1>11, <1>12, <1>13,
           <1>14, <1>15, <1>16, <1>17, <1>18, <1>19, <1>20, <1>21 DEF ZygiskNext

\* Every step leaves the modules to the child.
LEMMA ForkStep ==
  ASSUME ZygTypes, ZygTypes', HookInv, DenyInv, ForkInv, ZygiskNext
  PROVE  ForkInv'
<1> USE DEF ZygTypes, InContext, InCall, OutOfCall, HookInv, DenyInv, ForkInv
<1>1. CASE hook_entry
  BY <1>1 DEF hook_entry, hook_plt, Symbols, Unloader
<1>2. CASE post_native_bridge_load
  BY <1>2 DEF post_native_bridge_load
<1>3. CASE hook_zygote_jni
  BY <1>3 DEF hook_zygote_jni, hook_jni_methods
<1>4. CASE nativeForkAndSpecialize
  BY <1>4, CallBegins
<1>5. CASE nativeSpecializeAppProcess
  BY <1>5, CallBegins
<1>6. CASE nativeForkSystemServer
  BY <1>6, CallBegins
<1>7. CASE nativeForkUsap
  BY <1>7 DEF nativeForkUsap, android_log_close
<1>8. CASE fork_pre
  BY <1>8, Forked DEF Pids
<1>9. CASE app_specialize_pre
  BY <1>9 DEF app_specialize_pre, Informed, AfterPre, get_module_info
<1>10. CASE server_specialize_pre
  BY <1>10 DEF server_specialize_pre, Informed, AfterPre, get_module_info
<1>11. CASE onLoad
  BY <1>11 DEF onLoad, AfterPre
<1>12. ASSUME NEW m \in Modules, PreCallback(m) PROVE ForkInv'
  BY <1>12 DEF PreCallback, AfterPre, exempt_fd, Raised, setOption
<1>13. CASE sanitize_fds
  BY <1>13 DEF sanitize_fds
<1>14. CASE OrigCheck
  BY <1>14 DEF OrigCheck, android_log_close
<1>15. CASE OrigFork
  BY <1>15 DEF OrigFork, Pids
<1>16. CASE OrigUnshare
  BY <1>16 DEF OrigUnshare
<1>17. CASE OrigSetContext
  BY <1>17 DEF OrigSetContext
<1>18. CASE SpecializePost
  BY <1>18, CallPost
<1>19. CASE ForkPost
  BY <1>19, CallPost
<1>20. CASE Destroy
  BY <1>20 DEF Destroy, register_jni_methods, hook_unloader, is_child
<1>21. CASE pthread_attr_destroy
  BY <1>21 DEF pthread_attr_destroy
<1> QED BY <1>1, <1>2, <1>3, <1>4, <1>5, <1>6, <1>7, <1>8, <1>9, <1>10, <1>11, <1>12, <1>13,
           <1>14, <1>15, <1>16, <1>17, <1>18, <1>19, <1>20, <1>21 DEF ZygiskNext

\* Every step of the child keeps its open files within what the zygote allows.
LEMMA FdStep ==
  ASSUME Closes, ZygTypes, ZygTypes', HookInv, DenyInv, ForkInv, ForkInv', FdInv, ZygiskNext
  PROVE  FdInv'
<1> USE DEF Closes, ZygTypes, InContext, InCall, OutOfCall, HookInv, DenyInv, ForkInv, FdInv
<1>1. CASE hook_entry
  BY <1>1, FdsAssumption DEF hook_entry, hook_plt, Symbols, Unloader
<1>2. CASE post_native_bridge_load
  BY <1>2, FdsAssumption DEF post_native_bridge_load
<1>3. CASE hook_zygote_jni
  BY <1>3 DEF hook_zygote_jni, Symbols
<1>4. CASE nativeForkAndSpecialize
  BY <1>4, CallBegins DEF can_exempt_fd
<1>5. CASE nativeSpecializeAppProcess
  BY <1>5, CallBegins DEF can_exempt_fd
<1>6. CASE nativeForkSystemServer
  BY <1>6, CallBegins DEF can_exempt_fd
<1>7. CASE nativeForkUsap
  BY <1>7, FdsAssumption DEF nativeForkUsap, android_log_close, FdTableCheck
<1>8. CASE fork_pre
  BY <1>8, FdsAssumption, Forked DEF Pids, is_child, can_exempt_fd
<1>9. CASE app_specialize_pre
  BY <1>9, FdsAssumption DEF app_specialize_pre, Informed, AfterPre, get_module_info
<1>10. CASE server_specialize_pre
  BY <1>10, FdsAssumption DEF server_specialize_pre, Informed, AfterPre, get_module_info
<1>11. CASE onLoad
  BY <1>11, FdsAssumption DEF onLoad, AfterPre
<1>12. ASSUME NEW m \in Modules, PreCallback(m) PROVE FdInv'
  <2>1. /\ at = "callbacks" /\ at' \in {"callbacks", "orig_unshare", "sanitize_fds"}
        /\ UNCHANGED <<role, plt, rejected>> /\ InContext
    BY <1>12 DEF PreCallback, AfterPre
  <2>a. /\ ctx.promised \subseteq fds /\ "POST_SPECIALIZE" \notin ctx.flags /\ ~ ctx.pid > 0
        /\ ctx.call = "specialize_app" <=> "SKIP_CLOSE_LOG_PIPE" \in ctx.flags
        /\ ctx.call # "specialize_app" =>
             ctx.promised \subseteq ctx.exempted /\ (ctx.promised # {} => can_exempt_fd)
    BY <2>1
  <2> HIDE DEF ZygTypes, HookInv, DenyInv, ForkInv, FdInv
  <2>2. PICK open \in SUBSET (Fds \ fds), opts \in SUBSET Options : \E asked \in SUBSET open :
          LET ex == exempt_fd(asked) IN
          /\ fds' = fds \union open
          /\ ctx' = [ctx EXCEPT !.todo = @ \ {m}, !.exempted = ex[2],
                !.promised = IF ex[1] THEN @ \union asked ELSE @,
                !.flags = @ \union Raised(opts)]
    BY <1>12 DEF PreCallback
  <2>3. PICK asked \in SUBSET open :
          /\ fds' = fds \union open
          /\ ctx' = [ctx EXCEPT !.todo = @ \ {m}, !.exempted = exempt_fd(asked)[2],
                !.promised = IF exempt_fd(asked)[1] THEN @ \union asked ELSE @,
                !.flags = @ \union Raised(opts)]
    BY <2>2
  <2>4. /\ ctx'.call = ctx.call /\ ctx'.pid = ctx.pid /\ ctx'.allowed = ctx.allowed
        /\ ctx'.ignore = ctx.ignore /\ ctx'.flags = ctx.flags \union Raised(opts)
        /\ ctx'.exempted = exempt_fd(asked)[2]
        /\ ctx'.promised = IF exempt_fd(asked)[1] THEN ctx.promised \union asked ELSE ctx.promised
    BY <2>1, <2>3
  <2>5. Raised(opts) \subseteq {"DO_REVERT_UNMOUNT"}
    BY DEF Raised
  <2>6. /\ ctx.call = "specialize_app" => exempt_fd(asked)[1] = TRUE
        /\ ctx.call # "specialize_app" /\ can_exempt_fd => exempt_fd(asked)[2] = ctx.exempted \union asked
        /\ ctx.call # "specialize_app" /\ ~can_exempt_fd =>
             exempt_fd(asked)[1] = FALSE /\ exempt_fd(asked)[2] = ctx.exempted
    <3>1. CASE ctx.call = "specialize_app"
      BY <2>a, <3>1 DEF exempt_fd
    <3>2. CASE ctx.call # "specialize_app"
      <4>1. exempt_fd(asked) = <<can_exempt_fd, IF can_exempt_fd THEN ctx.exempted \union asked
                                                ELSE ctx.exempted>>
        BY <2>a, <3>2, Zenon DEF exempt_fd
      <4>2. can_exempt_fd \in BOOLEAN
        BY DEF can_exempt_fd
      <4> QED BY <3>2, <4>1, <4>2
    <3> QED BY <3>1, <3>2
  <2>7. can_exempt_fd' <=> can_exempt_fd
    BY <2>4, <2>5 DEF can_exempt_fd
  <2>8. ctx'.promised \subseteq fds'
    BY <2>a, <2>3, <2>4
  <2>9. ctx.call # "specialize_app" =>
          ctx'.promised \subseteq ctx'.exempted /\ (ctx'.promised # {} => can_exempt_fd')
    <3> HIDE DEF can_exempt_fd, exempt_fd
    <3>1. CASE can_exempt_fd
      BY <2>a, <2>4, <2>6, <2>7, <3>1
    <3>2. CASE ~can_exempt_fd
      BY <2>a, <2>4, <2>6, <2>7, <3>2
    <3> QED BY <3>1, <3>2
  <2>10. is_child'
    BY <2>1, <2>a, <2>4 DEF is_child
  <2> HIDE DEF Raised, exempt_fd, can_exempt_fd, is_child
  <2> QED BY <2>1, <2>4, <2>5, <2>7, <2>8, <2>9, <2>10 DEF FdInv
<1>13. CASE sanitize_fds
  BY <1>13, FdsAssumption DEF sanitize_fds, is_child, can_exempt_fd
<1>14. CASE OrigCheck
  BY <1>14, FdsAssumption DEF OrigCheck, android_log_close, FdTableCheck
<1>15. CASE OrigFork
  BY <1>15, FdsAssumption DEF OrigFork
<1>16. CASE OrigUnshare
  BY <1>16, FdsAssumption DEF OrigUnshare
<1>17. CASE OrigSetContext
  BY <1>17, FdsAssumption DEF OrigSetContext
<1>18. CASE SpecializePost
  BY <1>18, CallPost
<1>19. CASE ForkPost
  BY <1>19, CallPost
<1>20. CASE Destroy
  BY <1>20 DEF Destroy, Symbols, is_child
<1>21. CASE pthread_attr_destroy
  BY <1>21, FdsAssumption DEF pthread_attr_destroy
<1> QED BY <1>1, <1>2, <1>3, <1>4, <1>5, <1>6, <1>7, <1>8, <1>9, <1>10, <1>11, <1>12, <1>13,
           <1>14, <1>15, <1>16, <1>17, <1>18, <1>19, <1>20, <1>21 DEF ZygiskNext
-----------------------------------------------------------------------------
(* The properties *)

ZygInv == ZygTypes /\ HookInv /\ DenyInv /\ ForkInv

\* Nothing changes when nothing happens.
LEMMA ZygStutters ==
  ASSUME ZygInv, UNCHANGED zygVars
  PROVE  ZygInv' /\ (FdInv => FdInv')
<1>1. UNCHANGED <<at, role, lib, plt, hook, jni, ctx, fds, mods, sigchld, ns, told, unloaded, rejected>>
  BY DEF zygVars, zygProc
<1>2. ZygTypes' /\ HookInv'
  BY <1>1 DEF ZygInv, ZygTypes, InContext, HookInv, Unhooked
<1>3. DenyInv' /\ ForkInv'
  BY <1>1 DEF ZygInv, DenyInv, ForkInv, Unhooked
<1>4. FdInv => FdInv'
  BY <1>1 DEF FdInv, can_exempt_fd, is_child
<1> QED BY <1>2, <1>3, <1>4 DEF ZygInv

\* The inductive invariant, for every set of modules, files and calls, and whichever hooks
\* are missing and forks fail.
THEOREM ZygiskInvariant == ZygiskSpec => []ZygInv
<1>1. ZygiskInit => ZygInv
  BY DEF ZygiskInit, ZygInv, ZygTypes, HookInv, DenyInv, ForkInv, Unhooked, InCall, OutOfCall
<1>2. ZygInv /\ [ZygiskNext]_zygVars => ZygInv'
  BY TypesStep, HookStep, DenyStep, ForkStep, ZygStutters DEF ZygInv
<1> QED BY <1>1, <1>2, PTL DEF ZygiskSpec

\* Nothing points into the library once new_pthread_attr_destroy has unmapped it,
\* whichever hooks could not be installed and whichever forks failed: no hook of the PLT,
\* no method of class Zygote, no API table of a module.
THEOREM UnmappedClean == ZygiskSpec => []UnmapClean
<1>1. ZygInv => UnmapClean
  BY DEF ZygInv, HookInv, Unhooked, OutOfCall, UnmapClean
<1> QED BY <1>1, ZygiskInvariant, PTL

\* An app on the enforced denylist has no module in it, and an app whose mounts are to be
\* reverted does not keep those of magiskd in a namespace of its own, if the hook of
\* unshare, which is where that is done, could be installed.
THEOREM DenyListRespected ==
  ASSUME "unshare" \notin MayMiss
  PROVE  ZygiskSpec => []DenyRespected
<1>1. ZygInv => DenyRespected
  BY DEF ZygInv, ZygTypes, DenyInv, DenyRespected
<1> QED BY <1>1, ZygiskInvariant, PTL

\* The zygote itself never has a module in it and stays hooked, as long as no fork fails:
\* after a failed one fork_pre goes on as if it were the child.
THEOREM ZygoteIsUntouched ==
  ASSUME ~ForkFails
  PROVE  ZygiskSpec => []ZygoteUntouched
<1>1. ZygInv => ZygoteUntouched
  BY DEF ZygInv, HookInv, ForkInv, ZygoteUntouched
<1> QED BY <1>1, ZygiskInvariant, PTL

\* The zygote never finds a descriptor that it does not know, and sanitize_fds closes none
\* that exempt_fd promised to keep, as long as no fork fails and the hook that closes the
\* log could be installed.
THEOREM FdsAreSanitized ==
  ASSUME ~ForkFails, "__android_log_close" \notin MayMiss
  PROVE  ZygiskSpec => []FdsSanitized
<1>1. Closes
  BY DEF Closes
<1>2. ZygiskInit => ZygInv /\ FdInv
  BY DEF ZygiskInit, ZygInv, ZygTypes, HookInv, DenyInv, ForkInv, FdInv, Unhooked, InCall, OutOfCall
<1>3. ZygInv /\ FdInv /\ [ZygiskNext]_zygVars => (ZygInv /\ FdInv)'
  BY <1>1, TypesStep, HookStep, DenyStep, ForkStep, FdStep, ZygStutters DEF ZygInv
<1>4. ZygInv /\ FdInv => FdsSanitized
  BY DEF ZygInv, ZygTypes, FdInv, FdsSanitized
<1> QED BY <1>2, <1>3, <1>4, PTL DEF ZygiskSpec
=============================================================================

------------------------------- MODULE Zygisk -------------------------------
(***************************************************************************)
(* Zygisk inside the zygote: the hooks of core/zygisk/hook.cpp, the        *)
(* ZygiskContext of one intercepted call (core/zygisk/module.cpp) and the  *)
(* life of a Zygisk module in it.                                          *)
(*                                                                         *)
(* One process is followed from its start.  Where it forks the behaviour   *)
(* goes on as the parent or as the child, so the behaviours are the paths  *)
(* through the tree of processes.  `role' is what the process really is;   *)
(* the code has ctx.pid to go by.                                          *)
(***************************************************************************)
EXTENDS Integers

CONSTANTS
  Modules,       \* the modules in the list of magiskd
  Fds,           \* descriptors the modules may open
  MayMiss,       \* PLT symbols that lsplt may fail to find
  ForkFails      \* whether fork() may fail

ASSUME FdsAssumption == {"base", "logd"} \intersect Fds = {}

Symbols == {"dlclose", "fork", "unshare", "selinux_android_setcontext",
            "strdup", "__android_log_close"}
Unloader == "pthread_attr_destroy"
Families == {"fork_app", "specialize_app", "fork_server"}
Info == {"ProcessOnDenyList", "DenyListEnforced", "ProcessIsMagiskApp"}
UNMOUNT_MASK == {"ProcessOnDenyList", "DenyListEnforced"}
Options == {"FORCE_DENYLIST_UNMOUNT", "DLCLOSE_MODULE_LIBRARY"}
Pids == IF ForkFails THEN {-1, 0, 1} ELSE {0, 1}   \* 1: any child of the parent

VARIABLES
  at, role,      \* the next step, and "zygote", "usap" or "child"
  lib,           \* our library: "absent", "mapped", "unmapped"
  plt,           \* the PLT symbols bound to our functions
  hook,          \* *g_hook
  jni,           \* the implementation of each family of methods of Zygote
  ctx,           \* *g_ctx
  fds,           \* the open descriptors
  mods,          \* libraries and API tables of the modules
  sigchld,       \* whether SIGCHLD is blocked
  ns,            \* the mount namespace: "shared", "private", "reverted"
  told,          \* what magiskd answered: info_flags, or {"none"}
  unloaded,      \* modules with the "unloaded" marker
  rejected       \* the zygote found a descriptor it does not know

zygProc == <<at, role, lib, plt, hook, jni>>
zygVars == <<zygProc, ctx, fds, mods, sigchld, ns, told, unloaded, rejected>>

NoCtx == [call |-> "none"]
is_child == ctx.pid <= 0
zygisk_should_load_module(flags) ==
  ~ UNMOUNT_MASK \subseteq flags /\ "ProcessIsMagiskApp" \notin flags

ZygiskInit ==
  /\ at = "start" /\ role = "zygote" /\ lib = "absent" /\ plt = {}
  /\ hook = [alive |-> FALSE]
  /\ jni \in {[f \in Families |-> IF f \in present THEN "orig" ELSE "absent"] :
                present \in {Families, Families \ {"specialize_app"}}}
  /\ ctx = NoCtx /\ fds = {"base"}
  /\ mods = [mapped |-> {}, api |-> {}, unload |-> {}]
  /\ sigchld = FALSE /\ ns = "shared" /\ told = {"none"}
  /\ unloaded = {} /\ rejected = FALSE

---------------------------------------------------------------------------
\* Installing the hooks.

\* hook_plt: what CommitHook could not bind is erased from plt_backup.
hook_plt(missed) ==
  /\ plt' = Symbols \ missed
  /\ hook' = [alive |-> TRUE, backup |-> Symbols \ missed,
              self_handle |-> FALSE, runtime_callbacks |-> FALSE,
              should_unmap |-> FALSE, fnPtr |-> [f \in Families |-> "ours"]]

\* isCompatibleWith of NativeBridgeItf; it logs, so the log pipe opens.
hook_entry ==
  /\ at = "start" /\ at' = "bridge" /\ lib' = "mapped"
  /\ \E missed \in SUBSET MayMiss : hook_plt(missed)
  /\ fds' = fds \union {"logd"}
  /\ UNCHANGED <<role, jni, ctx, mods, sigchld, ns, told, unloaded, rejected>>

\* The callbacks are searched for on the stack of LoadNativeBridge.
post_native_bridge_load ==
  /\ at = "bridge" /\ at' = "vm"
  /\ \E found \in BOOLEAN :
       hook' = [hook EXCEPT !.self_handle = TRUE, !.runtime_callbacks = found]
  /\ UNCHANGED <<role, lib, plt, jni, ctx, fds, mods, sigchld, ns, told,
                 unloaded, rejected>>

\* register_jni_methods: bind every family with a pointer in the tables;
\* RegisterNatives fails for one that class Zygote does not have.
register_jni_methods(now, ptr) ==
  [f \in Families |-> IF ptr[f] = "null" \/ now[f] = "absent" THEN now[f] ELSE ptr[f]]

\* hook_jni_methods: bind our methods and keep the old pointers.
hook_jni_methods(hooked) ==
  /\ jni' = [f \in Families |-> IF f \in hooked THEN "ours" ELSE jni[f]]
  /\ hook' = [hook EXCEPT !.fnPtr =
       [f \in Families |-> IF f \in hooked THEN jni[f] ELSE @[f]]]

\* strdup("com.android.internal.os.ZygoteInit").  A method of a family whose
\* signature is in no table undoes the replacements made before it.
hook_zygote_jni ==
  /\ at = "vm"
  /\ UNCHANGED <<role, lib, plt, ctx, fds, mods, sigchld, ns, told,
                 unloaded, rejected>>
  /\ \/ \* strdup is not hooked, or there is no JavaVM
        at' = "idle" /\ UNCHANGED <<hook, jni>>
     \/ /\ "strdup" \in plt /\ ~hook.runtime_callbacks    \* null is called
        /\ at' = "crashed" /\ UNCHANGED <<hook, jni>>
     \/ /\ "strdup" \in plt /\ hook.runtime_callbacks
        /\ at' = "idle"
        /\ \/ hook_jni_methods({f \in Families : jni[f] = "orig"})
           \/ /\ hook' = [hook EXCEPT !.fnPtr = [f \in Families |-> "null"]]
              /\ UNCHANGED jni

---------------------------------------------------------------------------
\* The replaced methods of class Zygote.

ZygiskContext(call, ignore) ==
  [call |-> call, pid |-> -1, flags |-> {}, fd |-> FALSE, info |-> {},
   modules |-> {}, todo |-> {}, allowed |-> {}, exempted |-> {},
   promised |-> {}, ignore |-> ignore]

\* The flag that each native*_pre raises first, and where it goes from there.
nativeForkAndSpecialize_pre(c) ==
  /\ ctx' = [c EXCEPT !.flags = {"APP_FORK_AND_SPECIALIZE"}]
  /\ at' = "fork_pre"

nativeSpecializeAppProcess_pre(c) ==
  /\ ctx' = [c EXCEPT !.flags = {"SKIP_CLOSE_LOG_PIPE"}]
  /\ at' = "get_info"

nativeForkSystemServer_pre(c) ==
  /\ ctx' = [c EXCEPT !.flags = {"SERVER_FORK_AND_SPECIALIZE"}]
  /\ at' = "fork_pre"

\* The replacement of a family runs in a process that has not called it yet.
Called(who, family) ==
  /\ at = "idle" /\ role = who /\ jni[family] = "ours"
  /\ UNCHANGED <<role, lib, plt, hook, jni, fds, mods, sigchld, ns, told,
                 unloaded, rejected>>

\* From Android 8 on the method has an argument fds_to_ignore.
nativeForkAndSpecialize ==
  /\ Called("zygote", "fork_app")
  /\ \E ignore \in {<<>>, <<{}>>} :
       nativeForkAndSpecialize_pre(ZygiskContext("fork_app", ignore))

nativeSpecializeAppProcess ==
  /\ Called("usap", "specialize_app")
  /\ nativeSpecializeAppProcess_pre(ZygiskContext("specialize_app", <<>>))

nativeForkSystemServer ==
  /\ Called("zygote", "fork_server")
  /\ nativeForkSystemServer_pre(ZygiskContext("fork_server", <<>>))

\* The zygote compares its descriptors with those it knows.
FdTableCheck(open, ignored) == rejected' = (rejected \/ ~ open \subseteq {"base"} \union ignored)

\* new_android_log_close
android_log_close(open, flags) ==
  IF "__android_log_close" \in plt /\ "SKIP_CLOSE_LOG_PIPE" \notin flags
  THEN open \ {"logd"} ELSE open

\* nativeForkUsap is not replaced; g_ctx is null in the hooks it reaches.
nativeForkUsap ==
  /\ at = "idle" /\ role = "zygote" /\ lib = "mapped"
  /\ fds' = android_log_close(fds, {}) /\ FdTableCheck(fds', {})
  /\ role' \in {"zygote", "usap"}
  /\ UNCHANGED <<at, lib, plt, hook, jni, ctx, mods, sigchld, ns, told, unloaded>>

---------------------------------------------------------------------------
\* Before the original method.

\* Fault: the zygote goes on like its child.
fork_pre_NoReturn ==
  /\ at = "fork_pre" /\ at' = "get_info" /\ sigchld' = TRUE
  /\ \E pid \in Pids :
       /\ role' = IF pid = 0 THEN "child" ELSE role
       /\ ctx' = [ctx EXCEPT !.pid = pid, !.allowed = fds \ {"logd"}]
  /\ UNCHANGED <<lib, plt, hook, jni, fds, mods, ns, told, unloaded, rejected>>

fork_pre ==
  /\ at = "fork_pre" /\ sigchld' = TRUE
  /\ \E pid \in Pids :
       /\ role' = IF pid = 0 THEN "child" ELSE role
       /\ IF pid > 0
          THEN at' = "sanitize_fds" /\ ctx' = [ctx EXCEPT !.pid = pid] /\ fds' = fds
          ELSE /\ at' = "get_info"
               /\ ctx' = [ctx EXCEPT !.pid = pid, !.allowed = fds \ {"logd"}]
               /\ fds' \in {fds, fds \union {"logd"}}     \* zygisk_get_logd
  /\ UNCHANGED <<lib, plt, hook, jni, mods, ns, told, unloaded, rejected>>

AfterPre == IF ctx.call = "specialize_app" THEN "orig_unshare" ELSE "sanitize_fds"

\* The daemon does not answer (and no flag is set), or it sends the flags and
\* then the modules.  The result is <<answered, flags>>.
get_module_info == {<<FALSE, {}>>} \union {<<TRUE, info>> : info \in SUBSET Info}

\* What both kinds of process do with the answer a; run: modules are loaded.
Informed(a, flags, run) ==
  /\ told' = IF a[1] THEN a[2] ELSE {"none"}
  /\ ctx' = [ctx EXCEPT !.fd = a[1], !.info = a[2], !.flags = @ \union flags]
  /\ at' = IF run /\ a[1] /\ zygisk_should_load_module(a[2]) /\ Modules # {}
           THEN "onLoad" ELSE AfterPre
  /\ UNCHANGED <<role, lib, plt, hook, jni, fds, mods, sigchld, ns, unloaded,
                 rejected>>

app_specialize_pre ==
  /\ at = "get_info" /\ ctx.call # "fork_server"
  /\ \E a \in get_module_info :
       LET revert == UNMOUNT_MASK \subseteq a[2]
       IN Informed(a, {"APP_SPECIALIZE"} \union
                      (IF revert THEN {"DO_REVERT_UNMOUNT"} ELSE {}), ~revert)

server_specialize_pre ==
  /\ at = "get_info" /\ ctx.call = "fork_server"
  /\ \E a \in get_module_info : Informed(a, {}, TRUE)

\* run_modules_pre up to onLoad: some libraries open, some of those have an
\* entry and fill in their table (RegisterModuleImpl), some of those are
\* valid.  In system_server the ids that failed go back to magiskd, which
\* leaves the "unloaded" marker.
onLoad ==
  /\ at = "onLoad"
  /\ \E open \in SUBSET Modules : \E valid \in SUBSET open :
       /\ mods' = [mods EXCEPT !.mapped = @ \union open, !.api = valid]
       /\ ctx' = [ctx EXCEPT !.modules = valid, !.todo = valid]
       /\ unloaded' = IF ctx.call = "fork_server" THEN unloaded \union (Modules \ open)
                      ELSE unloaded
       /\ at' = IF valid = {} THEN AfterPre ELSE "callbacks"
  /\ UNCHANGED <<role, lib, plt, hook, jni, fds, sigchld, ns, told, rejected>>

can_exempt_fd == "APP_FORK_AND_SPECIALIZE" \in ctx.flags /\ ctx.ignore # <<>>

\* exempt_fd: <<what it returns, exempted_fds after it>>
exempt_fd(asked) ==
  IF {"POST_SPECIALIZE", "SKIP_CLOSE_LOG_PIPE"} \intersect ctx.flags # {}
  THEN <<TRUE, ctx.exempted>>
  ELSE <<can_exempt_fd, IF can_exempt_fd THEN ctx.exempted \union asked ELSE ctx.exempted>>

\* setOption: the flag the options raise, and the modules to unload
Raised(opts) ==
  IF "FORCE_DENYLIST_UNMOUNT" \in opts THEN {"DO_REVERT_UNMOUNT"} ELSE {}
setOption(m, opts) ==
  IF "DLCLOSE_MODULE_LIBRARY" \in opts
  THEN [mods EXCEPT !.unload = @ \union {m}] ELSE mods

\* preAppSpecialize or preServerSpecialize of one module.  It may open
\* descriptors, exempt some of them, and set options.
PreCallback(m) ==
  /\ at = "callbacks" /\ m \in ctx.todo
  /\ \E open \in SUBSET (Fds \ fds), opts \in SUBSET Options :
     \E asked \in SUBSET open :
       LET ex == exempt_fd(asked) IN
         /\ fds' = fds \union open
         /\ ctx' = [ctx EXCEPT !.todo = @ \ {m}, !.exempted = ex[2],
              !.promised = IF ex[1] THEN @ \union asked ELSE @,
              !.flags = @ \union Raised(opts)]
         /\ mods' = setOption(m, opts)
  /\ at' = IF ctx.todo = {m} THEN AfterPre ELSE at
  /\ UNCHANGED <<role, lib, plt, hook, jni, sigchld, ns, told, unloaded, rejected>>

\* Fault: only the log pipe is closed.
sanitize_fds_LogOnly ==
  /\ at = "sanitize_fds" /\ at' = "orig_check"
  /\ fds' = fds \ {"logd"}
  /\ UNCHANGED <<role, lib, plt, hook, jni, ctx, mods, sigchld, ns, told, unloaded,
                 rejected>>

sanitize_fds ==
  /\ at = "sanitize_fds" /\ at' = "orig_check"
  /\ LET add == is_child /\ can_exempt_fd /\ ctx.exempted # {}
         allowed == IF add THEN ctx.allowed \union ctx.ignore[1] \union ctx.exempted
                    ELSE ctx.allowed
     IN /\ fds' = (fds \ {"logd"}) \intersect (IF is_child THEN allowed ELSE fds)
        /\ ctx' = [ctx EXCEPT !.allowed = allowed,
             !.ignore = IF add THEN <<@[1] \union ctx.exempted>> ELSE @]
  /\ UNCHANGED <<role, lib, plt, hook, jni, mods, sigchld, ns, told, unloaded,
                 rejected>>

---------------------------------------------------------------------------
\* The original method, as far as it reaches the hooks.

\* It closes the log and compares the descriptors before it forks.
OrigCheck ==
  /\ at = "orig_check" /\ at' = "orig_fork"
  /\ fds' = android_log_close(fds, ctx.flags)
  /\ FdTableCheck(fds', UNION {ctx.ignore[i] : i \in DOMAIN ctx.ignore})
  /\ UNCHANGED <<role, lib, plt, hook, jni, ctx, mods, sigchld, ns, told, unloaded>>

\* new_fork: the pid fork_pre got, or a fork where it got none.
OrigFork ==
  /\ at = "orig_fork"
  /\ \E pid \in IF ctx.pid >= 0 THEN {ctx.pid} ELSE Pids :
       /\ role' = IF pid = 0 THEN "child" ELSE role
       /\ at' = IF pid = 0 THEN "orig_unshare" ELSE "post"
  /\ UNCHANGED <<lib, plt, hook, jni, ctx, fds, mods, sigchld, ns, told, unloaded,
                 rejected>>

\* Fault: the option of a module is not looked at.
OrigUnshare_ListOnly ==
  /\ at = "orig_unshare" /\ at' = "orig_setcontext"
  /\ \/ ns' = ns
     \/ ns' = IF "unshare" \in plt /\ UNMOUNT_MASK \subseteq ctx.info
              THEN "reverted" ELSE "private"
  /\ UNCHANGED <<role, lib, plt, hook, jni, ctx, fds, mods, sigchld, told, unloaded,
                 rejected>>

\* new_unshare: not every process gets a namespace of its own.
OrigUnshare ==
  /\ at = "orig_unshare" /\ at' = "orig_setcontext"
  /\ \/ ns' = ns
     \/ ns' = IF "unshare" \in plt /\ "DO_REVERT_UNMOUNT" \in ctx.flags
              THEN "reverted" ELSE "private"
  /\ UNCHANGED <<role, lib, plt, hook, jni, ctx, fds, mods, sigchld, told, unloaded,
                 rejected>>

\* new_selinux_android_setcontext fetches the log pipe a last time.
OrigSetContext ==
  /\ at = "orig_setcontext" /\ at' = "post"
  /\ fds' \in {fds, IF "selinux_android_setcontext" \in plt
                    THEN fds \union {"logd"} ELSE fds}
  /\ UNCHANGED <<role, lib, plt, hook, jni, ctx, mods, sigchld, ns, told, unloaded,
                 rejected>>

---------------------------------------------------------------------------
\* After the original method.

\* run_modules_post and tryUnload.  A post callback may still ask for dlclose;
\* the other option comes too late to matter.
run_modules_post ==
  \E more \in SUBSET ctx.modules :
    /\ mods' = [mods EXCEPT !.unload = @ \union more,
                            !.mapped = @ \ (mods.unload \union more)]
    /\ ctx' = [ctx EXCEPT !.flags = @ \union {"POST_SPECIALIZE"}]

\* nativeSpecializeAppProcess_post
SpecializePost ==
  /\ at = "post" /\ ctx.call = "specialize_app" /\ at' = "destroy"
  /\ run_modules_post
  /\ UNCHANGED <<role, lib, plt, hook, jni, fds, sigchld, ns, told, unloaded,
                 rejected>>

\* fork_post unblocks SIGCHLD.
fork_post == sigchld' = FALSE

\* nativeForkAndSpecialize_post and nativeForkSystemServer_post
ForkPost ==
  /\ at = "post" /\ ctx.call # "specialize_app" /\ at' = "destroy"
  /\ IF is_child THEN run_modules_post ELSE UNCHANGED <<mods, ctx>>
  /\ fork_post
  /\ UNCHANGED <<role, lib, plt, hook, jni, fds, ns, told, unloaded, rejected>>

\* hook_unloader; bound or not, the symbol stays in plt_backup.
hook_unloader(h) ==
  /\ \E bound \in BOOLEAN : plt' = IF bound THEN plt \union {Unloader} ELSE plt
  /\ hook' = [h EXCEPT !.backup = @ \union {Unloader}]

\* ~ZygiskContext
Destroy ==
  /\ at = "destroy" /\ ctx' = NoCtx
  /\ at' = IF role = "zygote" THEN "idle" ELSE "app"
  /\ IF ~is_child THEN UNCHANGED <<plt, hook, jni, fds, mods>>
     ELSE /\ fds' = fds \ {"logd"}
          /\ mods' = [mods EXCEPT !.api = @ \ ctx.modules]
          /\ jni' = register_jni_methods(jni, hook.fnPtr)
          /\ hook_unloader([hook EXCEPT !.should_unmap = TRUE])
  /\ UNCHANGED <<role, lib, sigchld, ns, told, unloaded, rejected>>

\* Fault: the library goes even if lsplt failed.
pthread_attr_destroy_Always ==
  /\ at \in {"app", "idle"} /\ Unloader \in plt /\ hook.alive
  /\ plt' \in {plt \ hook.backup, plt}
  /\ hook' = [hook EXCEPT !.alive = FALSE] /\ lib' = "unmapped"
  /\ UNCHANGED <<at, role, jni, ctx, fds, mods, sigchld, ns, told, unloaded, rejected>>

\* new_pthread_attr_destroy on the main thread.  lsplt may fail to put some
\* symbols back; then the library stays, but g_hook is deleted all the same,
\* and the next call reads freed memory.
pthread_attr_destroy ==
  /\ at \in {"app", "idle"} /\ Unloader \in plt
  /\ IF ~hook.alive THEN at' = "undefined" /\ UNCHANGED <<lib, plt, hook>>
     ELSE \E back \in {hook.backup, hook.backup \ {"fork"}, {}} :
            /\ plt' = plt \ back
            /\ hook' = [hook EXCEPT !.alive = FALSE,
                                    !.should_unmap = (back = hook.backup)]
            /\ lib' = IF back = hook.backup THEN "unmapped" ELSE lib
            /\ at' = at
  /\ UNCHANGED <<role, jni, ctx, fds, mods, sigchld, ns, told, unloaded, rejected>>

ZygiskNext ==
  \/ hook_entry \/ post_native_bridge_load \/ hook_zygote_jni
  \/ nativeForkAndSpecialize \/ nativeSpecializeAppProcess
  \/ nativeForkSystemServer \/ nativeForkUsap
  \/ fork_pre \/ app_specialize_pre \/ server_specialize_pre \/ onLoad
  \/ \E m \in Modules : PreCallback(m)
  \/ sanitize_fds \/ OrigCheck \/ OrigFork \/ OrigUnshare \/ OrigSetContext
  \/ SpecializePost \/ ForkPost \/ Destroy \/ pthread_attr_destroy

ZygiskSpec == ZygiskInit /\ [][ZygiskNext]_zygVars

---------------------------------------------------------------------------
\* Once the library is unmapped nothing in the process points into it: no
\* PLT entry, no native method of class Zygote, no API table of a module
\* (~ZygiskContext and restore_plt_hook come before the dlclose of
\* new_pthread_attr_destroy).
UnmapClean ==
  lib = "unmapped" =>
    plt = {} /\ mods.api = {} /\ \A f \in Families : jni[f] # "ours"

\* sanitize_fds, new_android_log_close: the zygote never finds a descriptor
\* that it does not know, since what Zygisk and the modules opened is closed,
\* or listed in fds_to_ignore, before the original method looks; and one for
\* which exempt_fd returned true is not closed by Zygisk itself.
FdsSanitized ==
  /\ ~rejected
  /\ ctx # NoCtx => ctx.promised \subseteq fds

\* An app on the enforced denylist, or one a module forced to be treated so,
\* does not keep the mounts of magiskd in a namespace of its own, and an app
\* on the enforced denylist never has a module in it.
DenyRespected ==
  /\ UNMOUNT_MASK \subseteq told /\ ctx # NoCtx /\ ctx.call # "fork_server" =>
       mods.mapped = {}
  /\ ctx # NoCtx /\ "DO_REVERT_UNMOUNT" \in ctx.flags => ns # "private"

\* "Do our own fork before loading any 3rd party code": the zygote itself
\* never has a module in it, and stays hooked for the apps to come.
ZygoteUntouched ==
  role = "zygote" =>
    /\ mods.mapped = {}
    /\ lib = "mapped" => hook.alive /\ ~hook.should_unmap
=============================================================================

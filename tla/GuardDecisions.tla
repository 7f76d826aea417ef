--------------------------- MODULE GuardDecisions ---------------------------
(***************************************************************************)
(* What the guards decide about one call: shell_guard, com_guard,          *)
(* service_guard, alpc_guard (winrsbox-hook/src/ipc/), ui_guard, net_hooks,*)
(* system_guard (src/system/), and the calls of token_guard (src/proc/)    *)
(* and inject_guard (src/memory/) that name a thread or a token, and       *)
(* hook_nt_create_user_process (src/core/hooks/spawn.rs) up to the call.   *)
(* A string, a GUID, a port name, a window, an address or the owner of a   *)
(* thread is the class the guard sorts it into; a decision is "pass",      *)
(* "refuse" or "kill".  Install is what each guard hooks: entry points the *)
(* system may lack are reported as install errors or skipped silently.     *)
(***************************************************************************)
EXTENDS Naturals, FiniteSets

(***************************************************************************)
(* shell_guard.  Strings: absent, unreadable, without an end within the    *)
(* limit (or not convertible), plain, beginning with or holding a denied   *)
(* scheme, or with letters outside ASCII before the colon.                 *)
(***************************************************************************)
ShellString == {"null", "unreadable", "long", "plain", "scheme", "unicode"}
Verb == {"null", "open", "runas", "explore", "custom", "long"}
FMask == {"none", "classkey", "idlist", "doenvsubst"}

read_lpcstr(s) ==
    CASE s \in {"null", "unreadable"} -> "Absent"
      [] s = "long"                   -> "Unterminated"
      [] OTHER                        -> s

uninspected_deny_reason(q) ==
    \E s \in {q.verb, q.file, q.params} : read_lpcstr(s) = "Unterminated"

shell_verb_deny_reason(verb) == read_lpcstr(verb) \notin {"Absent", "open"}
is_shell_target_denied(file) == file = "scheme"
is_suspicious_unicode_scheme(file) == file = "unicode"
is_shell_params_denied(params) == params = "scheme"
shell_fmask_deny_reason(mask) == mask # "none"

shell_deny_reason(q) ==
    \/ shell_verb_deny_reason(q.verb)
    \/ is_shell_target_denied(q.file)
    \/ is_suspicious_unicode_scheme(q.file)
    \/ is_shell_params_denied(q.params)

shell_execute_w_deny(q) == uninspected_deny_reason(q) \/ shell_deny_reason(q)
shell_execute_a_deny(q) == uninspected_deny_reason(q) \/ shell_deny_reason(q)

(* Only a structure long enough to hold lpParameters is read.               *)
shell_execute_ex_w_deny(q) ==
    /\ q.size = "full"
    /\ uninspected_deny_reason(q) \/ shell_fmask_deny_reason(q.mask) \/ shell_deny_reason(q)

shell_execute_ex_a_deny(q) ==
    /\ q.size = "full"
    /\ uninspected_deny_reason(q) \/ shell_fmask_deny_reason(q.mask) \/ shell_deny_reason(q)

PlainShell == [verb |-> "open", file |-> "plain", params |-> "null", mask |-> "none", size |-> "full"]

(* Requests that differ from the plain one in one argument.                 *)
ShellRequest ==
    {[PlainShell EXCEPT !.verb = v] : v \in Verb}
    \cup {[PlainShell EXCEPT !.file = s] : s \in ShellString}
    \cup {[PlainShell EXCEPT !.params = s] : s \in ShellString \ {"unicode"}}
    \cup {[PlainShell EXCEPT !.mask = m] : m \in FMask}
    \cup {[PlainShell EXCEPT !.size = "short", !.file = "scheme"]}

(***************************************************************************)
(* com_guard: classes that are allowed, refused, or end the process.       *)
(***************************************************************************)
ClassId == {"null", "allowed", "denied", "fatal"}

check_denylist(clsid) ==
    CASE clsid = "fatal"  -> "kill"
      [] clsid = "denied" -> "refuse"
      [] OTHER            -> "pass"

WinRtClass == {"undecodable", "allowed", "denied"}
is_winrt_class_denied(class) == class = "denied"
ro_activation_deny(class) == class # "undecodable" /\ is_winrt_class_denied(class)

(***************************************************************************)
(* service_guard: rights asked of the service manager and of a service     *)
(***************************************************************************)
GenericRight == {"GENERIC_READ", "GENERIC_WRITE", "GENERIC_EXECUTE", "GENERIC_ALL"}
SCM_DANGEROUS == {"CREATE_SERVICE", "LOCK", "MODIFY_BOOT_CONFIG", "DELETE", "WRITE_DAC", "WRITE_OWNER"}
SERVICE_DANGEROUS == {"CHANGE_CONFIG", "START", "STOP", "PAUSE_CONTINUE", "USER_DEFINED_CONTROL",
                      "DELETE", "WRITE_DAC", "WRITE_OWNER"}
ReadRights == {"QUERY", "ENUMERATE", "CONNECT"}
ScmRight == SCM_DANGEROUS \cup ReadRights \cup GenericRight \cup {"MAXIMUM_ALLOWED"}
ServiceRight == SERVICE_DANGEROUS \cup ReadRights \cup GenericRight \cup {"MAXIMUM_ALLOWED"}

scm_map_generic(access) ==
    (access \ GenericRight)
    \cup (IF "GENERIC_READ" \in access THEN {"ENUMERATE", "QUERY"} ELSE {})
    \cup (IF "GENERIC_WRITE" \in access THEN {"CREATE_SERVICE", "MODIFY_BOOT_CONFIG"} ELSE {})
    \cup (IF "GENERIC_EXECUTE" \in access THEN {"CONNECT", "LOCK"} ELSE {})
    \cup (IF "GENERIC_ALL" \in access THEN SCM_DANGEROUS \cup ReadRights ELSE {})

service_map_generic(access) ==
    (access \ GenericRight)
    \cup (IF "GENERIC_READ" \in access THEN {"QUERY", "ENUMERATE"} ELSE {})
    \cup (IF "GENERIC_WRITE" \in access THEN {"CHANGE_CONFIG"} ELSE {})
    \cup (IF "GENERIC_EXECUTE" \in access THEN {"START", "STOP", "PAUSE_CONTINUE", "USER_DEFINED_CONTROL"} ELSE {})
    \cup (IF "GENERIC_ALL" \in access THEN SERVICE_DANGEROUS \cup ReadRights ELSE {})

is_dangerous_scm_access(access) ==
    "MAXIMUM_ALLOWED" \in access \/ scm_map_generic(access) \cap SCM_DANGEROUS # {}

is_dangerous_service_access(access) ==
    "MAXIMUM_ALLOWED" \in access \/ service_map_generic(access) \cap SERVICE_DANGEROUS # {}

(***************************************************************************)
(* alpc_guard: a port is named by the port name, or by the object          *)
(* attributes when there is no port name.                                  *)
(***************************************************************************)
PortName == {"null", "empty", "malformed", "harmless", "denied", "escape"}

classify_port(name) ==
    CASE name = "escape" -> "kill"
      [] name = "denied" -> "refuse"
      [] OTHER           -> "pass"

try_resolve_ustr(name) ==
    CASE name \in {"null", "empty"} -> "none"
      [] OTHER                      -> name

decide_connect(name, objectName) ==
    LET resolved == IF try_resolve_ustr(name) = "none" THEN try_resolve_ustr(objectName)
                                                       ELSE try_resolve_ustr(name)
    IN  CASE resolved = "malformed" -> "refuse"
          [] resolved = "none"      -> "pass"
          [] OTHER                  -> classify_port(resolved)

decide_connect_ex(objectName) == decide_connect("null", objectName)

(***************************************************************************)
(* ui_guard: the window a call names                                       *)
(***************************************************************************)
Window == {"null", "broadcast", "gone", "own", "child", "foreign"}

classify_hwnd(w) ==
    CASE w = "null"            -> "NoTarget"
      [] w = "broadcast"       -> "SpecialDest"
      [] w = "gone"            -> "Unknown"
      [] w \in {"own", "child"} -> "OwnSandbox"
      [] w = "foreign"         -> "Foreign"

f3_denied(class) == class \in {"SpecialDest", "Unknown", "Foreign"}

(***************************************************************************)
(* net_hooks: connect                                                      *)
(***************************************************************************)
SockAddr == {"null", "otherFamily", "localhost", "host"}
BrokerAnswer == {"allow", "deny", "none"}

parse_sockaddr(a) == a \in {"localhost", "host"}
is_localhost(a) == a = "localhost"
is_connection_denied(answer) == answer # "allow"

hook_connect(a, block_localhost, answer) ==
    CASE ~parse_sockaddr(a)                     -> "pass"
      [] is_localhost(a) /\ ~block_localhost    -> "pass"
      [] is_localhost(a) /\ block_localhost     -> "refuse"
      [] OTHER -> IF is_connection_denied(answer) THEN "refuse" ELSE "pass"

(***************************************************************************)
(* token_guard: tokens and impersonation, by whose thread or process       *)
(***************************************************************************)
Owner == {"none", "self", "child", "system", "foreign"}
Privileges == {"disable_all", "malformed", "harmless", "dangerous"}

enables_dangerous_privilege(p) == p = "dangerous"
untrusted_token_owner(owner) == owner \notin {"self", "child"}
is_self_thread_impersonation(owner) == owner = "self"

(***************************************************************************)
(* inject_guard: APCs and contexts of a thread.  A guest's stack always    *)
(* holds one of its own frames.                                            *)
(***************************************************************************)
Context == {"null", "inModule", "outside", "debugOutside", "others"}

should_block_thread(owner) == owner \in {"child", "foreign"}
context_hijacks(c) == c \in {"outside", "debugOutside"}

(***************************************************************************)
(* NtCreateUserProcess, before the child exists: the image of the          *)
(* parameters, the attribute list and the environment of the child.        *)
(* "renamed" is a denied program under another name.                       *)
(***************************************************************************)
ImageName == {"unreadable", "plain", "denied", "renamed", "wslBash"}
AttributeList == {"null", "unreadable", "short", "other", "parent", "noParent", "handles",
                  "imagePlain", "imageOdd", "imageDenied"}
ChildEnv == {"noParams", "null", "unreadable", "unbounded", "plain", "config", "no_track",
             "ownSection", "otherSection"}

basename_of(image) == IF image = "denied" THEN "listed" ELSE "other"
original_filename(image) == IF image \in {"denied", "renamed"} THEN "listed" ELSE "other"
is_denied_by_names(basename, original) == basename = "listed" \/ original = "listed"
is_path_locked_wsl_bash(image) == image = "wslBash"
is_denylisted(image) ==
    \/ is_denied_by_names(basename_of(image), original_filename(image))
    \/ is_path_locked_wsl_bash(image)
extract_image_path(image) == image # "unreadable"

(* What attr_count lets the guards see of a list.                           *)
readable_region(list) == list \notin {"null", "unreadable"}
attr_count(list) == readable_region(list) /\ list # "short"
image_name_from_attr_list(list) == attr_count(list) /\ list \in {"imagePlain", "imageDenied"}
attr5_image_denied(list) == image_name_from_attr_list(list) /\ list = "imageDenied"
attribute_list_contains_parent_process(list) ==
    attr_count(list) /\ (list = "parent" \/ attr5_image_denied(list))
attribute_list_contains_handle_list(list) ==
    attr_count(list) /\ (list = "handles" \/ attr5_image_denied(list))

(* The entries of the environment that name the sandbox's variables, or     *)
(* "Err" where the block cannot be read to its end.                         *)
read_guard_env_entries(env) ==
    CASE env \in {"noParams", "null", "plain"}     -> {}
      [] env \in {"unreadable", "unbounded"}       -> {"Err"}
      [] OTHER                                     -> {env}

guard_env_mismatch(observed, trusted_no_track) ==
    \/ observed \cap {"config", "otherSection"} # {}
    \/ "no_track" \in observed /\ ~trusted_no_track

child_guard_env_violation(env, trusted_no_track) ==
    \/ read_guard_env_entries(env) = {"Err"}
    \/ guard_env_mismatch(read_guard_env_entries(env), trusted_no_track)

PlainSpawn == [image |-> "plain", list |-> "null", env |-> "plain", no_track |-> FALSE]
SpawnRequest ==
    {[PlainSpawn EXCEPT !.image = i] : i \in ImageName}
    \cup {[PlainSpawn EXCEPT !.list = l] : l \in AttributeList}
    \cup {[PlainSpawn EXCEPT !.env = e[1], !.no_track = e[2]] : e \in ChildEnv \X BOOLEAN}

hook_nt_create_user_process(q) ==
    IF \/ extract_image_path(q.image) /\ is_denylisted(q.image)
       \/ q.list # "null" /\ attribute_list_contains_parent_process(q.list)
       \/ q.list # "null" /\ attribute_list_contains_handle_list(q.list)
       \/ child_guard_env_violation(q.env, q.no_track)
    THEN "refuse" ELSE "pass"

(***************************************************************************)
(* What each guard's install hooks                                         *)
(***************************************************************************)
(* Of the file hooks only the one that creates processes is decided here.   *)
fs_hooks_install == [hooks |-> {"NtCreateUserProcess"}, reported |-> {}, silent |-> {}]
shell_guard_install ==
    [hooks |-> {"ShellExecuteW", "ShellExecuteA", "ShellExecuteExW", "ShellExecuteExA"},
     reported |-> {}, silent |-> {}]
com_guard_install ==
    LET winrt == {"RoGetActivationFactory", "RoActivateInstance"}
    IN  [hooks |-> {"CoCreateInstance", "CoCreateInstanceEx", "CoGetClassObject"} \cup winrt,
         reported |-> winrt, silent |-> {}]
service_guard_install ==
    [hooks |-> {"OpenSCManagerW", "OpenSCManagerA", "OpenServiceW", "OpenServiceA"},
     reported |-> {}, silent |-> {}]
alpc_guard_install ==
    [hooks |-> {"NtAlpcConnectPort", "NtAlpcConnectPortEx", "NtSecureConnectPort"},
     reported |-> {}, silent |-> {}]
net_hooks_install == [hooks |-> {"connect"}, reported |-> {}, silent |-> {}]
token_guard_install ==
    [hooks |-> {"NtAdjustPrivilegesToken", "NtDuplicateToken", "NtSetInformationThread",
                "NtImpersonateThread", "NtOpenThreadTokenEx"},
     reported |-> {}, silent |-> {}]
inject_guard_install ==
    [hooks |-> {"NtQueueApcThread", "NtQueueApcThreadEx", "NtSetContextThread"},
     reported |-> {}, silent |-> {"NtQueueApcThreadEx"}]
proc_guard_install ==
    LET legacy == {"NtCreateProcess", "NtCreateProcessEx"}
    IN  [hooks |-> legacy, reported |-> legacy, silent |-> {}]
system_guard_install ==
    LET all == {"NtShutdownSystem", "NtSetSystemInformation", "NtCreateDebugObject", "NtRaiseHardError",
                "NtCreateSymbolicLinkObject", "NtLoadDriver", "NtUnloadDriver"}
    IN  [hooks |-> all, reported |-> all, silent |-> {}]
(* The clipboard is hooked only where FS_SANDBOX_STRICT_CLIPBOARD is set,   *)
(* and then refused.                                                        *)
InputCall == {"SendInput", "keybd_event", "mouse_event", "BlockInput", "SetCursorPos", "NtUserSendInput"}
FindWindowCall == {"FindWindowW", "FindWindowA", "FindWindowExW", "FindWindowExA"}
PostMessageCall == {"PostMessageW", "PostMessageA"}
SendMessageCall == {"SendMessageW", "SendMessageA"}
ClipboardCall == {"OpenClipboard", "GetClipboardData"}
ui_guard_install ==
    LET all == InputCall \cup FindWindowCall \cup PostMessageCall \cup SendMessageCall \cup ClipboardCall
                 \cup {"ExitWindowsEx"}
    IN  [hooks |-> all, reported |-> all, silent |-> {}]

Install == [fs |-> fs_hooks_install, shell |-> shell_guard_install, com |-> com_guard_install,
            service |-> service_guard_install, alpc |-> alpc_guard_install, net |-> net_hooks_install, token |-> token_guard_install,
            inject |-> inject_guard_install, proc |-> proc_guard_install, system |-> system_guard_install,
            ui |-> ui_guard_install]
Api == [g \in DOMAIN Install |-> Install[g].hooks]

(* Originals that may run application code on the calling thread.           *)
CallbackCapable == Api.shell \cup Api.com \cup SendMessageCall

(***************************************************************************)
(* The hooks, outside the anti-recursion window                            *)
(***************************************************************************)
Refuse(b) == IF b THEN "refuse" ELSE "pass"

hook_shell_execute_w(q) == Refuse(shell_execute_w_deny(q))
hook_shell_execute_a(q) == Refuse(shell_execute_a_deny(q))
hook_shell_execute_ex_w(q) == Refuse(shell_execute_ex_w_deny(q))
hook_shell_execute_ex_a(q) == Refuse(shell_execute_ex_a_deny(q))
hook_co_create_instance(q) == check_denylist(q)
hook_co_create_instance_ex(q) == check_denylist(q)
hook_co_get_class_object(q) == check_denylist(q)
hook_ro_get_activation_factory(q) == Refuse(ro_activation_deny(q))
hook_ro_activate_instance(q) == Refuse(ro_activation_deny(q))
hook_open_sc_manager(q) == Refuse(is_dangerous_scm_access(q))
hook_open_service(q) == Refuse(is_dangerous_service_access(q))
hook_nt_alpc_connect_port(q) == decide_connect(q[1], q[2])
hook_nt_alpc_connect_port_ex(q) == decide_connect_ex(q[2])
hook_nt_alpc_secure_connect_port(q) == decide_connect(q[1], "null")
(* w: the window the original found, which is hidden or given.              *)
hook_find_window(w) == Refuse(f3_denied(classify_hwnd(w)))
hook_post_message(w) == Refuse(f3_denied(classify_hwnd(w)))
hook_send_message(w) == Refuse(f3_denied(classify_hwnd(w)))
hook_input == "kill"
hook_clipboard == "refuse"
hook_exit_windows_ex == "refuse"
hook_system == "refuse"
hook_nt_create_process == "refuse"
hook_nt_adjust_privileges_token(p) == Refuse(enables_dangerous_privilege(p))
hook_nt_duplicate_token(primary) == Refuse(primary)
(* q: the thread's owner, and whether a token (and not none) is set         *)
hook_nt_set_information_thread(q) == Refuse(q[2] /\ ~is_self_thread_impersonation(q[1]))
hook_nt_impersonate_thread(owner) == Refuse(untrusted_token_owner(owner))
(* q: the thread's owner, and whether the rights asked are dangerous        *)
hook_nt_open_thread_token_ex(q) == Refuse(q[2] /\ untrusted_token_owner(q[1]))
hook_nt_queue_apc_thread(owner) == IF should_block_thread(owner) THEN "kill" ELSE "pass"
hook_nt_set_context_thread(q) ==
    IF should_block_thread(q[1]) /\ context_hijacks(q[2]) THEN "kill" ELSE "pass"

(* The arguments a call of an entry point may carry.                        *)
Requests(api) ==
    CASE api \in Api.fs      -> SpawnRequest
      [] api \in Api.shell   -> ShellRequest
      [] api \in {"RoGetActivationFactory", "RoActivateInstance"} -> WinRtClass
      [] api \in {"CoCreateInstance", "CoCreateInstanceEx", "CoGetClassObject"} -> ClassId
      [] api \in {"OpenSCManagerW", "OpenSCManagerA"} -> {{r} : r \in ScmRight}
      [] api \in {"OpenServiceW", "OpenServiceA"}     -> {{r} : r \in ServiceRight}
      [] api \in Api.alpc    -> PortName \X PortName
      [] api \in FindWindowCall \cup PostMessageCall \cup SendMessageCall -> Window
      [] api \in Api.net     -> SockAddr \X BOOLEAN \X BrokerAnswer
      [] api = "NtAdjustPrivilegesToken" -> Privileges
      [] api = "NtDuplicateToken"        -> BOOLEAN
      [] api \in {"NtSetInformationThread", "NtOpenThreadTokenEx"} -> Owner \X BOOLEAN
      [] api = "NtSetContextThread"      -> Owner \X Context
      [] api \in {"NtImpersonateThread", "NtQueueApcThread", "NtQueueApcThreadEx"} -> Owner
      [] OTHER               -> {"any"}

Decision(api, q) ==
    CASE api = "NtCreateUserProcess"      -> hook_nt_create_user_process(q)
      [] api = "ShellExecuteW"            -> hook_shell_execute_w(q)
      [] api = "ShellExecuteA"            -> hook_shell_execute_a(q)
      [] api = "ShellExecuteExW"          -> hook_shell_execute_ex_w(q)
      [] api = "ShellExecuteExA"          -> hook_shell_execute_ex_a(q)
      [] api = "CoCreateInstance"         -> hook_co_create_instance(q)
      [] api = "CoCreateInstanceEx"       -> hook_co_create_instance_ex(q)
      [] api = "CoGetClassObject"         -> hook_co_get_class_object(q)
      [] api = "RoGetActivationFactory"   -> hook_ro_get_activation_factory(q)
      [] api = "RoActivateInstance"       -> hook_ro_activate_instance(q)
      [] api \in {"OpenSCManagerW", "OpenSCManagerA"} -> hook_open_sc_manager(q)
      [] api \in {"OpenServiceW", "OpenServiceA"}     -> hook_open_service(q)
      [] api = "NtAlpcConnectPort"        -> hook_nt_alpc_connect_port(q)
      [] api = "NtAlpcConnectPortEx"      -> hook_nt_alpc_connect_port_ex(q)
      [] api = "NtSecureConnectPort"      -> hook_nt_alpc_secure_connect_port(q)
      [] api \in FindWindowCall           -> hook_find_window(q)
      [] api \in PostMessageCall          -> hook_post_message(q)
      [] api \in SendMessageCall          -> hook_send_message(q)
      [] api \in InputCall                -> hook_input
      [] api \in ClipboardCall            -> hook_clipboard
      [] api = "ExitWindowsEx"            -> hook_exit_windows_ex
      [] api \in Api.system               -> hook_system
      [] api \in Api.proc                 -> hook_nt_create_process
      [] api = "connect"                  -> hook_connect(q[1], q[2], q[3])
      [] api = "NtAdjustPrivilegesToken"  -> hook_nt_adjust_privileges_token(q)
      [] api = "NtDuplicateToken"         -> hook_nt_duplicate_token(q)
      [] api = "NtSetInformationThread"   -> hook_nt_set_information_thread(q)
      [] api = "NtImpersonateThread"      -> hook_nt_impersonate_thread(q)
      [] api = "NtOpenThreadTokenEx"      -> hook_nt_open_thread_token_ex(q)
      [] api \in {"NtQueueApcThread", "NtQueueApcThreadEx"} -> hook_nt_queue_apc_thread(q)
      [] api = "NtSetContextThread"       -> hook_nt_set_context_thread(q)

(***************************************************************************)
(* What the guards promise, stated by the target of a call and not by the  *)
(* entry point it came through: the port the kernel would connect to, the  *)
(* right the service manager would grant, the class, window or host.       *)
(***************************************************************************)
PortOf(api, q) ==
    CASE api = "NtAlpcConnectPort"   -> IF q[1] \in {"null", "empty"} THEN q[2] ELSE q[1]
      [] api = "NtAlpcConnectPortEx" -> q[2]
      [] OTHER                       -> q[1]

Promised(api, q) ==
    CASE api \in Api.fs -> /\ q.image \in {"plain", "unreadable"}
                           /\ q.list \notin {"parent", "handles", "imageDenied"}
                           /\ q.env \in {"noParams", "null", "plain", "ownSection"} \/ (q.env = "no_track" /\ q.no_track)
      [] api \in Api.shell ->
            \/ api \in {"ShellExecuteExW", "ShellExecuteExA"} /\ q.size = "short"
            \/ /\ q.verb \in {"null", "open"}
               /\ q.file \in {"null", "unreadable", "plain"}
               /\ q.params \in {"null", "unreadable", "plain"}
               /\ api \in {"ShellExecuteExW", "ShellExecuteExA"} => q.mask = "none"
      [] api \in Api.com     -> q \notin {"denied", "fatal"}
      [] api \in Api.service -> q \subseteq ReadRights \cup {"GENERIC_READ"}
      [] api \in Api.alpc    -> PortOf(api, q) \in {"null", "empty", "harmless"}
      [] api \in FindWindowCall \cup PostMessageCall \cup SendMessageCall -> q \in {"null", "own", "child"}
      [] api = "connect"     -> \/ q[1] \in {"null", "otherFamily"}
                                \/ q[1] = "localhost" /\ ~q[2]
                                \/ q[1] = "host" /\ q[3] = "allow"
      [] api = "NtAdjustPrivilegesToken" -> q # "dangerous"
      [] api = "NtDuplicateToken"        -> ~q
      [] api \in {"NtSetInformationThread", "NtOpenThreadTokenEx"} -> q[1] \in {"self", "child"} \/ ~q[2]
      [] api = "NtImpersonateThread"     -> q \in {"self", "child"}
      [] api \in {"NtQueueApcThread", "NtQueueApcThreadEx"} -> q # "foreign"
      [] api = "NtSetContextThread"      -> q[1] # "foreign" \/ q[2] \notin {"outside", "debugOutside"}
      [] OTHER               -> FALSE
==============================================================================

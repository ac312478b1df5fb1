------------------------------ MODULE Taxonomy ------------------------------
(***************************************************************************)
(* The error taxonomy of a collection: what an exception raised by the SSH  *)
(* library, or a reply given by the device, is taken to mean.               *)
(* netauditor/connect.py, with the statuses of netauditor/models.py.        *)
(***************************************************************************)
EXTENDS Naturals

DeviceStatus == {"success", "unreachable", "auth_failed", "timeout",
                 "command_failed", "config_error", "error"}

RETRYABLE_STATUSES == {"unreachable", "timeout"}

-----------------------------------------------------------------------------
(* Exceptions.  A kind of exception is known to the code only through       *)
(* isinstance: `mro` gives the classes a kind is an instance of, and        *)
(* `marked` tells whether its message holds one of _UNREACHABLE_MARKERS.     *)
(* The hierarchy is the one of netmiko, paramiko and the standard library.   *)

ExceptionKinds == {"auth", "no_tcp_session", "session_timeout", "read_timeout",
                   "gaierror", "socket_timeout", "refused", "ssh",
                   "value_error", "other"}

mro == [k \in ExceptionKinds |->
          CASE k = "auth"            -> {"AuthenticationException", "SSHException"}
            [] k \in {"no_tcp_session", "session_timeout"}
                                     -> {"NetmikoTimeoutException", "SSHException"}
            [] k = "read_timeout"    -> {"ReadTimeout"}
            [] k = "gaierror"        -> {"gaierror", "OSError"}
            [] k = "socket_timeout"  -> {"TimeoutError", "OSError"}
            [] k = "refused"         -> {"ConnectionRefusedError", "OSError"}
            [] k = "ssh"             -> {"SSHException"}
            [] k = "value_error"     -> {"ValueError"}
            [] OTHER                 -> {}]

marked(kind) == kind = "no_tcp_session"

Handler(class, unless, marker, status) ==
    [class |-> class, unless |-> unless, marker |-> marker, status |-> status]

(* Mutant: SSHException, of which a netmiko timeout is one, is tried too early. *)
Handlers_SshFirst == <<
    Handler("AuthenticationException", "none", FALSE, "auth_failed"),
    Handler("SSHException",            "none", FALSE, "error"),
    Handler("NetmikoTimeoutException", "none", TRUE,  "unreachable"),
    Handler("NetmikoTimeoutException", "none", FALSE, "timeout"),
    Handler("ReadTimeout",             "none", FALSE, "command_failed"),
    Handler("gaierror",                "none", FALSE, "unreachable"),
    Handler("TimeoutError",            "none", FALSE, "timeout"),
    Handler("OSError",         "SSHException", FALSE, "unreachable"),
    Handler("ValueError",              "none", FALSE, "config_error"),
    Handler("",                        "none", FALSE, "error") >>

(* The isinstance tests of classify_exception, in the order they are tried.  *)
(* "" is the class of everything; a handler with `marker` needs the marker.  *)
Handlers == <<
    Handler("AuthenticationException", "none", FALSE, "auth_failed"),
    Handler("NetmikoTimeoutException", "none", TRUE,  "unreachable"),
    Handler("NetmikoTimeoutException", "none", FALSE, "timeout"),
    Handler("ReadTimeout",             "none", FALSE, "command_failed"),
    Handler("gaierror",                "none", FALSE, "unreachable"),
    Handler("TimeoutError",            "none", FALSE, "timeout"),
    Handler("OSError",         "SSHException", FALSE, "unreachable"),
    Handler("SSHException",            "none", FALSE, "error"),
    Handler("ValueError",              "none", FALSE, "config_error"),
    Handler("",                        "none", FALSE, "error") >>

Handles(h, kind) == /\ h.class \in mro[kind] \cup {""}
                    /\ h.unless \notin mro[kind]
                    /\ h.marker => marked(kind)

(* The first handler that applies decides; the last one applies to all.      *)
classify_exception(kind) ==
    LET applies == {i \in DOMAIN Handlers : Handles(Handlers[i], kind)}
    IN  Handlers[CHOOSE i \in applies : \A j \in applies : i <= j].status

-----------------------------------------------------------------------------
(* Replies.  A reply is its number of lines once stripped, and whether its   *)
(* first line starts with % or holds one of DEVICE_ERROR_MARKERS.            *)

MAX_ERROR_REPLY_LINES == 5

ReplyTypes == [lines : Nat, rejects : BOOLEAN]

output_problem(reply) ==
    \/ reply.lines = 0
    \/ reply.lines <= MAX_ERROR_REPLY_LINES /\ reply.rejects
=============================================================================

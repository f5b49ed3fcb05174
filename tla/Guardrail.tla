------------------------------- MODULE Guardrail -------------------------------
(***************************************************************************)
(* The allow list of code that may be instrumented on user devices, as     *)
(* pure operators.                                                         *)
(*                                                                         *)
(* A full method name is a sequence of parts: identifiers and the          *)
(* separators between them.  An identifier is never a proper prefix of a   *)
(* part, so "OomAdjusterWithSuffix" and "OomAdjuster" are different parts, *)
(* and the text comparison of the code is a comparison of parts.           *)
(***************************************************************************)
EXTENDS Naturals, Sequences

CONSTANTS
    AllowedPrefixes,    \* ALLOWED_METHOD_PREFIXES, each a sequence of parts
    NoName              \* an optional field of the config that is not set

Delimiters == {"(", ".", "$"}

StartsWith(name, prefix) ==
    Len(prefix) <= Len(name) /\ SubSeq(name, 1, Len(prefix)) = prefix

(* get_full_method_name; NoName stands for its error results.              *)
FullMethodName(probe, offsetsApi) ==
    IF ~offsetsApi THEN probe.signature
    ELSE IF probe.class = NoName \/ probe.method = NoName THEN NoName
    ELSE probe.class \o <<".">> \o probe.method

NameAllowed(name) ==
    \E prefix \in AllowedPrefixes :
        \/ name = prefix
        \/ \E d \in Delimiters : StartsWith(name, Append(prefix, d))

ProbeAllowed(probe, offsetsApi) ==
    LET name == FullMethodName(probe, offsetsApi)
    IN  name # NoName /\ NameAllowed(name)

(* is_allowed, its errors and its Ok(false) taken together: the daemon     *)
(* exits on both.  Every task is looked at, also those that never run.     *)
IsAllowed(config, userBuild, offsetsApi) ==
    userBuild =>
        \A t \in DOMAIN config : \A k \in DOMAIN config[t].probes :
            ProbeAllowed(config[t].probes[k], offsetsApi)

===============================================================================

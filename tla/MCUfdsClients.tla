--------------------------- MODULE MCUfdsClients ---------------------------
(***************************************************************************)
(* Instances of UfdsClients for TLC: both deployments, with plug-ins that  *)
(* only the file names, that both name and that only UFDS names,           *)
(* and a file that lists one twice.                                        *)
(***************************************************************************)
EXTENDS UfdsClients, TLC

File(name, enabled) == [name |-> name, enabled |-> enabled, from |-> "file"]

Ufds(name, enabled) == [name |-> name, enabled |-> enabled, from |-> "ufds"]

MCFiles == {{}, {<<File("capi_limits", TRUE), File("machine_email", TRUE)>>},
            {<<File("capi_limits", TRUE), File("capi_limits", FALSE)>>}}

MCUfds == {<<>>, <<Ufds("capi_limits", TRUE), Ufds("jpc_free_tier", TRUE)>>,
           <<Ufds("capi_limits", FALSE), Ufds("jpc_free_tier", FALSE)>>}

MCConfigs == [single: BOOLEAN, file: MCFiles, ufds: MCUfds]

\* A master UFDS of its own.
TwoUrls == [single: {FALSE}, file: {{}}, ufds: {<<>>}]

=============================================================================

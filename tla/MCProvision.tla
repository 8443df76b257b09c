---------------------------- MODULE MCProvision ----------------------------
(***************************************************************************)
(* Instances of Provision for TLC: SmartOS images, one of them in two      *)
(* versions, a Windows one, and two sizes of package.                      *)
(***************************************************************************)
EXTENDS Provision, TLC

CONSTANTS base, newer, node, windows, small, large

MCNameOf == base :> "base" @@ newer :> "base" @@ node :> "node" @@ windows :> "windows"

MCOsOf ==
    base :> "smartos" @@ newer :> "smartos" @@ node :> "smartos" @@ windows :> "windows"

MCRam == small :> 1 @@ large :> 2

MCQuota == small :> 2048 @@ large :> 1024

MCOffered == {<<base, small>>, <<base, large>>, <<newer, large>>, <<node, small>>,
              <<windows, small>>, <<windows, large>>}

MCFitting == MCOffered \ {<<windows, small>>}

Of(check, of, by, value) == [check |-> check, of |-> of, by |-> by, value |-> value]

\* Everybody: two units of memory whatever the image, one machine and a GiB of disk
\* with Windows. The account: three units of memory with "base", any number of "node",
\* so that capi_limits alone has a number for "base" and jpc_free_tier one for "node".
MCDefaults ==
    {Of("image", "any", "ram", 2), Of("os", "windows", "machines", 1),
     Of("os", "windows", "quota", 1024)}

MCCustom == {Of("image", "base", "ram", 3)}

MCLegacy == {<<"node", 0>>}

MCCapiDefaults == {<<"windows", 1>>, <<"base", 1>>}

Symmetry == Permutations(VmIds) \cup Permutations(Slots)

=============================================================================

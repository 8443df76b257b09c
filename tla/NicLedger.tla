----------------------------- MODULE NicLedger -----------------------------
(***************************************************************************)
(* What lib/nics.js promises of the NICs of an account, whoever asks for   *)
(* them and in whatever order: a NIC is entered in the ledger (NAPI)       *)
(* before it is plugged into its machine and leaves the ledger with the    *)
(* plug, and no machine has two NICs on one network.                       *)
(***************************************************************************)
CONSTANTS Vms, Networks, Macs

VARIABLES
    entries,   \* the NICs on record
    plugged    \* the pairs of a machine and the MAC of a NIC plugged into it

Entry == [mac: Macs, vm: Vms, network: Networks]

Init == entries = {} /\ plugged = {}

Enter(e) ==
    /\ \A f \in entries : f.mac # e.mac
    /\ \A f \in entries : f.vm = e.vm => f.network # e.network
    /\ entries' = entries \cup {e}
    /\ UNCHANGED plugged

\* An attempt that fails leaves the ledger as it came, never plugged.
Withdraw(e) ==
    /\ e \in entries
    /\ \A p \in plugged : p[2] # e.mac
    /\ entries' = entries \ {e}
    /\ UNCHANGED plugged

Plug(e) ==
    /\ e \in entries
    /\ \A p \in plugged : p[2] # e.mac
    /\ plugged' = plugged \cup {<<e.vm, e.mac>>}
    /\ UNCHANGED entries

\* One NIC, or all of a machine that goes.
Unplug(gone) ==
    /\ gone \subseteq plugged
    /\ plugged' = plugged \ gone
    /\ entries' = {e \in entries : <<e.vm, e.mac>> \notin gone}

Next ==
    \/ \E e \in Entry : Enter(e) \/ Withdraw(e) \/ Plug(e)
    \/ \E gone \in SUBSET plugged : Unplug(gone)

Spec == Init /\ [][Next]_<<entries, plugged>>

=============================================================================

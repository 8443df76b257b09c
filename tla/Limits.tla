------------------------------- MODULE Limits -------------------------------
(***************************************************************************)
(* Which limits the provisioning plugins apply to a machine                *)
(* (plugins/provision_limits.js, plugins/capi_limits.js).                  *)
(*                                                                         *)
(* A limit names what it checks, as the administrator's guide asks: the    *)
(* operating systems or the images of the name "of", or "any" of them.     *)
(***************************************************************************)
EXTENDS Integers, FiniteSets

CONSTANTS
    Images,        \* IMGAPI images
    NameOf,        \* [Images -> Names]: versions of an image share its name
    OsOf,          \* [Images -> Oses]
    Defaults,      \* provision_limits: the limits configured for everybody
    Custom,        \* UFDS: the "limit" values of the account
    Legacy,        \* UFDS: the account's pairs of an image name and a number
    CapiDefaults   \* capi_limits: pairs of an image name and a number

Names == {NameOf[i] : i \in Images}

Oses == {OsOf[i] : i \in Images}

Limit ==
    [check: {"os"}, of: Oses \cup {"any"}, by: {"machines", "ram", "quota"}, value: Int]
        \cup [check: {"image"}, of: Names \cup {"any"}, by: {"machines", "ram", "quota"},
              value: Int]

ASSUME LimitsAssumption ==
    /\ Defaults \subseteq Limit
    /\ Custom \subseteq Limit
    /\ Legacy \subseteq (Names \X Int)
    /\ CapiDefaults \subseteq (Names \X Int)

CatchAll(l) == l.of = "any"

Relevant(image, l) ==
    \/ CatchAll(l)
    \/ l.check = "os" /\ l.of = OsOf[image]
    \/ l.check = "image" /\ l.of = NameOf[image]

\* What capi_limits called a limit is a number of machines of an image.
Parsed ==
    Custom \cup {[check |-> "image", of |-> p[1], by |-> "machines", value |-> p[2]] :
                     p \in Legacy}

Mine(image) == {l \in Parsed : Relevant(image, l)}

Everybodys(image) == {l \in Defaults : Relevant(image, l)}

\* Mutant: the defaults win.
FilterLimitsDefaultsFirst(image) ==
    IF Everybodys(image) # {} THEN Everybodys(image) ELSE Mine(image)

\* A limit of the account that applies keeps every default out: the filter of
\* cfg_limits by what the account overrides is computed and dropped.
FilterLimits(image) ==
    IF Mine(image) # {} THEN Mine(image) ELSE Everybodys(image)

\* capi_limits: the account's number, else the default one; a default of 0 counts
\* as none.
CapiLimit(image) ==
    LET own(n) == <<NameOf[image], n>> \in Legacy
        default(n) == <<NameOf[image], n>> \in CapiDefaults /\ n # 0
    IN  IF \E p \in Legacy : own(p[2]) THEN (CHOOSE p \in Legacy : own(p[2]))[2]
        ELSE IF \E p \in CapiDefaults : default(p[2])
             THEN (CHOOSE p \in CapiDefaults : default(p[2]))[2]
             ELSE 2

-----------------------------------------------------------------------------
(* The rules of docs/admin.restdown, Appendix A.                           *)

\* A limit of the account overrides a default with the same rules.
Overrides(l, d) == l.check = d.check /\ l.of = d.of /\ l.by = d.by

\* All the limits must be satisfied, but a catch-all of the account keeps the
\* defaults out, and a limit of the account keeps the default catch-alls out.
DocumentedLimits(image) ==
    Mine(image) \cup
        {d \in Everybodys(image) :
            /\ \A l \in Mine(image) : ~CatchAll(l) /\ ~Overrides(l, d)
            /\ CatchAll(d) => Mine(image) = {}}

=============================================================================

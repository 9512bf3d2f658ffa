-------------------------------- MODULE Panel --------------------------------
(***************************************************************************)
(* The parts of the panel that share no state with each other: the         *)
(* firewall editor, the file explorer, the preview it asks for, the file   *)
(* under the audit log, and the readers of texts.  A behaviour follows one *)
(* of them (a bound: with nothing shared, an interleaving of two shows     *)
(* nothing that the two do not show apart).                                *)
(***************************************************************************)
EXTENDS Firewall, Explorer, Preview, AuditFile, Readers

VARIABLE part   \* the part the behaviour follows

panelVars == <<part, fwVars, exVars, pvVars, auVars, reVars>>

PanelInit ==
    /\ part \in {"firewall", "explorer", "preview", "audit", "readers"}
    /\ FwInit /\ ExInit /\ PvInit /\ AuInit /\ ReInit
    /\ part # "firewall" => ~active
    /\ part # "explorer" => currentPath = (CHOOSE d \in Dirs : TRUE) /\ \A e \in Entries : node[e] = "absent"
    /\ part # "preview" => file = Missing /\ ~sizeless

PanelNext ==
    /\ UNCHANGED part
    /\ \/ part = "firewall" /\ FwNext /\ UNCHANGED <<exVars, pvVars, auVars, reVars>>
       \/ part = "explorer" /\ ExNext /\ UNCHANGED <<fwVars, pvVars, auVars, reVars>>
       \/ part = "preview" /\ PvNext /\ UNCHANGED <<fwVars, exVars, auVars, reVars>>
       \/ part = "audit" /\ AuNext /\ UNCHANGED <<fwVars, exVars, pvVars, reVars>>
       \/ part = "readers" /\ ReNext /\ UNCHANGED <<fwVars, exVars, pvVars, auVars>>

PanelSpec == PanelInit /\ [][PanelNext]_panelVars
-----------------------------------------------------------------------------
(* The invariants of the firewall editor, the explorer, the preview, the file of
   the audit log and the search: their shapes, and what their properties rest on. *)
PanelInv == FwInv /\ ExInv /\ PvInv /\ AuInv /\ ReInv
=============================================================================

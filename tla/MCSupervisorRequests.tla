------------------------- MODULE MCSupervisorRequests -------------------------
(* The requests a behaviour makes come from one of two menus: those of the  *)
(* cfg, or those that change or delete the item's row.                      *)
EXTENDS MCSupervisor

VARIABLE menu

RowRequests == INSTANCE Supervisor WITH Requests <- {"delete", "update"}

MCInit == Init /\ menu \in {"process", "row"}

MCNext ==
    /\ UNCHANGED menu
    /\ \/ menu = "process" /\ Next
       \/ menu = "row" /\ RowRequests!Next

MCSpec == MCInit /\ [][MCNext]_<<vars, menu>>
=============================================================================

------------------------------- MODULE MCReports -------------------------------
(***************************************************************************)
(* Reports for TLC: a folder in another, four files of which three are   *)
(* the same, one that is a unit's; the dialogs one kind at a time, or    *)
(* all.                                                                  *)
(***************************************************************************)
EXTENDS Reports, TLC

CONSTANTS tree, sub, same1, same2, same3, unit

MCListed == <<same1, same2, same3, unit>>
MCBelow == (tree :> {tree, sub}) @@ (sub :> {sub})
MCFirstPlace == (same1 :> sub) @@ (same2 :> sub) @@ (same3 :> tree) @@ (unit :> tree)
MCContentOf == (same1 :> 1) @@ (same2 :> 1) @@ (same3 :> 1) @@ (unit :> 2)
MCGroupings ==
    {[to |-> "Documents", files |-> {same1, same2, same3}], [to |-> "2024", files |-> {same2, same3, unit}]}
MCInspections == {[dialogs |-> {"properties"}, things |-> {tree}, most |-> 2],
                  [dialogs |-> {"properties"}, things |-> {tree, unit}, most |-> 1],
                  [dialogs |-> {"duplicates"}, things |-> {tree, sub}, most |-> 2],
                  [dialogs |-> {"organize"}, things |-> {tree}, most |-> 2]}
===============================================================================

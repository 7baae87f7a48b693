------------------------------- MODULE MCListing -------------------------------
(***************************************************************************)
(* Listing and Dragging for TLC: two tabs, and two folders on two        *)
(* devices with a name in common, which has a status in one of them; a   *)
(* text that keeps it, and one that keeps nothing; a folder among the    *)
(* rows; a search that finds what is in the other folder; listings that  *)
(* fail.                                                                 *)
(***************************************************************************)
EXTENDS Dragging, TLC

CONSTANTS q1, q2, da, db, inner, server, x, y, z

MCHeld == (da :> {x, y}) @@ (db :> {x, z})
MCTouched == (da :> {x}) @@ (db :> {})
MCRecentOnes == {[name |-> y, of |-> da], [name |-> x, of |-> db]}
MCHits == (da :> {[name |-> x, of |-> db], [name |-> x, of |-> da]}) @@ (db :> {[name |-> x, of |-> db]})
MCTypedFrom == ("" :> {"t"}) @@ ("t" :> {"tx"}) @@ ("tx" :> {})
MCKeeps == ("t" :> {x}) @@ ("tx" :> {})
MCFolderOf == (<<y, da>> :> inner)
MCDeviceOf == (da :> 1) @@ (inner :> 1) @@ (db :> 2) @@ (server :> 3)
MCForeign == {{[name |-> x, of |-> da], [name |-> z, of |-> db]}}
MCOffers == {{"copy", "move"}, {"move"}}
MCViewers ==
    {[does |-> {"open", "recent", "type", "choose", "reveal"}, panes |-> {q1}, home |-> da, left |-> 4],
     [does |-> {"go", "switch", "type", "reload", "recent"}, panes |-> {q1, q2}, home |-> da, left |-> 4],
     [does |-> {"open", "recent", "type", "reveal", "fails"}, panes |-> {q1}, home |-> da, left |-> 4],
     [does |-> {"open", "reveal", "switch", "search", "fails"}, panes |-> {q1, q2}, home |-> da, left |-> 3],
     [does |-> {"search", "open", "type", "recent"}, panes |-> {q1}, home |-> da, left |-> 4],
     [does |-> {"open", "recent", "drag"}, panes |-> {q1}, home |-> da, left |-> 2]}
===============================================================================

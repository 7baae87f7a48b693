------------------------------ MODULE MCSearch ------------------------------
(***************************************************************************)
(* Instances of Search for TLC: two folders, in which names match and do *)
(* not, are kept and are not, and files have up to two lines that match. *)
(***************************************************************************)
EXTENDS Search, TLC

CONSTANTS top, sub, a, b, c

MCWalk == top :> <<a, b, c>> @@ sub :> <<c, a>>
MCLines == a :> 2 @@ b :> 0 @@ c :> 1

Free(modes, n, does, left) ==
    [modes |-> modes, searches |-> n, hits |-> Unlimited, files |-> Unlimited, does |-> does, left |-> left]
Limited(does, left) ==
    [Free({"names", "smart", "content"}, 1, does, left) EXCEPT !.hits = 2, !.files = 1]
MCUsers ==
    {Free({"smart", "content"}, 2, {"bad"}, 1),
     Limited({"drop", "cancel"}, 2),
     Limited({"cancel", "reset"}, 2),
     Free({"names"}, 1, {"open", "filter", "dismiss", "switch"}, 3),
     Free({"smart"}, 1, {"open", "filter", "dismiss"}, 3),
     Free({"content"}, 2, {"cancel", "drop"}, 1)}
===============================================================================

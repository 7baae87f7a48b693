--------------------------- MODULE MCSmbSessions ---------------------------
(***************************************************************************)
(* Scenes of SmbSessions for TLC: browsers of a connection that is       *)
(* revived or dies; two users who connect while another browses; and two *)
(* users whose logins and checks fail, with nobody browsing.             *)
(***************************************************************************)
EXTENDS SmbSessions

CONSTANTS s1, s2, u1, u2, b1, b2

Scene(shares, users, browsers, conns, revivals) ==
    [shares |-> shares, users |-> users, browsers |-> browsers, together |-> 1,
     conns |-> conns, revivals |-> revivals]
MCScenes ==
    {Scene({s1}, {u1}, {b1, b2}, 1, 1), Scene({s1, s2}, {u1}, {b1}, 1, 1),
     Scene({s1}, {u1}, {b1}, 2, 1), Scene({s1}, {u1, u2}, {b1}, 2, 0),
     Scene({s1, s2}, {u1, u2}, {}, 2, 0)}
===============================================================================

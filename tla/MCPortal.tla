------------------------------ MODULE MCPortal ------------------------------
(***************************************************************************)
(* Raven on the session bus, for TLC: dialogs for one or two calls of    *)
(* one program, or windows that programs ask to show something.  The two *)
(* sides are processes that share nothing, so one rests while the other  *)
(* runs.                                                                 *)
(***************************************************************************)
EXTENDS Chooser, Desktop

CONSTANTS c1, c2, app, fx, fall, d1, d2, here, there, locked

SmallDisk ==
    (<<>> :> "dir") @@ (<<"d">> :> "dir") @@ (<<"x">> :> "file") @@ (<<"h">> :> "file")
    @@ (<<"y">> :> "none") @@ (<<"d", "x">> :> "file") @@ (<<"d", "y">> :> "none")
SmallAccepts == (fx :> {"x"}) @@ (fall :> {"x", "y", "h"})
SmallPlaces == {<<>>, <<"d">>}
TopFolder == <<>>

Request(mode, a) ==
    [mode |-> mode, app |-> a, multiple |-> FALSE, directory |-> FALSE, filters |-> <<>>,
     filter |-> None, folder |-> None, file |-> None, name |-> None, files |-> {}]
Text(absolute, path) == [absolute |-> absolute, path |-> path]

OpenMany   == [Request("Open", app) EXCEPT !.multiple = TRUE, !.filters = <<fx, fall>>]
OpenOne    == [Request("Open", app) EXCEPT !.filter = fx]
PickFolder == [Request("Open", NoApp) EXCEPT !.directory = TRUE, !.folder = <<"d">>]
SaveHere   == [Request("Save", app) EXCEPT !.name = Text(FALSE, <<"y">>)]
SaveAgain  == [Request("Save", app) EXCEPT !.file = <<"d", "x">>, !.filters = <<fall>>]
SaveMany   == [Request("SaveFiles", NoApp) EXCEPT !.files = {"x", "y"}]
Texts == {Text(TRUE, <<"d">>), Text(TRUE, <<"d", "x">>), Text(FALSE, <<"y">>), Text(TRUE, <<"n", "x">>)}

Asking(asks, n, closes) == [asks |-> asks, texts |-> Texts, left |-> n, closes |-> closes]
NoAsker == Asking(<<>>, 0, FALSE)
MCAskers ==
    {NoAsker} \cup {Asking(c1 :> r, 3, FALSE) : r \in {OpenMany, OpenOne, PickFolder, SaveAgain, SaveMany}}
    \cup {Asking((c1 :> SaveHere) @@ (c2 :> SaveAgain), 2, FALSE),
          Asking((c1 :> OpenOne) @@ (c2 :> OpenOne), 1, TRUE),
          Asking((c1 :> SaveMany) @@ (c2 :> PickFolder), 1, TRUE)}

To(kind, path) == [kind |-> kind, path |-> path]
Uri(folder, item) == [folder |-> folder, item |-> item]
Shown == {<<Uri(Nowhere, Nowhere), Uri(there, here)>>, <<Uri(Root, locked)>>, <<Uri(Nowhere, Root)>>}

Launched(n, does, left, refused, targets) ==
    [launches |-> n, does |-> does, left |-> left, refused |-> refused, targets |-> targets,
     uris |-> Shown]
NoDesktop == Launched(0, {}, 0, {}, {})
MCDesktops ==
    {NoDesktop,
     Launched(2, {"close", "show"}, 2, {}, {To("Navigate", Nowhere)}),
     Launched(1, {"show", "navigate", "tab"}, 2, {}, {To("Reveal", there), To("Navigate", here)}),
     Launched(1, {"tab", "untab"}, 3, {"Raven1"}, {To("Navigate", here)}),
     Launched(1, {"navigate", "close"}, 2, {"FileManager1"}, {To("Navigate", here)})}

PortalInit == ChooserInit /\ DesktopInit /\ (asker = NoAsker \/ desktop = NoDesktop)
PortalNext ==
    \/ ChooserNext /\ UNCHANGED desktopVars
    \/ DesktopNext /\ UNCHANGED chooserVars
PortalSpec ==
    /\ PortalInit /\ [][PortalNext]_<<chooserVars, desktopVars>>
    /\ ChooserFairness /\ DesktopFairness
===============================================================================

------------------------------- MODULE MCViews -------------------------------
(***************************************************************************)
(* What the window shows, for TLC: Navigation, Previews, Tabs, Settings  *)
(* and Listing with Dragging, one part at a time.                        *)
(***************************************************************************)
EXTENDS MCNavigation, Previews, Tabs, Settings, MCListing, TLC

-------------------------------------------------------------------------------
(* A preview panel for TLC: files of each kind in two folders, a text that cannot be read, and
   users who select, switch, go, delete and save. *)

CONSTANTS t1, im1, im2, v1, d1

MCItemFolder == (t1 :> "a") @@ (im1 :> "a") @@ (v1 :> "a") @@ (im2 :> "b") @@ (d1 :> "b")
MCKindOf == (t1 :> "text") @@ (im1 :> "image") @@ (v1 :> "video") @@ (im2 :> "image")
            @@ (d1 :> "directory")
Watching(does, left) == [does |-> does, left |-> left, folder |-> "a"]
MCPreviewScenes ==
    {Watching({"toggle", "select", "delete", "save"}, 4),
     Watching({"toggle", "select", "switch", "go"}, 4),
     Watching({"toggle", "select", "recent", "delete", "go"}, 4),
     Watching({"toggle", "select", "unplayable", "switch"}, 5)}

-------------------------------------------------------------------------------
(* Users of tabs for TLC. What is said of tabs that were closed by the keys needs users who
   close them so. *)

TabDoes(names, n) == [does |-> names, left |-> n]
MCTabUsers ==
    {TabDoes({"key_new", "button_new", "key_close", "cycle", "click", "drag", "open"}, 4),
     TabDoes({"key_new", "button_new", "key_close", "click", "drag"}, 5),
     TabDoes({"key_new", "key_close", "cycle", "dual", "switch", "open", "click"}, 4),
     TabDoes({"key_new", "button_close", "click", "dual", "switch", "drop"}, 4),
     TabDoes({"key_new", "button_new", "key_close", "cycle", "click", "drop"}, 5),
     TabDoes({"dual", "switch", "open", "recent"}, 5)}

-------------------------------------------------------------------------------
(* Settings for TLC: one window whose lists are edited, one that is started again, some whose
   saves may fail, two that overwrite each other, one that dies while it saves. A file may be
   from before the last actions and before the present look. *)

MCActions == <<"back", "copy">>
MCDefaultKey == ("back" :> "Left") @@ ("copy" :> "c")
Old == [DefaultConfig EXCEPT !.bindings = <<[action |-> "copy", key |-> "x"]>>, !.style = 0,
                             !.theme = "nord"]
Older == [Old EXCEPT !.style = 1]
MCOldFile == {NoFile, Old, Older}
Tuning(does, windows, left) == [does |-> does \cup {"launch"}, windows |-> windows, left |-> left]
MCSettingScenes ==
    {Tuning({"settings", "associations", "quit"}, {"w1"}, 7),
     Tuning({"settings", "actions", "quit"}, {"w1"}, 7),
     Tuning({"settings", "keys", "pin", "quit"}, {"w1"}, 6),
     Tuning({"zoom", "view", "settings", "theme", "quit"}, {"w1"}, 7),
     Tuning({"zoom", "settings", "switch", "quit"}, {"w1"}, 6),
     Tuning({"settings", "associations", "pin", "quit", "fails"}, {"w1"}, 6),
     Tuning({"settings", "actions", "quit", "fails"}, {"w1"}, 6),
     Tuning({"settings", "keys", "theme", "zoom", "quit", "fails"}, {"w1"}, 6),
     Tuning({"settings", "theme", "desktop"}, {"w1", "w2"}, 6),
     Tuning({"pin", "zoom", "quit", "crash"}, {"w1", "w2"}, 5)}

-------------------------------------------------------------------------------
VARIABLE part    \* the part that is at work

ViewsInit ==
    /\ part \in {"navigation", "previews", "tabs", "settings", "listing"}
    /\ Init /\ PreviewInit /\ TabsInit /\ SettingInit /\ ListInit /\ DragInit
    /\ part # "navigation" => user = CHOOSE u \in Users : TRUE
    /\ part # "navigation" => active = CHOOSE p \in user.panes : TRUE
    /\ part # "previews" => watching = CHOOSE s \in PreviewScenes : TRUE
    /\ part # "tabs" => tabUser = CHOOSE u \in TabUsers : TRUE
    /\ part # "settings" => /\ changing = CHOOSE s \in SettingScenes : TRUE
                            /\ saved = NoFile
    /\ part # "listing" => viewer = CHOOSE v \in Viewers : TRUE
    /\ part # "listing" => shownPane = CHOOSE p \in viewer.panes : TRUE
ViewsNext ==
    /\ UNCHANGED part
    /\ \/ /\ part = "navigation" /\ Next
          /\ UNCHANGED <<previewVars, tabVars, settingVars, listVars, dragVars>>
       \/ /\ part = "previews" /\ PreviewNext
          /\ UNCHANGED <<navVars, tabVars, settingVars, listVars, dragVars>>
       \/ /\ part = "tabs" /\ TabsNext
          /\ UNCHANGED <<navVars, previewVars, settingVars, listVars, dragVars>>
       \/ /\ part = "settings" /\ SettingNext
          /\ UNCHANGED <<navVars, previewVars, tabVars, listVars, dragVars>>
       \/ /\ part = "listing" /\ DragNext
          /\ UNCHANGED <<navVars, previewVars, tabVars, settingVars>>
ViewsSpec ==
    ViewsInit /\ [][ViewsNext]_<<navVars, previewVars, tabVars, settingVars, listVars, dragVars, part>>
===============================================================================

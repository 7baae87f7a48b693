------------------------------- MODULE MCBackground -------------------------------
(***************************************************************************)
(* What works beside the listings, for TLC: DirSizes, RuleEditor,        *)
(* Thumbnails and Reports, one part at a time.                           *)
(***************************************************************************)
EXTENDS DirSizes, RuleEditor, Thumbnails, MCReports, TLC

-------------------------------------------------------------------------------
(* Scenes of DirSizes for TLC, in a directory top that has a and c, with b in a: operations one
   at a time, with and without what is above cached; deletions at once, or of directories,
   where all is cached; a subdirectory that is listed, copied to and changed at once; and top
   being watched. *)

CONSTANTS top, a, b, c, spare

Tree == [d \in {top, a, b, c, spare} |-> IF d = top THEN Nowhere ELSE IF d = b THEN a ELSE top]

SizeScene(there, cached, watched, n, at, does, atOnce, left) ==
    [there |-> there, cached |-> cached, watched |-> watched, files |-> n, at |-> at,
     does |-> does, tasks |-> atOnce, left |-> left]
MCScenes ==
    LET all == {top, a, b} IN
    {SizeScene(all \cup {c}, cached, Nowhere, 1, {a, b, c, spare}, {"copy", "move", "delete", "rename"}, 1, 3) :
         cached \in {{a, b}, {top, a, c}}}
    \cup {SizeScene(all, all, Nowhere, 2, all, {"delete"}, 2, 3),
          SizeScene(all, all, Nowhere, 2, all, {"delete", "rmdir"}, 1, 4),
          SizeScene(all, {a, b}, Nowhere, 2, all, {"delete", "rmdir"}, 1, 4),
          SizeScene(all, {top, a}, top, 1, {a}, {"list", "change", "copy"}, 2, 3),
          SizeScene(all, {top, a}, top, 1, {top}, {"list", "change"}, 2, 3)}

-------------------------------------------------------------------------------
(* Rules for TLC: all sizes up to two units of the second kind, a nested group, command lines
   with words that need quotes or do not, and texts with what the dialog trims, splits, expands
   or writes in small. *)

CONSTANTS ra, rb

Rule(name, watch, conditions, actions, enabled) ==
    [id |-> ra, name |-> name, watch |-> watch, conditions |-> conditions, actions |-> actions,
     enabled |-> enabled]
Condition(kind, value) == [kind |-> kind, value |-> value]
Act(kind, value) == [kind |-> kind, value |-> value]
Word == <<"a">>
Words == {<< >>, <<"quote">>, <<"a", "space">>, <<"slash", "space", "a">>, <<"a", "slash">>}
Texts == {<< >>, <<"a", "space", "a">>, <<"a", "space">>, <<"dot", "A">>, <<"a", "comma", "a">>,
          <<"tilde", "sep", "a">>, <<"a", "semi">>, <<"a", "dot", "a">>}
Simple == Rule(Word, <<Word>>, << >>, <<Act("trash", << >>)>>, TRUE)
Sized == {Rule(Word, <<Word>>, <<Condition("larger", n), Condition("group", "g"), Condition("name", Word)>>,
               <<Act("move", Word), Act("trash", << >>)>>, TRUE) : n \in {0, 1, 3, 5, 9, 18}}
Running == {Rule(Word, <<Word>>, <<Condition("older", 6)>>, <<Act("run", <<v, w>>)>>, FALSE) : v, w \in Words}
Texted == {Rule(t, <<t, Word>>, <<Condition("extension", <<Word, t>>), Condition("name", <<"a", "space", "a">>)>>,
                <<Act("copy", t), Act("notify", Word), Act("delete", << >>)>>, TRUE) : t \in Texts}
MCOnFile == {[i \in RuleIds |-> IF i = ra THEN r ELSE NoRule] : r \in {Simple} \cup Sized \cup Running \cup Texted}
MCTyped == {[name |-> <<"space", "a">>, watch |-> <<"semi", "tilde", "sep">>,
             conditions |-> <<Row("smaller", [number |-> 3, unit |-> 1]), Row("extension", <<"dot", "A", "comma">>)>>,
             actions |-> <<Row("run", <<"a", "space", "a">>)>>, enabled |-> FALSE]}

-------------------------------------------------------------------------------
(* Thumbnails for TLC: two rows, or one whose file is edited; a document that is never done
   being drawn and a file that has no thumbnail. *)

CONSTANTS r1, r2, im, vid, doc, txt

MCPictureKind == (im :> "image") @@ (vid :> "video") @@ (doc :> "document") @@ (txt :> "none")
Scrolling(does, rows, left) == [does |-> does, rows |-> rows, left |-> left]
MCThumbScenes == {Scrolling({"scroll", "unbind"}, {r1, r2}, 3),
                  Scrolling({"scroll", "edit", "unbind"}, {r1}, 3)}

-------------------------------------------------------------------------------
VARIABLE part    \* the part that is at work; of forms, any rule is opened and saved as it is


BackgroundInit ==
    /\ part \in {"sizes", "rules", "forms", "thumbnails", "reports"}
    /\ Init /\ RuleInit /\ ThumbInit /\ ReportInit
    /\ part # "sizes" => scene = CHOOSE s \in Scenes : TRUE
    /\ part # "forms" => ruleFiles[ra] = Simple
    /\ part # "thumbnails" => viewing = CHOOSE v \in ThumbScenes : TRUE
    /\ part # "reports" => "organize" \in inspected.dialogs
BackgroundNext ==
    /\ UNCHANGED part
    /\ \/ part = "sizes" /\ Next /\ UNCHANGED <<ruleVars, thumbVars, reportVars>>
       \/ part = "rules" /\ RuleNext /\ UNCHANGED <<sizeVars, thumbVars, reportVars>>
       \/ part = "forms" /\ UNCHANGED <<sizeVars, thumbVars, reportVars>>
          /\ (OpenPage \/ SaveRule \/ \E rule \in page.rows : EditRule(rule))
       \/ part = "thumbnails" /\ ThumbNext /\ UNCHANGED <<sizeVars, ruleVars, reportVars>>
       \/ part = "reports" /\ ReportNext /\ UNCHANGED <<sizeVars, ruleVars, thumbVars>>
BackgroundSpec ==
    BackgroundInit /\ [][BackgroundNext]_<<sizeVars, ruleVars, thumbVars, reportVars, part>>
===============================================================================

------------------------------ MODULE RuleEditor ------------------------------
(***************************************************************************)
(* The page of the automation rules in the settings: the rule files, the *)
(* engine that follows by commands, and the dialog that takes a rule     *)
(* apart into rows of text and puts it together again.                   *)
(*                                                                       *)
(* A row of the page keeps the rule it was made for.  Sizes and          *)
(* durations count in units of UnitSize; a text is a sequence of the     *)
(* characters that the conversions tell apart: "a", "A", "space",        *)
(* "quote", "slash" (a backslash), "comma", "semi", "dot", "tilde",      *)
(* "sep" (of a path) and "home" (what is before it).  The trigger and    *)
(* the mode, which a form shows as they are, are left out.               *)
(***************************************************************************)
EXTENDS Naturals, Sequences, SequencesExt, FiniteSets

CONSTANTS
    RuleIds,      \* ids of rules
    OnFile,       \* the rules that may be on file to begin with
    Typed,        \* what users may make of the dialog's rows
    UnitSize,     \* how many of one unit make the next: 1024, or 60, 24, 7
    Units,        \* how many units there are, plain numbers not counted
    MaxRules,     \* how often rules are stored (bound)
    MaxCommands   \* commands on their way (bound)

VARIABLES
    ruleFiles,      \* files[id]: the rule in its file, or NoRule
    engine,         \* engine[id]: the rule the engine has, or NoRule
    orders,         \* commands to the engine
    page,           \* the page is open, the rules of its rows, and on[id]: the row's switch
    dialog,         \* the rule dialog: whether it is open, of which rule, its name, folders and
                    \* rows, whether it says "Enabled", and why the rule was not saved
    stored,         \* rules stored so far
    unsaved         \* rules of which a file could not be written, or deleted, since they were
                    \* stored or deleted last

ruleVars == <<ruleFiles, engine, orders, page, dialog, stored, unsaved>>

NoRule == [id |-> "none"]
ASSUME RulesAssumption ==
    \A f \in OnFile :
       /\ f = [id \in RuleIds |-> f[id]]
       /\ \A id \in RuleIds : f[id] = NoRule
                             \/ f[id] = [id |-> id, name |-> f[id].name, enabled |-> f[id].enabled,
                                        watch |-> f[id].watch, conditions |-> f[id].conditions,
                                        actions |-> f[id].actions]
Rules(f) == {f[id] : id \in RuleIds} \ {NoRule}
NoRuleDialog ==
    [open |-> FALSE, rule |-> NoRule, name |-> << >>, watch |-> << >>, conditions |-> << >>,
     kept |-> << >>, actions |-> << >>, enabled |-> TRUE, refused |-> FALSE]

-------------------------------------------------------------------------------
(* The rows of the dialog. *)

UnitBytes(u) == UnitSize ^ u
Row(kind, value) == [kind |-> kind, value |-> value]

(* Text without the blanks around it; its parts between c, joined again. *)
Trimmed(t) ==
    LET seen == {i \in DOMAIN t : t[i] # "space"}
    IN  IF seen = {} THEN << >> ELSE SubSeq(t, Min(seen), Max(seen))
SplitAt(t, c) ==
    FoldLeft(LAMBDA parts, x : IF x = c THEN Append(parts, << >>)
                               ELSE [parts EXCEPT ![Len(parts)] = Append(@, x)], <<<< >>>>, t)
JoinTexts(texts, c) ==
    FlattenSeq([i \in DOMAIN texts |-> (IF i = 1 THEN << >> ELSE <<c, "space">>) \o texts[i]])
PartsOf(t, c, Read(_)) ==
    LET parts == SplitAt(t, c)
    IN  SelectSeq([i \in DOMAIN parts |-> Read(parts[i])], LAMBDA part : part # << >>)

(* An extension as the engine compares it, and a path with ~ expanded. *)
Lower(t) == [i \in DOMAIN t |-> IF t[i] = "A" THEN "a" ELSE t[i]]
Extension(part) ==
    LET t == Trimmed(part)
        seen == {i \in DOMAIN t : t[i] # "dot"}
    IN  IF seen = {} THEN << >> ELSE Lower(SubSeq(t, Min(seen), Len(t)))
Expanded(t) ==
    IF Len(t) > 1 /\ t[1] = "tilde" /\ t[2] = "sep" THEN <<"home">> \o Tail(t) ELSE t

(* Mutant: the largest unit it is not smaller than. *)
FormatRounded(n) ==
    LET fits == {u \in 1..Units : n >= UnitBytes(u)}
        best == IF fits = {} THEN 0 ELSE CHOOSE u \in fits : \A v \in fits : v <= u
    IN  [number |-> n \div UnitBytes(best), unit |-> best]

(* format_size_input, format_duration_input: the largest unit that divides it. *)
FormatAmount(n) ==
    LET fits == {u \in 1..Units : n >= UnitBytes(u) /\ n % UnitBytes(u) = 0}
        best == IF fits = {} THEN 0 ELSE CHOOSE u \in fits : \A v \in fits : v <= u
    IN  [number |-> n \div UnitBytes(best), unit |-> best]

ParseAmount(text) == text.number * UnitBytes(text.unit)

(* join_args: a word with a space or a quote in it, or no letter at all, is quoted. *)
Needs(word) == word = << >> \/ Contains(word, "space") \/ Contains(word, "quote")
Escaped(word) == FlattenSeq([i \in DOMAIN word |-> IF word[i] \in {"quote", "slash"}
                                                   THEN <<"slash", word[i]>> ELSE <<word[i]>>])
Joined(word) == IF Needs(word) THEN <<"quote">> \o Escaped(word) \o <<"quote">> ELSE word
JoinArgs(words) ==
    FlattenSeq([i \in DOMAIN words |->
                  (IF i = 1 THEN << >> ELSE <<"space">>) \o Joined(words[i])])

(* split_args: what has been read, the word being read, and whether there is one, a quote is
   open, or the next is taken as it is. *)
Reader == [words |-> << >>, word |-> << >>, in |-> FALSE, open |-> FALSE, escape |-> FALSE]
ReadChar(r, c) ==
    CASE r.escape                  -> [r EXCEPT !.word = Append(@, c), !.in = TRUE, !.escape = FALSE]
      [] ~r.escape /\ c = "slash"  -> [r EXCEPT !.escape = TRUE]
      [] ~r.escape /\ c = "quote"  -> [r EXCEPT !.open = ~@, !.in = TRUE]
      [] ~r.escape /\ c = "space" /\ ~r.open ->
            IF r.in THEN [r EXCEPT !.words = Append(@, r.word), !.word = << >>, !.in = FALSE] ELSE r
      [] OTHER                     -> [r EXCEPT !.word = Append(@, c), !.in = TRUE]
SplitArgs(line) ==
    LET r == FoldLeft(ReadChar, Reader, line)
    IN  IF r.in THEN Append(r.words, r.word) ELSE r.words

Amounts == {"larger", "smaller", "older", "newer"}
ConditionToRow(c) ==
    Row(c.kind, CASE c.kind \in Amounts -> FormatAmount(c.value)
                  [] c.kind = "extension" -> JoinTexts(c.value, "comma")
                  [] OTHER -> c.value)
RowToCondition(row) ==
    [kind |-> row.kind, value |->
        CASE row.kind \in Amounts -> ParseAmount(row.value)
          [] row.kind = "extension" -> PartsOf(Trimmed(row.value), "comma", Extension)
          [] OTHER -> Trimmed(row.value)]
(* A group of conditions has no row. *)
Nested(c) == c.kind = "group"

IntoFolders == {"move", "copy"}
ActionToRow(a) == Row(a.kind, IF a.kind = "run" THEN JoinArgs(a.value) ELSE a.value)
RowToAction(row) ==
    [kind |-> row.kind, value |->
        LET text == Trimmed(row.value) IN
        CASE row.kind = "run" -> SplitArgs(text)
          [] row.kind \in IntoFolders -> Expanded(text)
          [] OTHER -> text]

Form(rule) ==
    [open |-> TRUE, rule |-> rule, enabled |-> rule.enabled, refused |-> FALSE,
     name |-> rule.name, watch |-> JoinTexts(rule.watch, "semi"),
     conditions |-> LET shown == SelectSeq(rule.conditions, LAMBDA c : ~Nested(c))
                    IN  [i \in DOMAIN shown |-> ConditionToRow(shown[i])],
     kept |-> SelectSeq(rule.conditions, Nested),
     actions |-> [i \in DOMAIN rule.actions |-> ActionToRow(rule.actions[i])]]

WatchPaths(text) == PartsOf(text, "semi", LAMBDA part : Expanded(Trimmed(part)))

(* What must be there; what else may refuse a rule, a pattern with brackets that do not match
   or a size that is no number, is left out. *)
Valid(d) ==
    /\ Trimmed(d.name) # << >> /\ WatchPaths(d.watch) # << >> /\ d.actions # << >>
    /\ \A i \in DOMAIN d.conditions :
          d.conditions[i].kind \in Amounts \/ Trimmed(d.conditions[i].value) # << >>
    /\ \A i \in DOMAIN d.actions :
          d.actions[i].kind \in {"delete", "trash"} \/ RowToAction(d.actions[i]).value # << >>

BuildRule(d, id) ==
    [id |-> id, name |-> Trimmed(d.name), enabled |-> d.enabled, watch |-> WatchPaths(d.watch),
     conditions |-> [i \in DOMAIN d.conditions |-> RowToCondition(d.conditions[i])] \o d.kept,
     actions |-> [i \in DOMAIN d.actions |-> RowToAction(d.actions[i])]]

-------------------------------------------------------------------------------
NoPage == [open |-> FALSE, rows |-> {}, on |-> [id \in RuleIds |-> FALSE]]

RuleInit ==
    /\ ruleFiles \in OnFile /\ engine = ruleFiles
    /\ orders = << >> /\ page = NoPage /\ dialog = NoRuleDialog /\ stored = 0 /\ unsaved = {}

Order(kind, rule) ==
    Len(orders) < MaxCommands /\ orders' = Append(orders, [kind |-> kind, rule |-> rule])
Render(f) ==
    page' = [open |-> TRUE, rows |-> Rules(f), on |-> [id \in RuleIds |-> f[id] # NoRule /\ f[id].enabled]]

OpenPage ==
    /\ ~page.open /\ Render(ruleFiles) /\ UNCHANGED <<ruleFiles, engine, orders, dialog, stored, unsaved>>

ClosePage ==
    /\ page.open /\ ~dialog.open /\ page' = NoPage
    /\ UNCHANGED <<ruleFiles, engine, orders, dialog, stored, unsaved>>

ClickAddRule ==
    /\ page.open /\ ~dialog.open
    /\ dialog' = [NoRuleDialog EXCEPT !.open = TRUE, !.actions = <<Row("move", << >>)>>]
    /\ UNCHANGED <<ruleFiles, engine, orders, page, stored, unsaved>>

EditRule(rule) ==
    /\ page.open /\ ~dialog.open /\ rule \in page.rows /\ dialog' = Form(rule)
    /\ UNCHANGED <<ruleFiles, engine, orders, page, stored, unsaved>>

Type(d) ==
    /\ dialog.open
    /\ dialog' = [dialog EXCEPT !.name = d.name, !.watch = d.watch, !.conditions = d.conditions,
                                !.actions = d.actions, !.enabled = d.enabled, !.refused = FALSE]
    /\ dialog' # dialog
    /\ UNCHANGED <<ruleFiles, engine, orders, page, stored, unsaved>>

Cancel ==
    /\ dialog.open /\ dialog' = NoRuleDialog
    /\ UNCHANGED <<ruleFiles, engine, orders, page, stored, unsaved>>

(* save_rule, delete_rule, whose errors are only logged. A file that is written in part does
   not parse, and is skipped. *)
WriteFails(id) ==
    /\ unsaved' = unsaved \cup {id}
    /\ ruleFiles' \in {ruleFiles, [ruleFiles EXCEPT ![id] = NoRule]}
DeleteFails(id) == unsaved' = unsaved \cup {id} /\ UNCHANGED ruleFiles

(* store_rule: the file, the engine, and the page drawn again. *)
StoreRule(rule) ==
    /\ \/ ruleFiles' = [ruleFiles EXCEPT ![rule.id] = rule] /\ unsaved' = unsaved \ {rule.id}
       \/ WriteFails(rule.id)
    /\ Order("add", rule) /\ Render(ruleFiles')

(* A new rule's id is from its name and the clock: no other rule has it. *)
SaveRule ==
    /\ dialog.open /\ stored < MaxRules
    /\ IF Valid(dialog)
       THEN /\ \E id \in IF dialog.rule = NoRule THEN {i \in RuleIds : ruleFiles[i] = NoRule /\ i \notin unsaved}
                         ELSE {dialog.rule.id} :
                  StoreRule(BuildRule(dialog, id))
            /\ dialog' = NoRuleDialog /\ stored' = stored + 1
       ELSE dialog' = [dialog EXCEPT !.refused = TRUE] /\ UNCHANGED <<ruleFiles, orders, page, stored, unsaved>>
    /\ UNCHANGED engine

DeleteRule(rule) ==
    /\ page.open /\ ~dialog.open /\ rule \in page.rows
    /\ \/ ruleFiles' = [ruleFiles EXCEPT ![rule.id] = NoRule] /\ unsaved' = unsaved \ {rule.id}
       \/ DeleteFails(rule.id)
    /\ Order("remove", rule) /\ Render(ruleFiles')
    /\ UNCHANGED <<engine, dialog, stored>>

(* The switch writes the rule its row was made for; the row is not made anew. *)
SwitchRule(rule, on) ==
    /\ page.open /\ ~dialog.open /\ rule \in page.rows /\ page.on[rule.id] # on
    /\ page' = [page EXCEPT !.on[rule.id] = on]
    /\ \/ ruleFiles' = [ruleFiles EXCEPT ![rule.id] = [rule EXCEPT !.enabled = on]] /\ UNCHANGED unsaved
       \/ WriteFails(rule.id)
    /\ Order(IF on THEN "enable" ELSE "disable", rule)
    /\ UNCHANGED <<engine, dialog, stored>>

(* main.rs: AddAutomationRule, which replaces, and the others. *)
HandleOrder ==
    /\ orders # << >> /\ orders' = Tail(orders)
    /\ LET o == Head(orders)
           id == o.rule.id
       IN  engine' = CASE o.kind = "add" -> [engine EXCEPT ![id] = o.rule]
                       [] o.kind = "remove" -> [engine EXCEPT ![id] = NoRule]
                       [] OTHER -> IF engine[id] = NoRule THEN engine
                                   ELSE [engine EXCEPT ![id].enabled = (o.kind = "enable")]
    /\ UNCHANGED <<ruleFiles, page, dialog, stored, unsaved>>

(* The program starts again, and loads what is on file. *)
StartAgain ==
    /\ page' = NoPage /\ dialog' = NoRuleDialog /\ orders' = << >>
    /\ engine' = ruleFiles /\ unsaved' = {} /\ UNCHANGED <<ruleFiles, stored>>

RuleNext ==
    \/ OpenPage \/ ClosePage \/ ClickAddRule \/ Cancel \/ SaveRule \/ HandleOrder \/ StartAgain
    \/ \E rule \in page.rows : EditRule(rule) \/ DeleteRule(rule)
                               \/ \E on \in BOOLEAN : SwitchRule(rule, on)
    \/ \E d \in Typed : Type(d)

RuleSpec == RuleInit /\ [][RuleNext]_ruleVars

-------------------------------------------------------------------------------
(* settings_automation.rs:71 "the rule files, which are the source of truth the backend also
   loads from": once it has caught up, the engine has the rules that are on file, as they are
   there, and others only of files that could not be written or deleted: that is logged, and
   the engine told all the same (:149, :243, :287). *)
EngineFollowsFiles == orders = << >> => \A id \in RuleIds \ unsaved : engine[id] = ruleFiles[id]

(* What the form does not say as it is: blanks around a text, extensions in capitals or with
   what divides them, folders with a semicolon or relative to home, and words with a backslash
   that join_args has no reason to quote. *)
Plain(t) == Trimmed(t) = t
PlainFolder(t) == Plain(t) /\ Expanded(t) = t
LoneSlash(word) == Contains(word, "slash") /\ ~Needs(word)
PlainCondition(c) ==
    CASE c.kind = "extension" -> \A e \in ToSet(c.value) : e # << >> /\ Extension(e) = e /\ ~Contains(e, "comma")
      [] c.kind \in Amounts \cup {"group"} -> TRUE
      [] OTHER -> Plain(c.value)
PlainAction(a) ==
    CASE a.kind = "run" -> \A w \in ToSet(a.value) : ~LoneSlash(w)
      [] a.kind \in IntoFolders -> PlainFolder(a.value)
      [] OTHER -> Plain(a.value)

(* automation_rule_dialog.rs:220 "Conditions the editor cannot show are kept as they are": a
   rule that is opened and saved as it is is the same rule, but for the order of its
   conditions, and where its texts are not plain. *)
EditingKeepsRules ==
    \A rule \in Rules(ruleFiles) :
       LET again == BuildRule(Form(rule), rule.id)
       IN  Valid(Form(rule)) =>
              /\ again.id = rule.id /\ again.enabled = rule.enabled
              /\ Plain(rule.name) => again.name = rule.name
              /\ (\A p \in ToSet(rule.watch) : p # << >> /\ PlainFolder(p) /\ ~Contains(p, "semi"))
                 => again.watch = rule.watch
              /\ Len(again.conditions) = Len(rule.conditions)
              /\ {c \in ToSet(rule.conditions) : PlainCondition(c)} \subseteq ToSet(again.conditions)
              /\ \A i \in DOMAIN rule.actions :
                    PlainAction(rule.actions[i]) => again.actions[i] = rule.actions[i]

(* What is on file is what runs, and stays what it is when it is edited. *)
RulesAreKept == EngineFollowsFiles /\ EditingKeepsRules
===============================================================================

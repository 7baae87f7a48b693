# RavenFileManager in TLA+

This directory models the core logic of RavenFileManager, a GTK 4 file manager
written in Rust as a workspace of sixteen crates (`crates/raven-*`) and a binary
(`src/main.rs`). The modules say what the program does, the configurations check
them on small instances with TLC, and the modules named `...Proofs` prove what matters
most about them with TLAPS, for every value of their constants.

`PROJECT.json` holds the index: the components, the runs, one mutant of the code
for every property, the map from definitions to source lines, the disagreements
found, the hazards and the theorems. Paths below are relative to the repository.

To run one check: `tlc -workers 2 -config Views.cfg MCViews.tla`; to check the proofs:
`tlapm OperationQueueProofs.tla`.

## 1. How the program is built

Two threads matter. The *window* (GTK's main thread: `raven-ui`) owns the state a
user sees. The *backend* (a tokio runtime on a thread of its own: `src/main.rs`
from line 130) owns the services. They share almost no state and talk through
two unbounded channels:

    window --AppCommand--> command loop --spawn--> tasks --AppEvent--> window

The command loop takes commands in order. Nearly every arm spawns a task and goes
on, so answers to commands come **in any order**; a few arms await what they do
(the watcher, automation, configuration) and hold up what is behind them. The
window handles events in the order they were sent, and never waits. So the
hazards are those of any program of this shape: an answer that arrives when the
question is no longer asked, state that is checked before an `await` and used
after it, operations that meet on the same files, and buttons that remember what
was true when they were drawn.

| Component | State | Operations | Talks to | What makes it correct |
|---|---|---|---|---|
| Operation queue `raven-ops/queue.rs` | pending list, active list, cancel and pause marks, semaphore, each behind its own lock | `submit` `take_next` `complete` `cancel` `pause` `resume` | the backend; the executor reads the marks | no operation lost or run twice, no more run than there are permits, order by priority and then by age, no cancel lost |
| Operation control `executor.rs` `conflict.rs` `operation_panel.rs` `conflict_dialog.rs` | progress of each operation, open questions, the dialog, the rows | start, pause, resume, cancel, ask, answer, answer for all | window and backend through both channels | an answer meets its question, nothing outlives its operation, a cancel costs at most one item, operations end |
| File operations and undo `executor.rs` `undo.rs` `copy_engine.rs` | the file system, the undo stack | copy, move, rename, trash, delete, create, undo | file systems through `raven-vfs` | no content is lost unasked, undo restores and spares what is not its own |
| Trash `trash.rs` | the files and the info directory, shared with the desktop | trash, restore, delete, empty | executor, undo | every trashed item is listed, under the place it came from, after a crash too |
| Directory sizes `dir_size_cache.rs`, `main.rs` | cached sizes with generations; sizes shown | measure, validate, add a delta, invalidate, watch | operations, watcher, window | once nothing is under way, what is cached and shown is right |
| Navigation `state.rs` `window.rs` `pane_view.rs` `sidebar.rs` | path, history, rows, filter, pending reveal of each pane | go, back, forward, Recent, reveal, tag, delete | backend: listings, tags, recent files | a pane lists what it says it lists; what is acted on is what is shown |
| Tabs `state.rs` `tab_bar.rs` | tabs with one or two panes, the active one, the bar, the views | open, close, change, drag, drop | navigation | bar and views show the tabs there are, the index is one of them |
| Search `raven-search`, `search_bar.rs` | walkers, a shared cancel flag, bounded channels | search by name, content or question, filter, dismiss | walker threads, tasks, window | every hit once and in order, never more than asked for, the listing comes back whole |
| Automation `raven-automation` | rules, one task for each enabled rule | add, remove, enable, disable, start, stop, trigger | file events, the file system | tasks and rules stay in step; rules come to rest |
| SMB sessions `smb.rs` `router.rs` | open locations, credentials, one connection to a server, trees | connect, disconnect, browse, log in again | servers | logged in exactly while a location is open, as whoever opened it |
| SFTP sessions `sftp.rs` `connect_dialog.rs` `sidebar.rs` | the map of connections and each session, with a lock each; the dialog, the rows, the panes on a server | connect, disconnect, list, make a folder | servers, window | rows, panes and dialog tell of the connections there are, and no lock is waited for in a ring |
| Copies between backends `router.rs` `sftp.rs` `smb.rs` `local.rs` | trees of three places, with links | copy, copy without replacing, write, rename, delete | servers, whose files others use | what is copied is whole, and nothing is removed or written over but what was asked for |
| Plugins `raven-plugin` | manifests, loaded plugins, the registry of actions, the published selection | load, unload, run an action, broadcast a hook | scripts, window, configuration | the menu lists what can run; what is chosen stays chosen |
| Previews `raven-preview`, `preview_panel.rs` | the panel, its file, its stream, its watch | toggle, follow the selection, show, let go | selection, preview tasks, file monitor | the panel shows what is selected |
| Thumbnails `thumbnail.rs` `thumbnails.rs` `pdf.rs` | rows and what each wants, permits, a cache of files | bind, unbind, make, draw a document | blocking threads | a row never shows another file's picture; no permit is lost |
| Lists `file_list.rs` `pane_view.rs` | rows, the quick filter, the selection, marks | type, choose, reveal, reload, change tabs | listings, version control | filter, marks and "No matches" belong to the rows on screen |
| Drag and drop `dnd.rs` `file_list.rs` | the drag, what is known of it, the target under it | enter, move, press a key, drop | other programs, operations | files are moved only if asked, or within one file system |
| Settings `config.rs` `settings_dialog.rs` `settings_actions.rs` `themes.rs` `zoom.rs` | `config.toml`, `actions.toml`, a copy of both in every window, rows that know their item by index | edit, zoom, pin, capture a key, change the theme | files, the desktop's theme | what is chosen is saved, and it is the item the user meant |
| Rules in the settings `settings_automation.rs` `automation_rule_dialog.rs` `config.rs` | rule files, the page, the dialog | add, edit, switch, delete | automation engine | what is on file is what runs, and editing keeps what it does not touch |
| Reports `properties_dialog.rs` `duplicate_dialog.rs` `organize_dialog.rs` and their tasks | the dialogs, two cancel flags, the channel of answers | open, close, cancel, tick, trash, apply | scans, window | what is trashed or moved is what was ticked |
| Portal `portal.rs` `portal_mode.rs` `file_chooser_dialog.rs` | calls, a dialog for each, the idle timer | choose, save, type, close, withdraw | other programs | each call is answered once, in its own terms; the process quits only when idle |
| The bus `fm1.rs` `interface.rs` `service.rs` `main.rs` | owners of two names and those who queue, the inbox and service of each window | launch, close, show, navigate | other programs, windows | a name has a window that serves it; what the bus says is what the window shows |
| Tags `tag_engine.rs` `window.rs` `sidebar.rs` `main.rs` | `tags.toml`, the engine of each window, the Tag menu, the counts | tag, untag, count, go, change panes, start, end | the file, other windows | what is tagged by hand lasts, and is counted for the folder on screen |
| Others | version control, system information, dialogs | read and shown whole | | |

`PROJECT.json` lists these with their sources, what is modelled of each and what
is not; the hazards stand there at the line where each bites.

## 2. The modules

Each module named for a component has its constants, state, actions and
properties. A module whose name ends in `Proofs` extends the component's with lemmas and
theorems (section 4; `WindowProofs` is about Listing, Dragging, Previews and Tabs); one whose name begins with `MC` gives constants their values and is
what TLC runs. Names of definitions are the source's where TLA+ allows. In all of them an action is what the code does between
two points where others may come in: a locked region, the stretch between two
awaits, one handler of the window. Data are abstracted to what the properties tell
apart.

Most initial states choose a *scene* (what file system, which servers, which other
tasks there are) or a *user* (what is asked for, and how often): a record that never
changes but for the count of requests left, so a run explores each scene by itself
and no more of their product than is of interest. Where the code keeps a promise only
under a condition (one task at a time, tabs closed by keys), the property says so and
reads it from the scene; section 5 tells what happens without it.

Components that belong together share a run. Its module (`MCOperations`, `MCStorage`,
`MCEngines`, `MCBackground`, `MCViews`, `MCPortal`) extends their modules and holds a
variable `part`: a behaviour is one component's from its initial states on, while the
others stay at rest. That adds the state spaces and does not multiply them. What
components share is modelled inside one module where it matters: the window and
the backend in `OperationControl`, rules and the engine's orders in `RuleEditor`, the
list and the drag over it in `Dragging` (which extends `Listing`), listings and the
bus in `Desktop`.

| Run | Modules | Expected |
|---|---|---|
| `operations` | OperationQueue, TaskPool, OperationControl | pass |
| `storage` | FileOperations, TrashFs, RemoteFiles, RemoteSessions | pass |
| `merging` | FileOperations | violated |
| `stranded` | RemoteSessions | violated |
| `smb` | SmbSessions | pass |
| `engines` | Automation, Plugins, Tags | pass |
| `background` | DirSizes, RuleEditor, Thumbnails, Reports | pass |
| `duplicates` | Reports | violated |
| `views` | Navigation, Previews, Tabs, Settings, Listing, Dragging | pass |
| `delete` | Navigation | violated |
| `search` | Search | pass |
| `portal` | Chooser, Desktop | pass |

### Run `operations`

**OperationQueue, TaskPool** (proved). `TaskPool` is the abstract promise: an
operation goes from new to waiting, running, ended, or is dropped while it waits; at
most `MaxConcurrency` run. `OperationQueue` is `queue.rs`, one action per locked
region: `Submit`; `take_next` as `PopFront`, `AcquirePermit` (first come first served,
as tokio's semaphore is) and `StartRunning`; `Complete`; `cancel` as `CancelPending`
when it finds the entry, or `CancelMiss` and, later, `CancelMark` when it does not.
Between these anything may happen. `StageOf` is the refinement mapping.

Three operations of two priorities and two permits: permits are conserved, the queue
is sorted and keeps the order of equals, every operation is in exactly one stage, a
cancel either took effect or left its mark, the queue implements `TaskPool`, and every
operation submitted ends or is dropped, when whoever calls `take_next` finishes the
call (weak fairness of its three steps) and running operations end. Three operations
are enough for one to wait for its permit while another is queued, for equals to be
overtaken, and for the bound to be met. `main.rs` keeps an `OperationQueue` but uses
only its pause and cancel marks: it spawns each operation at once, so nothing bounds
how many run together. The module is of the queue as its crate offers and tests it.

**OperationControl.** Operations between the window, the loop and their tasks.
`commands` and `events` are the channels; the loop handles commands in order, but
`ResolveConflict` spawns, so an answer may overtake. Task steps: look at the
cancellation, then wait out a pause (in this order, `executor.rs:202`), act, ask about
a conflict and wait, finish. User steps: start, click pause, cancel, answer, close a
dialog, remove a row. A copy and a trash of two items each, one click on Pause:
`NothingOutlivesOperation` says that an answer meets the question it was given for,
whoever waits for one can be reached, answers, prompts and rows do not outlive the
operation, and a cancellation costs at most one more item; `OperationsEnd`, that every
operation ends, or is paused, or has its question open before the user. Nothing is
assumed of the user. Two operations are needed for answers to go astray, two items
for "apply to all".

### Run `storage`

**FileOperations.** A tree of files over `Paths`, told apart by who wrote each and what
it descends from. Operations are tasks whose steps are those between awaits: settle an
item's conflict (any answer), withdraw older undo records, write the item (whole, or
cut short by an error), delete a moved source, push the record. `UndoStep` pops a
record and takes it back, with check and rename of `undo_move` apart. Three scenes: one
local file system with three operations of any of fourteen requests one after another,
any number of undos and failures; two devices, where a move is a copy and a deletion
that may stop in the middle; a remote file system with two tasks together, where rename
refuses what is there. Nothing is lost that nobody asked to replace or delete; an undo
restores exactly and spares what was written over its results later (one operation at a
time); nothing is written over without agreement. Two folders, a nested file and a spare
name give every case of the code: merge, replace, keep both, skip, a move into itself, a
source inside another. `Paths` is a finite tree: what would lie deeper is a path too
long for the file system, and the copy or rename that needs it fails. The run `merging` is
violated: a folder that holds one of its own name, moved up into the folder it is in,
takes files with it that it has just copied (`MergesUp` keeps this out of the other runs).

**TrashFs.** The two directories of the trash and the paths outside, one step per call to
the file system: look for a free name, write the `.trashinfo`, rename; or, across
devices, make the folder, copy and remove what is in it file by file, and remove it at the end
(`cross_device_move`). `Crash` drops every task. Four scenes, on one device and
across two: what the program itself does (trash and undo), and the crate's other calls
(restore by name, delete, empty). Any call may fail, a copy with half a file, a deletion with
part of a folder; the program may crash once or twice; a file and a folder of two have one
name. Nothing lies in the trash unlisted or under another place, nothing in it is written
over, and no crash or failure costs the last whole copy of any file, though a folder may then
be part in one place and part in the other. Excepted are what is deleted, and what lies where
an item is restored to (`RestoredOver`: section 5). That holds for `Orderly` scenes, which the run's are: one task at a time, files that are no links, and
nobody who undoes by the undo stack and empties the trash as well; two crashes allow a crash
in the repair of the first.

**RemoteFiles.** Three places (local, SFTP, SMB) with folders, files and links, and up to
two tasks at a time: `copy`, `copy_new`, `write_new`, `delete`, `rename`, with a list of items to
do for the recursion of `copy_across` and `delete_tree`; one step per request, each of
which may fail, and another client who writes and removes files on the servers. A copy
that nobody disturbed and that ended well has made exactly what the source holds, with
links to files as files and without links to folders (`CopiesAreComplete`); nothing is
removed or written over but in what was to be deleted, moved or replaced, and links are
never followed to delete (`OnlyWhatIsAsked`). The one exception this names: a file whose
writing failed is withdrawn by name. The one of completeness: a link that could not be looked
through, for whatever reason, is skipped and the copy still ends well (`LinkUnseen`). Names of length three, links to a file, to a folder
and to nothing, an existing folder to merge into.

**RemoteSessions.** Two logins, two panes, up to two tasks and three commands: connect as
lookup, login and insertion; listings and new folders that take the session's lock;
disconnect, which keeps the lock of the map until the session is closed; the answers in one channel; the
dialog, rows and panes. When nothing is under way and no disconnect met another call on
its server, the rows are the open connections and each pane is at home or on one of them;
a busy dialog has an answer coming; some call can always go on. The run `stranded`
drops "no disconnect met another call" and is violated: see section 5.

### Run `smb`

**SmbSessions.** One server: `open` locations and `credentials`, the connection and its
trees, and tasks that connect, disconnect and browse, each a program of steps between the
locks of `router.rs` and `smb.rs`. Connections die at any request and are revived; a login
or a check may fail. Five scenes: two browsers of a connection that is revived; two
shares; two logins; two users who connect while another browses; two users on two shares
with nobody browsing. Requests use live trees of the session they are sent in; a server
stays logged in while a location is open, as whoever opened it, and nothing lingers
(connects and disconnects one at a time); every call returns. Weak fairness of the tasks'
steps, strong fairness of taking the connection's lock: tokio's mutexes are first come,
first served.

### Run `engines`

**Automation.** Rules, and for each enabled one a task: it waits for an event or a tick,
waits for the file to settle, looks at the conditions, announces and acts. The loop awaits
the engine's methods, so each of `AddRule`, `RemoveRule`, `EnableRule`, `DisableRule`,
`Start`, `Stop`, `TriggerRule` is one step; tasks and other programs' changes interleave with
them. An aborted task may still finish the blocking call it is in (`Slots` is how many
tasks a rule may have at once, such included). Three scenes: one rule through its life of
four commands with two changes of a file; one rule of every trigger over two files; two
rules of created files that act on each other's. Exactly the enabled rules have tasks
while the engine runs, none without, and no task outlives its rule; when user and others
have stopped, rules come to rest (weak fairness of the tasks alone).

**Plugins.** The manager behind one lock, `tasks` that wait for it in any order and run
scripts while they hold it, the events to the window, the menu, the settings page with its
switches, and the selection published for scripts. Seven users: two copies of one plugin
that are loaded and unloaded while an action is chosen from a menu that may be out of date;
copies that cannot be loaded, or fail while they register; users who wait for a switch
before they flip the next, with none, one or two plugins listed; broadcasts; selections in
both panes. `PluginsAreAsShown`: the registry holds the actions of loaded plugins, a menu
that has heard everything is the registry, an action runs only for the plugin that is
loaded, and what is published is the active pane's selection. `ChoicesAreKept`: a switch
decides for its plugin alone, unless it empties the list; what is loaded is what is
switched on; a broadcast reaches every loaded plugin, also behind one that fails; tasks
end, if scripts do.

**Tags.** `tags.toml`, which each window reads once into its engine and writes whole, emptying
it first; the Tag menu, which reads the file and not the engine; the command loop, which
applies and saves what is tagged by hand itself, and the tasks that count for the sidebar,
which wait for the engine's lock and answer in any order. Three scenes: one window whose user
opens folders, changes panes and tags one file or two, of which a rule matches one; one whose
saves fail; two windows that end and start anew, after each other or together. `TagsAreKept`:
what users of one window after another tagged is on file and in the engine, the rules stay,
and the sidebar counts the folder of the active pane as it is tagged. Excepted by name are a
save that is cut short or read halfway, windows that run at once or end with commands to run,
a file tagged before the folder gone to is listed, and counts that overtake each other.

### Run `background`

**DirSizes.** A task is the list of its remaining steps (change, invalidate, measure, set,
evict, add a delta, show); `Advance(i)` does the next, `Fail` ends an operation with any part of it
done. Seven scenes in a tree of four directories: copies, moves of files and directories,
deletions and renamings one at a time, with the top cached and not; deletions at once;
deletions of directories, with and without what is above them cached; a directory that is
listed, copied to and changed at once, or watched. Once nothing is under way, sizes cached are right and those
shown are the cached ones, but for two sets the model keeps as history. `doubt`: directories
whose size an operation made another without measuring them again or reducing them by that much
(what is above the destination of a copy or move; where an operation failed; what a rule of
section 5 gets wrong), and those where a size measured earlier was written over a later one.
`misled`: those of which the window was told last by a task that had been overtaken. Both are
left as soon as the directory is measured (or told of) again.

**RuleEditor.** The rule files, the page with a row per rule, the dialog, and the orders on
their way to the engine. A save may fail, with half a file that no longer parses, and so may a
deletion; the engine is told all the same. Texts are sequences of the characters the
conversions tell apart, and these are modelled by what they do: amounts in units, words of a
command line, folders divided at semicolons and expanded from home, extensions divided at
commas, in small and without their dots, blanks trimmed, groups the form cannot show and keeps.
Every order handled, the engine runs what is on file, but for rules whose file could not be
written or deleted (`unsaved`); what is on file stays what it is when it is opened and saved
again, wherever its texts are `Plain...`: as the form would read them (`RulesAreKept`). Two
commands, amounts of every unit and between units, five words in every pair, eight texts in
every place.

**Thumbnails.** Rows bound to one file after another, threads that make a thumbnail under a
permit, a worker that draws documents for which the maker waits only so long. Two rows of
four kinds of file, one permit, a document that never ends; or one row whose file is
edited. A row shows a picture of the file it is bound to, whole and of some version it had, and
while a thread sleeps, as many others as there are permits have one or are about to ask for one.

**Reports.** Properties, Find Duplicates and Suggest Organization, their tasks, the two
cancel flags and the one channel of answers, which go to the dialog opened last. Four
scenes, one kind of dialog each, opened twice (and Properties of two things, opened once).
`DialogsAreTrue`: what is selected is what is ticked, also in the list that is shown by then
(but for a dialog that got the results of two scans), the status bar ends with the work, and
who leaves the ticks alone keeps one copy of each content. The run `duplicates` states it of two scans too, and is violated.

### Run `views`

**Navigation.** Panes with `path`, what they list, history, the tag applied, the item to
reveal; the command channel, loads under way that finish in any order, the event channel. A
user's `loads` is how many are under way at once: with one they come in order. Six users:
one pane with Recent and deletions; one with reveals, in folders that are there, and in one that
cannot be listed; one pane with tags, and three listings at once; two
panes, listings in order; two panes, one folder that cannot be listed, and Recent. When
nothing is under way a pane lists the folder it takes itself to be in; it shows what it was
last asked for, if listings come in order; a reveal is applied; Recent fills in; a late tag
never narrows another folder, and the highlighted tag is the one applied. Four requests
suffice for two that overtake each other, a third that is judged by them, and a way back.

**Previews.** The panel that follows the selection of the active pane after a pause, asks
for previews that tasks make in any order, plays one film, watches its file and lets go of
files that are deleted or left behind. Files of each kind in two folders, a text that
cannot be read, four users with four or five requests. Once nothing is under way, an open
panel presents the selected file, or waits for one whose preview failed
(`PanelFollowsSelection`).

**Tabs.** `tabs`, the active one, the `bar` as it was last built (each button with the index
it was built with), the view of each side, listings under way; `Rebuild` is the idle callback
that builds the bar anew. Six users who open, close, change, drag and click tabs, drop
files on them and open folders: the bar lists the tabs, the views show the active one, the
pressed button is its, dragging keeps the active tab, files dropped on a tab go to the
folder it shows, the title is that of the tab's own pane, and the index never leaves the
list. Three conditions are the code's: tabs are closed by the keys (`ClosesByKeys`), for the
button changes the list alone; every folder gone to can be listed (`AllList`), for a failed
listing rebuilds nothing; and a drop goes where the bar says unless tabs were dragged, as the
bar is of the old order until the idle callback has run.

**Settings.** `config.toml` and `actions.toml`, windows with a copy of both, the settings
window with rows that know an index, timers that save late, a save that empties the file
first, the desktop's theme file. Ten scenes: one window whose lists are edited, windows
that are started again, two that overwrite each other, one that dies while it saves; a file
from before the last actions or before the present look. A save may fail before the file is
touched or half way (`SaveFails`, `Persist`), nobody is told, and a configuration that is cut short
reads as another. What one window was told is on
file once it has settled, unless its last save of that file failed; an edit of a custom action or shortcut reaches the item its user means, and the look follows
the desktop.

**Listing, Dragging.** A view with its rows, the text typed over them and the pane and folder it
belongs to, the selection, what waits to be revealed, and listings, marks and sizes that
come late; listings that fail; a search, whose hits are added to the rows of the side in use; a
drag from a row or another program over the list, a folder in it or a place.
Six users, on two devices and a server. A filter that narrows was typed over this folder,
"No matches" is there exactly when it is true, a reveal outranks a filter, marks of what is
listed are of its folder. Two exceptions are the code's: a pane that says a folder before its
listing has come (`ahead`), for good if that fails; and a reveal whose listing `failed`. And a drag that its user did not hold Shift for moves only
within one file system.

The run `delete` is violated: Delete pressed between the navigation to the trash and its
listing deletes for good what is still on screen; so it does in the Recent view opened from
the trash.

### Run `search`

**Search.** Walkers (threads) put hits in a channel of `Capacity`; tasks pass them on; the
window appends them to whichever pane is active. `cancelled` is the searcher's one flag.
The program itself never cancels; `Cancel`, `Reset` and `Drop` are what the crate offers.
Six users: two searches at once, with names narrowed and contents; limits of hits and of
files while a search is dropped, cancelled, or cancelled and reset; users who filter,
dismiss, switch panes and open folders while results arrive. Hits come once, in the walk's
order, the completion last; limits hold; a cancel costs one hit; no filter is left when the
bar is dismissed; searches end although the channel is full, under weak fairness of
walkers, tasks and window. Capacity 1 stands for 256: what counts is that it is full.

### Run `portal`

**Chooser.** Calls of `org.freedesktop.impl.portal.FileChooser` from the bus to their
reply: the handle, the channel, the dialog with everything a user does in it (select, go,
type a name or path, filter, make a folder, confirm a replacement), the caller who
withdraws, files that others write and folders that vanish, the idle timer with its
generation, and the process that is started again. Six requests by themselves, three
pairs. An answer is one of its own terms (one path or many, folders or files, a filter that
was offered), every open dialog is counted, nothing is replaced that its user was not asked
about, the process never quits under a dialog nor on a stale timer, every call ends.

**Desktop.** Windows as processes that queue for two names, their command loops, listings that
tell the service, then the bus, then the window; tabs of one pane. Four scenes: a second
window while the first closes or is asked to show something; reveals and navigations in one
window; a name that is refused. A name belongs to the longest-running window that asked for
it, an owner stays until it closes, what `GetCurrentPath` answers is what the window shows
in an open pane once it is at rest, and what programs ask for is listed.

## 3. Bounds, deadlock and fairness

Every bound is a constant named `Max...` (or `Slots`, `Capacity`, `Items`) in the
component's module, or a field of its scene or user (`left`, `ops`, `commands`,
`conns`, ...). It stands in the guards of what a user or another program does, and
never in what the program must do; so a run cuts off requests and not answers. Instances are the smallest in which each hazard can happen: two actors
and one object they meet on, plus a third where an order of three matters. Each
property has a mutant in `PROJECT.json`, a plausible bug put in the code's
definition, which TLC must find within the very same bounds.

A property listed in `PROJECT.json` answers one question and is often the conjunction
of named parts: `PanesListWhatTheySay`, say, of the types, of what holds for the
listing and of Recent. This text names the part where it matters; the run checks
them together. The type invariant is such a part of one invariant of each module that
has one, and stands by itself in `OperationQueue`, where it is proved.

`CHECK_DEADLOCK FALSE` stands in runs whose users are bounded: once they have
asked for all they may and everything is answered, the system rightly stops.
That nothing is left half done is what the properties over settled states
(`Settled...`, `Calm`, `AtRest`, `EachItemIsListed`...) and the liveness properties say.
Two parts of invariants say it of locks: in `RemoteSessions` some task can go on whatever locks
they wait for (`NotAllWait`, by what each state of a task waits for), and in `Thumbnails` no
thread sleeps that nobody will wake (`NobodyIsStuck`).

The runs `operations`, `smb`, `engines`, `search` and `portal` have liveness properties
and a specification that states fairness. Fairness is only assumed of threads and tasks
that run whenever they can (weak fairness of the walkers, tasks, the command loop and the
event handler), of mutexes and semaphores that are first come, first served (strong
fairness of taking a lock in `SmbSessions`; a queue in `OperationQueue`), and of two things
outside the program: a plugin's script that ends, and, for a dialog of the portal alone, a
user who sooner or later answers it or closes its window. In a run of several parts the
fairness of a part at rest asks for nothing, as none of its steps is enabled; in `engines`
plugins are first loaded, as at every start of the program.

## 4. What is proved

Each theorem below is `Spec => ...` of its component and holds for every value of the
constants the module's `ASSUME`s allow: sets of files, operations, panes, users or scenes of
any size, finite only where the proof must count them. The assumptions only type the constants (a
`ListingAssumption`, say, that "no folder" is no folder) and TLC evaluates them on every run of the module.
A proof has the same shape everywhere: the inductive invariant (named `...Inv`), the lemmas
about operators, one lemma per action, and the theorem that joins them with `PTL`. A property named here is also checked by a
run, on a small instance; the theorem is for every one.

| Module | Theorems | State of the runs' property |
|---|---|---|
| `OperationQueueProofs` | `QueueTypes`, `PermitsBalance`, `BoundedConcurrency`, `NothingLostOrDoubled`, `CancelsAreNotLost`, `QueueOrder`, `QueueImplementsPool`; of Chooser `CallsAlwaysGetTheirAnswers`, `OnlyAskedIsReplaced`, `QuitsOnlyWhenQuiet` | of the queue all but liveness; all of `CallsGetTheirAnswers`; of `DialogsAnswer` all but liveness |
| `OperationControlProofs` | `NothingEverOutlivesOperation`; of Settings `SettingsAreAlwaysKept` | all of `NothingOutlivesOperation`, `SettingsAreKept` |
| `FileOperationsProofs` | `FilesStayTrees`, `OverwritesAreAgreed`, `OperationsLoseNothing`, `ItemsAlwaysListed`, `TrashAlwaysKeeps` | `NoUnagreedOverwrite`, `EachItemIsListed`, `TrashKeepsItems` whole; of `NothingLostUnasked` the types, and what no operation loses |
| `SmbSessionsProofs` | `LoginsAlwaysFollowLocations`; of RemoteSessions `RowsAreAlwaysOpen`, `BusyIsAlwaysAnswered`, `OneAlwaysGoesOn`, `SessionsAlwaysAsShown` | all of `LoginsFollowLocations`, `SessionsAreAsShown` |
| `AutomationProofs` | `TasksAlwaysFollowRules`; of RuleEditor `EngineAlwaysFollows`; of Tags `TagsAreAlwaysKept` | all of `TasksFollowRules`, `TagsAreKept`; of `RulesAreKept` `EngineFollowsFiles` |
| `PluginsProofs` | `PluginsAlwaysAsShown`; of Desktop `BusAlwaysFollowsTheWindow`, `OwnersAlwaysStay` | all of `PluginsAreAsShown`, `BusFollowsWindow`; of `WindowsServe` all but liveness |
| `NavigationProofs` | `PanesAlwaysListWhatTheySay`, `RequestsAreAlwaysMet`; of Thumbnails `RowsAlwaysShowTheirFile`, `ThumbnailsAreAlwaysRight` | all of `PanesListWhatTheySay`, `RequestsAreMet`, `ThumbnailsAreRight` |
| `WindowProofs` | `RowsAreAlwaysAsShown`, `MovesAreAlwaysAskedFor`, `PanelAlwaysFollowsSelection`, `WindowAlwaysShowsTabs` | all of `RowsAreAsShown`, `MovesAreAskedFor`, `PanelFollowsSelection`, `WindowShowsTabs` |

Why the properties are not inductive by themselves, and what makes them so:

- **OperationQueue.** `PermitsConserved` speaks of cardinalities: that `Complete` gives back one
  permit needs that the operation was in the active list and nowhere else. `IInv` joins the types,
  `OneStageEach` and the balance, and the cardinality lemmas of the library do the
  arithmetic. `OrderInv` adds the order in which operations were submitted; its step lemmas
  speak of `InsertAt` and `RemoveAt` at the position the code computes. A step of the queue
  is one of the pool's or changes none of its stages (`PoolStep`), with the invariant as
  its hypothesis: that is the refinement.
- **Chooser.** An answer fits because the dialog was fine when it was given (`FineDialog`): rows
  selected are there and as many as may be, the filter is one offered, and a question on
  screen covers all that was there at the result's paths (`AskingFits`). Acts of the user
  have one of two outcomes, a fine dialog or a fine answer (`Outcome`), so every way to
  accept goes through the same lemmas. Quitting needs that, with no dialog on screen, a timer of the present
  generation was set after the last one (`PortalFits`). The assumption is that the default
  folder is there and stays.
- **OperationControl.** That an answer settles the question it was given to depends on where the
  question and its answer can be: in the event channel, the dialog, the command channel, a
  `resolve_pending` that was spawned, or the answer channel. `OneQuestion` says that it is in one of
  them, once, and of the item its operation waits on; `EndIsHeard` that the end of an
  operation is the last the window hears of it; `CancelIsSeen` that a cancelled one has acted
  at most once more and is then where it sees the mark.
- **FileOperations.** That files stay trees needs the same of what lies in the trash, and that a
  restore puts a tree back where it came from: keys of the trash name the operation and the item
  (`TrashFits`, `RecordsFit`), and a task keeps to a request made (`TaskFits`). Alone, a task
  finds its target and an undo its way as they were left (`AloneFits`). `MovesFit` adds
  what a move across devices has copied before it deletes its source (`IsCopied`). The lemmas on
  paths (`PrefixOrder` and those it serves) hold for paths of any depth; their finite trees
  are constants. `OperationsLoseNothing` leaves two actions out, `UndoCopy` and `UndoTrash`:
  that a blocked undo of a move has not put content into what a later undo of a copy
  deletes relates the whole stack of records to the files, and this part of
  `NothingLostUnasked` is TLC's, as `UndoIsExact` is.
- **TrashFs.** `TrashAlwaysKeeps` is about each file of an item: one copied is whole on the other
  side before it is removed, and nobody else adds to a folder while it is moved (`CallFits`).
  That what is moved into the trash is listed needs that nothing lay under its name
  since it was picked, and that the `.trashinfo` written is still its own (`CallFits`); that an
  undo puts it back where it came from, that the entries of the undo stack are of different
  items in the trash and none of them of the one being restored (`HeldFits`, `HeldApart`). A
  crash forgets calls and stack and leaves `InfosFit`, which is about the directories alone.
- **SmbSessions.** Three layers, by what the scene allows: `LockInv` whoever is at work (who
  holds which connection, trees are recorded with the session they are of), `SoloInv` with
  connects and disconnects one at a time (a connect asks with its own login, between two
  logins no location is open), `AloneInv` with no browser (the connection is of the login).
- **RemoteSessions.** What the rows and panes show is of connections that may be gone: `KeyFits` says
  of each server that a disconnect and a use of it are never under way together (as long as
  nothing `crossed`), that one in use is connected, and that a row or a pane without a
  connection is about to hear of that. `SessionsFit` that a session is in the map under one key,
  or on its way into it, or to be closed; `DialogFits` that a busy dialog has a task or an
  answer. The tasks' steps share one lemma, `EndsWith` for those that end a call and
  `StepsOn` for those that go on.
  `CallsHoldLocks` says who waits for whom: a session's lock is held by a call at work on it,
  and the map by a disconnect that waits for its session or closes it. Whoever waits for the
  map so waits for a disconnect, and whoever waits for a session for a call with an answer coming.
- **RuleEditor.** The engine is behind the files by the commands on their way: there are engines from
  the one it is to the one on file, each what the next command makes of the one before
  (`LeadsTo`), up to the rules in `unsaved`: a failed save or deletion puts its rule there, and the
  next that succeeds takes it out with an order that brings both together. That needs rows whose rules are on file as they are but for the switch (`RowsFit`).
- **Tags.** The sidebar is right when the last answer is, and that may be far behind: requests are
  numbered in the order they are made (`AsksFit`), answers stand in that order, each listing
  before its counts (`InTurn`), the last request is for the active pane and the folder it will
  be in (`PathsFit`), and the last of them is of the engine as it is now
  (`LastIsRight`), unless counts overtook each other or a user went on before a folder was listed.
  Of the tags, the last command about a file and a tag decides, or the engine where there is none
  (`Makes`), and the file is as the engine unless it is being saved (`EditsFit`, `RulesFit`).
  `TagAssumption` says that a window opens with a folder there is, and that rows are sequences.
- **Thumbnails.** A key is of the version a thread saw, which the file may have left by the time the
  thumbnail is whole: `JobFits` bounds both, `CacheFits` follows; permits are those of the
  threads that stand where one is held (`PermitsFit`). A permit given back is claimed by the
  thread it wakes (`Claimants`), so while anyone sleeps as many have one, or are about to ask
  for one, as there are permits.
- **Automation.** `NoTaskOutlivesItsRule` and `EnabledRulesAreActive` need `HandlesAreLive`, that what
  `watcher_handles` holds was not aborted, and of each task what its place in the code
  implies (`SoundTask`): only one in a call goes on when it is aborted.
- **Plugins.** The window is behind the manager by the events it has not read: `MenuFollows` and
  `ListFollows` say that the last one under way decides, or that none is and the window has
  it right; `LockFits` that whoever runs a script holds the lock for it.
- **Desktop.** A window is behind its service by the listing, by events, or not at all (`WindowFits`),
  and the bus by the signal of that listing (`SignalFits`). Where tabs are closed, the last that
  is under way is of an open pane and can be listed (`UntabFits`); elsewhere everything is
  (`PanesOpen`). Closing a tab while something may ask for its pane is the scene left out
  (`ClosesSafely`; see section 5). TLC checked the invariant in such scenes too.
- **Navigation.** Commands, loads and events are one way to a pane. `ListsFit`, `TagsFit`, `RecentFits`,
  `RevealsFit`, `HighlightFits` and `AskedFits` each say that the pane is as promised, or that
  what will make it so is `Coming` with nothing behind it that undoes it; when all three are
  empty that is the property.
- **Listing.** A pane that is not `ahead` says the folder it lists (`PanesAreOfTheirFolder`), so a status
  found for that folder is one of its rows' (`MarksAreOfThePane`, whatever a search has added); a bar that
  is open has a text and a scope (`BarIsOfSomething`).
- **Dragging.** What the window knows of a drag may be of an earlier one: `info.of` never runs ahead
  of the drags begun, and what is known of this one (`KnownOfTheDrag`) is of its files and of
  actions it offers or has offered.
- **Previews.** A panel's fields agree (`PanelFits`); a preview waited for is being made, ready or
  failed (`Expected`); a film on screen plays or is about to be reopened (`Plays`); with no
  follow or sync pending the panel is `OnSelected`, and with nothing selected
  `OnWhatIsThere`, unless a monitor's event or its grace period is to come.
- **Tabs.** Bar, views and title are right, or a listing or an idle callback `OnWay` will make
  them so (`BarComes`, `ViewsCome`, `TitleComes`); `LoadsFit` that the listing ends well and is of
  a pane there was. That no click panics needs `Len(bar) <= Len(tabs)` at all times, and that a
  drag keeps the active tab that the code's order of tabs is a permutation (`MovedIs`).
- **Settings.** What a window has is ahead of the file by blank associations and a zoom that has yet
  to settle, and by nothing else unless it is saving or the last save failed (`AheadOf`); the rows of actions and shortcuts stand where
  their item does (`RowsFit`), for no two have a number or an action in common (`Numbered`,
  `OneEach`). That a file is read as it was written needs that adding the missing shortcuts
  changes nothing where none is missing (`MissingAreBound`). `SettingAssumption` says that
  a file from before binds no action twice, as the program never writes one that does.

Out of the prover's reach, and TLC's: all liveness properties. No module that is proved about declares a
recursive operator and nothing is proved by induction over data: where `FileOperationsProofs` needs
the last step up a path, it takes a least element of a set of numbers (`WFMin`).
Not proved so far, though within reach: the invariants of DirSizes, RemoteFiles, Search
and Reports, `EditingKeepsRules` of RuleEditor (which would need an induction over
words), and the other action properties (`UndoIsExact`, `ChoicesAreKept`, `OnlyWhatIsAsked`).

## 5. Where code and comments disagree

Four runs are violated as the code is:

- `delete`: a key that deletes for good what is not in the trash, pressed before the trash is
  listed (`window.rs:2752`);
- `stranded`: a server that is disconnected while it is connected to again, or listed, leaves a
  row without a connection or a pane on a server that is gone (`main.rs:1400`);
- `duplicates`: the results of a second scan replace the rows of Find Duplicates, and not what
  was selected in the first ones, which Move to Trash takes as well (`duplicate_dialog.rs:189`);
- `merging`: a folder that holds a folder of its own name is moved up to where the folder
  around it lies; the copy merges into that one, and deleting the source deletes what was
  merged (`executor.rs:508`).

The others were met while modelling and are kept out of the runs by the condition of a
property, or by what the scenes hold; "To see it" says what to change. `PROJECT.json` has
the line of the code under `hazards` where a property guards it.

**Check and use with an await between**

| Code | What it does | What the source says | To see it |
|---|---|---|---|
| `executor.rs:425` | `move_item` renames onto a target that was free at the conflict check; a local rename replaces what has appeared since | `executor.rs:55` "Without this nothing may replace `path`" | `NoUnagreedOverwrite` without `~scene.replaces`, two tasks running |
| `executor.rs:508` | a move across devices deletes the source folder with files that appeared in it during the copy | `executor.rs:414` "the source is only deleted once the copy has fully succeeded" | `NothingLostUnasked` without `Alone`, `devices`, two running |
| `undo.rs:379` | `undo_move` checks the old place and renames in two steps | `undo.rs:349` "Something that has since appeared at an original location is never written over" | as the first, with an undo |
| `trash.rs:264` | two operations find the same trash name free and the second replaces the first | `trash.rs:261` "Generate a unique name" | `TrashKeepsItems` without `Orderly`, `running` 2 |
| `executor.rs:207` | `checkpoint` looks at the cancellation before it waits out a pause: what is cancelled while paused acts once more | `executor.rs:201` "Stop on cancellation and wait while paused, between items" | `CancelCostsOneItem` allows this one item |
| `router.rs:82` | the check that a server is unused and the login are apart: the later of two users replaces the first one's identity | `router.rs:85` "an in-use server is only reused, never replaced" | `KeepsIdentity` with `together` 2 |
| `router.rs:151` | a server is forgotten while another connect has just opened a location on it | `router.rs:43` "A server stays logged in while any location on it is open" | `StaysLoggedIn` with `together` 2 |
| `smb.rs:598` | a login with credentials read before an await is kept after they were replaced or forgotten | `smb.rs:577` "logging in again with the stored credentials", `router.rs:133` "The server is logged out" | `ServedAsOpened`, `NothingLingers` with a browser |
| `smb.rs:652` | `fail` removes whatever connection the map holds by then, not the one that died | `smb.rs:625` "forget a connection that died" | two browsers; compare `current` before and after |
| `dir_size_cache.rs:54` | an invalidation finds no entry to mark, or comes between comparison and insertion | `dir_size_cache.rs:49` "Write only if the generation matches" | `SettledIsRight` without `doubt`, `tasks` 2 with copies and a validation |

**A record or a button that outlives what it names**

| Code | What it does | What the source says | To see it |
|---|---|---|---|
| `executor.rs:353` | a copy pushes its record at its end, so what replaces its results meanwhile withdraws nothing, and undo deletes the replacement | `undo.rs:222` "Stop offering undo for every earlier copy or move whose result is `path`" | `UndoSparesOverwrites` without `Alone`, two running |
| `undo.rs:338` | undo of a copy deletes the whole tree, with what was put into it later | `executor.rs:341` "Undoing a copy deletes what it made" | copy `A/d` to `B`, create or move `x` into `B/d`, undo |
| `trash.rs:140` | restore takes what lies under the name by now, which may be another item | `trash.rs:131` "Restore a file from the trash to its original location" | `EachItemIsListed` without `Orderly`, the calls `undo` and `restore_by_name` in one scene |
| `trash.rs:55` | a symbolic link is recorded under its target, and restored over it | the same | the same without `Orderly`: put an `ALink` in `FileAndFolder` |
| `trash.rs:300` | restore puts an item over what lies at its old path by now, and merges a folder into one that is there | `trash.rs:131`, as above; `undo.rs:349` says of undo that nothing is written over | `TrashKeepsItems` without `RestoredOver` |
| `trash.rs:193` | a `.trashinfo` without a file is never removed by `empty`, which counts it | `trash.rs:207` "Empty the entire trash" | a crash after `info`, then `empty` |
| `tab_bar.rs:103` | the close button changes the list alone: bar and views stay, a later click may panic, a drop may go to another folder | `tab_bar.rs:11` "showing open tabs", `tab_bar.rs:143`, `state.rs:196` | `NeverPanics`, `BarShowsTabs`, `ViewsShowActive`, `DropsGoWhereShown` without `ClosesByKeys` |
| `tab_bar.rs:219` | the new-tab button leaves the bar to a listing that may fail | `tab_bar.rs:11` | `BarShowsTabs` without `AllList`, a user with `button_new` and `open` |
| `engine.rs:274` | after its wait a rule acts on a file that is gone, if no condition looks at it | `engine.rs:328` "the caller's checks will find it gone" | a scene whose rules have `sees` FALSE |

**An answer that is applied to what is there by then**

| Code | What it does | What the source says | To see it |
|---|---|---|---|
| `window.rs:2136` | in the Recent view a tag's files of the folder behind it narrow the recent files | `window.rs:2131` "those paths describe a directory that is no longer on screen" | `SettledTagIsOfListing` with `tag` and `recent` |
| `pane_view.rs:509` | a Recent request of one pane discards that of the other, whose view stays empty | `pane_view.rs:471` "the listing fills in when that is done" | `RecentFillsIn` without `OnePane` |
| `window.rs:1675` | a reload sent before Recent was opened ends it | `pane_view.rs:551` "a reload is not a request to leave it" | `asked[p] = Recents => pane[p].recent`, with `reload` |
| `sidebar.rs:799` | the sidebar and the path bar do not drop a reveal that waits | `state.rs:89` "Called whenever the user navigates by hand" | `locate`, then `go`; a reveal into a folder reached later |
| `main.rs:1725` | a tag listing that fails leaves the tag highlighted | `window.rs:1689` "does not show a query or tag that is no longer applied" | `HighlightedTagIsApplied` with a failing folder |
| `main.rs:1848` | counts asked for before a tag may be sent after those that observe it, and TagCountsUpdated does not say of which folder it is | `main.rs:1676` "a RefreshTagCounts queued right behind this command observes the new tag" | `CountsAreOfActivePane` without `overtaken` or `hurried` |
| `search_bar.rs:53` | dismissing clears the filter of the pane active then | `search_bar.rs:45` "the listing returns to the full directory" | `DismissedIsUnfiltered` with `switch` |
| `main.rs:1173` | results that arrive after a dismissal are still appended | the same | `dismiss` during a search |
| `recursive.rs:102` | `reset` lets a search that was cancelled go on | `recursive.rs:95` "Cancel any in-progress search" | `CancelEnds` with `reset` |
| `main.rs:547` | the measure of an earlier copy may overwrite a later one's | `dir_size_cache.rs:36` "where we know the value is correct" | `SettledIsRight` without `doubt`, copies with `tasks` 2 |
| `main.rs:723` | the delta of a deletion is applied though the watcher has measured since | the same | `SettledIsRight` without `doubt`, `delete` under `watched` |
| `main.rs:1317` | a plugin switched off and on may stay loaded, its commands take the lock in any order | `settings_plugins.rs:15` "switches to load or unload each one" | `LoadedAsChosen` without `patient` |
| `window.rs:818` | a script may see a selection later than the one it was run on | `window.rs:802` "sees exactly what it was run on" | `select` between `action` and its task |

**Cases the code does not tell apart**

| Code | What it does | What the source says | To see it |
|---|---|---|---|
| `engine.rs:252` | a file that is moved into a directory is not "created" | `automation_types.rs:31` "New file appears in a watched directory" | a rule for created files and a rename |
| `main.rs:624` | the sizes of all sources are subtracted from the parent of each | `main.rs:594` "Capture source sizes before the move" | `SettledIsRight` without `doubt`, `move` with `MaxSources` 2 |
| `main.rs:547`, `:618`, `:649` | after a copy or move no directory above the destination or the sources' parents is corrected; a directory moved that was not cached counts as 0; an operation that fails leaves every size | `dir_size_cache.rs:36` | `SettledIsRight` without `doubt`, the top cached |
| `router.rs:218` | a link whose target cannot be looked at, for any error, is left out and the copy ends well | `router.rs:196-203` says it of dangling links | `CopiesAreComplete` without `unseen` |
| `main.rs:380` | the watch does not see files inside the subdirectories shown | `main.rs:172` "a direct child of it (a subdirectory we display)" | `change` below the one `watched` |
| `recursive.rs:247` | a limit of 0 sends one result | `recursive.rs:35` "Maximum number of results to return" | `LimitsHold` for `hits` 0 |
| `config.rs:475` | switching off the only enabled plugin enables all others | `config.rs:467` "Record the user's choice for one plugin" | `ChoiceSparesOthers` without its condition |

**Met in the parts modelled last**

| Code | What it does | What the source says | To see it |
|---|---|---|---|
| `smb.rs:871`, `sftp.rs:344` | a file whose writing failed is withdrawn by its name, also when another client has put its own there | `sftp.rs:343` "Only a file this call created is removed." | `OnlyWhatIsAsked` without `~Withdrawing` |
| `settings_automation.rs:149`, `:243`, `:287` | a rule that cannot be saved, or deleted, is only logged, and the engine told: it runs what is not on file, until the next start | `settings_automation.rs:71` "the source of truth the backend also loads from" | `EngineFollowsFiles` for `unsaved` rules |
| `automation_rule_dialog.rs:120`, `:376`, `:447` | a rule that is opened and saved as it is loses blanks around its texts, divides folders at ";" and extensions at ",", and expands "~/" | `automation_rule_dialog.rs:220` "kept as they are" is of conditions it cannot show | `EditingKeepsRules` without the `Plain...` conditions |
| `settings_dialog.rs:154`, `zoom.rs:60`, `settings_actions.rs:109` | a save that fails is dropped or logged, and the window goes on with what is on no file; one cut short leaves defaults at the next start | nothing | `SettledIsSaved` without `unsaved` |
| `file_list.rs:1063`, `window.rs:1719` | a folder that is opened and cannot be listed stays the pane's path, over the rows, filter and marks of the one before | `pane_view.rs:18`, `state.rs:67` | `FilterIsOfWhatIsShown`, `MarksAreOfTheirFolder` without `ahead` |
| `file_list.rs:954`, `window.rs:1765` | a hit of a search gets the mark of its namesake in the folder, and goes to the side in use, whatever it shows | `state.rs:67` | `MarksAreOfTheirFolder` of every row |
| `settings_dialog.rs:734` | a row of the associations removes what stands at the index it had when the list was built | `settings_actions.rs:127` "so indexes stay right" (of the actions, which are built anew) | compare the associations in `EditsReachTheirItem` |
| `config.rs:698` | every window writes the whole configuration it read at its start, so the last one to save undoes what the others were told | nothing | `SettledIsSaved` without `Alone` |
| `main.rs:1533` | a new calculation clears the flag of a cancelled one, which goes on; a progress that comes after its error leaves "Calculating" on the status bar | nothing | `BarEndsWithWork` without `~inspected.cancelled` |
| `window.rs:2034` | a size is given to whichever Properties dialog is open | `window.rs:2033` "Compare using path display since disk usage uses RavenPath" | two things, `OpenProperties` twice |
| `window.rs:1808` | the marks of a folder are put on the rows of Recent, if that is the pane's path | `state.rs:67` "Filters, selection and version-control marks belong to a folder" | `MarksAreOfTheirFolder` without `~recent` |
| `file_list.rs:1253` | files dropped among the rows of one folder go to the folder that is being loaded | `file_list.rs:1178` "drops into the folder being shown" | compare `Destination` at `DropHere` with the folder of the pane's `listing`, in Dragging |
| `file_list.rs:985` | a folder whose size has come is no longer selected | nothing | `SizeFound` in Listing |
| `preview_panel.rs:584` | the picture of the file before may stand until the thumbnail of the next is made | nothing | `PanelFollowsSelection` of a picture under way |
| `thumbnails.rs:74` | a row whose file is edited keeps its picture until it is bound again | nothing | `Edit` in Thumbnails |
| `main.rs:296` | a reveal asked of a window whose first tab was closed reaches no pane | `fm1.rs:34` "Open the containing directory" | `CloseTab`, then `Reveal`, in Desktop |
| `custom_actions.rs:297` | `join_args` does not quote a word for its backslash alone, which `split_args` then drops | `custom_actions.rs:296` "The inverse of [`split_args`]: quote what needs quoting." | `EditingKeepsRules` without `LoneSlash` |
## 6. Not modelled

- Typeahead, filters, sorting (`raven-search/typeahead.rs`, `raven-core/filter.rs`, `sort.rs`):
  sequential functions over one listing, with unit tests for their cases. What a filter
  keeps is a constant of `Listing`.
- Plugin manifests, the scheduler's arithmetic, natural-language parsing, what a tag's rule matches: tables and
  parsers without state of their own; the parts that use them take their result as a
  constant.
- The preview cache (`raven-preview/cache.rs`): nothing attaches it (`main.rs:101` builds the router
  without one).
- Version control and system information beyond the answer that comes late: they run other
  programs, or read files of the system, and parse the output.
- Types shared by the crates; menus, banners, opening files with other programs, drawing.
- Of the parts that are modelled: bytes (a file's content is one value, a copy is whole or
  half), permissions, the texts of messages, and servers beyond the answers they give.
  A film that fails at once (`preview_panel.rs:526`) is one that fails later; a rule's watcher that
  could not watch counts as a task; of the bus's signals only the one of a listing is queued.
  `PROJECT.json` says it for each component.

## 7. What is left to do

1. Proofs. Next, by extending the proof modules there are: `ChoicesAreKept` without its
   liveness; `OnlyWhatIsAsked` (RemoteFiles); the searches' limits (Search).
2. An abstract `Sessions` that SMB and SFTP both implement; an abstract file operation (all or
   what was reported) that `FileOperations` implements, one item at a time.
3. Pure operators with reference definitions: `generate_unique_name`, the cron interval, what tag
   rules match, filters and sorting.

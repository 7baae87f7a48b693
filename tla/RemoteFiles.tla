------------------------------ MODULE RemoteFiles ------------------------------
(***************************************************************************)
(* Copying, writing and deleting between backends: local files, an SFTP  *)
(* server and an SMB share, each with its requests, that the router      *)
(* makes copies and moves of folders from.  Another client of the        *)
(* servers writes and removes files meanwhile, and any request may fail. *)
(*                                                                       *)
(* A path is a sequence: a place, then names.  What a task has yet to do *)
(* is a list of items, the recursion of copy_across and delete_tree.     *)
(***************************************************************************)
EXTENDS Naturals, Sequences, SequencesExt, FiniteSets

CONSTANTS
    Names,       \* of files and folders
    Depth,       \* how many names a path has at most (bound)
    Workers,     \* tasks
    Errands      \* scenes: a tree, who else is at work, and the jobs, at most one for each task

VARIABLES
    tree,        \* tree[p]: what is there
    work,        \* work[t]: the job, the items left, progress, the content read, links it could not see
    errand       \* the scene; left, how often others change something; failures, how many to come

fileVars == <<tree, work, errand>>

Places == {"here", "sftp", "smb"}
RemotePaths ==
    {<<place>> \o names : place \in Places, names \in UNION {[1..n -> Names] : n \in 0..Depth}}
Nothing == [kind |-> "none", of |-> "none", to |-> << >>]
FileOf(of) == [kind |-> "file", of |-> of, to |-> << >>]
Folder == [kind |-> "folder", of |-> "none", to |-> << >>]
Link(to) == [kind |-> "link", of |-> "none", to |-> to]
Half(t) == [kind |-> "file", of |-> "half", to |-> <<t>>]
NoJob == [do |-> "none", from |-> << >>, to |-> << >>]
Rested == [job |-> NoJob, items |-> << >>, kids |-> << >>, pc |-> "idle", data |-> "none",
           unseen |-> {}]

Place(p) == p[1]
ParentOf(p) == Front(p)
Within(p, root) == IsPrefix(root, p)
(* is_inside: strictly. *)
IsInside(p, outer) == IsPrefix(outer, p) /\ p # outer

FileInit ==
    /\ errand \in Errands
    /\ tree = [p \in RemotePaths |-> IF p \in DOMAIN errand.tree THEN errand.tree[p]
                                                     ELSE IF Len(p) = 1 THEN Folder ELSE Nothing]
    /\ work = [t \in Workers |-> Rested]

(* Where a path leads if folders on it are links, and then through the last link. *)
Real(p) == IF \E i \in 1..(Len(p) - 1) : tree[SubSeq(p, 1, i)].kind = "link"
           THEN LET i == CHOOSE j \in 1..(Len(p) - 1) : tree[SubSeq(p, 1, j)].kind = "link"
                IN  tree[SubSeq(p, 1, i)].to \o SubSeq(p, i + 1, Len(p))
           ELSE p
Follow(p) == IF tree[Real(p)].kind = "link" THEN tree[Real(p)].to ELSE Real(p)
Children(p) == {q \in RemotePaths : Len(q) = Len(p) + 1 /\ ParentOf(q) = p /\ tree[q] # Nothing}

Next1(t) == Head(work[t].items)
Set(t, state) == work' = [work EXCEPT ![t] = state]
Failed(t) == Set(t, [work[t] EXCEPT !.items = << >>, !.pc = "failed"])
Done(t, items) == Set(t, [work[t] EXCEPT !.items = items, !.kids = << >>, !.data = "none",
                                         !.pc = IF items = << >> THEN "ok" ELSE "walk"])
FailSome == errand.failures > 0 /\ errand' = [errand EXCEPT !.failures = @ - 1]
Exclusive(t) == work[t].job.do \in {"copy_new", "write_new"}
At1(t, pc) == work[t].pc = pc /\ work[t].items # << >>

-------------------------------------------------------------------------------
(* Jobs. *)

Item(from, to, link, selected) == [from |-> from, to |-> to, link |-> link, selected |-> selected]

(* VfsRouter::copy and copy_new refuse a folder into itself. *)
StartJob(t) ==
    /\ work[t] = Rested /\ \E job \in errand.jobs :
          /\ \A u \in Workers : work[u].job # job
          /\ LET begun == [Rested EXCEPT !.job = job]
             IN  IF job.do \in {"copy", "copy_new"} /\ IsInside(job.to, job.from)
                 THEN Set(t, [begun EXCEPT !.pc = "failed"])
                 ELSE Set(t, [begun EXCEPT
                        !.pc = CASE job.do = "delete" -> "look" [] job.do = "write_new" -> "open"
                                 [] job.do = "rename" -> "rename" [] OTHER -> "walk",
                        !.items = <<Item(job.from, job.to, FALSE, TRUE)>>, !.data = "new"])
    /\ UNCHANGED <<tree, errand>>

-------------------------------------------------------------------------------
(* copy_across. *)

IsLink(item) == IF Place(item.from) = "here" THEN tree[Real(item.from)].kind = "link" ELSE item.link

(* Mutant: what is listed as a link is skipped. *)
WalkNoLinks(t) ==
    /\ At1(t, "walk") /\ UNCHANGED <<tree, errand>>
    /\ LET item == Next1(t)
           target == tree[Follow(item.from)]
       IN  CASE IsLink(item) -> Done(t, Tail(work[t].items))
             [] target = Nothing /\ ~IsLink(item) -> Failed(t)
             [] target.kind = "folder" /\ ~IsLink(item) -> Set(t, [work[t] EXCEPT !.pc = "list"])
             [] OTHER -> Set(t, [work[t] EXCEPT !.pc = "read"])

(* copy_walk: a link to a folder is followed only if it was picked by name; one that leads
   nowhere is skipped. *)
Walk(t) ==
    /\ At1(t, "walk") /\ UNCHANGED <<tree, errand>>
    /\ LET item == Next1(t)
           target == tree[Follow(item.from)]
           link == IsLink(item)
       IN  CASE target = Nothing /\ ~link -> Failed(t)
             [] target = Nothing /\ link -> Done(t, Tail(work[t].items))
             [] target.kind = "folder" /\ link /\ ~item.selected -> Done(t, Tail(work[t].items))
             [] target.kind = "folder" /\ (~link \/ item.selected) -> Set(t, [work[t] EXCEPT !.pc = "list"])
             [] OTHER -> Set(t, [work[t] EXCEPT !.pc = "read"])

ListSource(t) ==
    /\ At1(t, "list") /\ UNCHANGED <<tree, errand>>
    /\ LET item == Next1(t)
           folder == Follow(item.from)
           kids == {Item(Append(item.from, Last(q)), Append(item.to, Last(q)),
                         tree[q].kind = "link", FALSE) : q \in Children(folder)}
       IN  IF tree[folder].kind = "folder"
           THEN Set(t, [work[t] EXCEPT !.kids = SetToSeq(kids), !.pc = "mkdir"])
           ELSE Failed(t)

(* create_dir: one that is there will do; SFTP does not make its parents. *)
MakeTarget(t) ==
    /\ At1(t, "mkdir") /\ UNCHANGED errand
    /\ LET to == Follow(Next1(t).to)
           missing == {p \in RemotePaths : IsPrefix(p, to) /\ tree[p] = Nothing}
       IN  IF /\ \A p \in RemotePaths : IsPrefix(p, to) => p \in missing \/ tree[p].kind = "folder"
              /\ Place(to) = "sftp" => missing \subseteq {to}
           THEN /\ tree' = [p \in RemotePaths |-> IF p \in missing THEN Folder ELSE tree[p]]
                /\ Done(t, work[t].kids \o Tail(work[t].items))
           ELSE UNCHANGED tree /\ Failed(t)

ReadSource(t) ==
    /\ At1(t, "read") /\ UNCHANGED <<tree, errand>>
    /\ LET source == tree[Follow(Next1(t).from)]
       IN  IF source.kind = "file" THEN Set(t, [work[t] EXCEPT !.data = source.of, !.pc = "open"])
           ELSE Failed(t)

(* Mutant: with the flags of write. *)
TakenByFolder(t, to) == tree[Follow(to)].kind = "folder"

(* write_new finds a name taken, whatever has it; write only by a folder. *)
Taken(t, to) == IF Exclusive(t) THEN tree[Real(to)] # Nothing ELSE tree[Follow(to)].kind = "folder"
OpenTarget(t) ==
    /\ At1(t, "open") /\ UNCHANGED errand
    /\ LET to == Follow(Next1(t).to)
       IN  IF Taken(t, Next1(t).to) \/ tree[ParentOf(to)].kind # "folder"
           THEN UNCHANGED tree /\ Failed(t)
           ELSE tree' = [tree EXCEPT ![to] = Half(t)] /\ Set(t, [work[t] EXCEPT !.pc = "write"])

(* What is written goes to the file that was opened, if it is still there. *)
WriteTarget(t) ==
    /\ At1(t, "write") /\ UNCHANGED errand
    /\ LET to == Follow(Next1(t).to)
       IN  tree' = IF tree[to] = Half(t) THEN [tree EXCEPT ![to] = FileOf(work[t].data)] ELSE tree
    /\ Done(t, Tail(work[t].items))

(* A failed write: a new file is withdrawn from a server, by its name, not from here. *)
WriteFails(t) ==
    /\ At1(t, "write") /\ FailSome /\ UNCHANGED tree
    /\ IF Exclusive(t) /\ Place(Next1(t).to) # "here" THEN Set(t, [work[t] EXCEPT !.pc = "withdraw"])
       ELSE Failed(t)

(* SFTP removes a file; SMB whatever is there, a folder with all in it. *)
WithdrawHalf(t) ==
    /\ At1(t, "withdraw") /\ Failed(t) /\ UNCHANGED errand
    /\ LET to == Next1(t).to
       IN  tree' = [p \in RemotePaths |->
                      IF (Place(to) = "smb" /\ Within(p, to)) \/ (p = to /\ tree[to].kind # "folder")
                      THEN Nothing ELSE tree[p]]

(* Whatever keeps a link from being looked through, it is skipped as one that leads nowhere,
   and the copy goes on. *)
LinkUnseen(t) ==
    /\ At1(t, "walk") /\ IsLink(Next1(t)) /\ FailSome /\ UNCHANGED tree
    /\ LET rest == Tail(work[t].items)
       IN  Set(t, [work[t] EXCEPT !.items = rest, !.unseen = @ \cup {Next1(t).from},
                                  !.pc = IF rest = << >> THEN "ok" ELSE "walk"])

(* Any other request fails, and the task: of a link the one without following it, which is made
   here only. *)
RequestFails(t) ==
    /\ work[t].pc \in {"walk", "list", "mkdir", "read", "open", "look", "rmdir", "rename"}
    /\ work[t].items # << >> /\ FailSome /\ Failed(t) /\ UNCHANGED tree
    /\ work[t].pc = "walk" => Place(Next1(t).from) = "here" \/ ~IsLink(Next1(t))

-------------------------------------------------------------------------------
(* delete_tree and delete_inner; remove_dir_all is the same, here. *)

Delete1(t, rest) ==
    Set(t, [work[t] EXCEPT !.items = rest, !.pc = IF rest = << >> THEN "ok"
                               ELSE IF Head(rest).selected THEN "look" ELSE "rmdir"])

(* With lstat: a link is removed as such. A folder is listed, and removed last. *)
Look(t) ==
    /\ At1(t, "look") /\ UNCHANGED errand
    /\ LET p == Real(Next1(t).from)
           kids == {Item(q, << >>, FALSE, TRUE) : q \in Children(p)}
       IN  IF tree[p] = Nothing THEN UNCHANGED tree /\ Failed(t)
           ELSE IF tree[p].kind = "folder"
           THEN /\ UNCHANGED tree
                /\ Delete1(t, SetToSeq(kids) \o <<Item(p, << >>, FALSE, FALSE)>> \o Tail(work[t].items))
           ELSE tree' = [tree EXCEPT ![p] = Nothing] /\ Delete1(t, Tail(work[t].items))

RemoveFolder(t) ==
    /\ At1(t, "rmdir") /\ UNCHANGED errand
    /\ LET p == Next1(t).from
       IN  IF tree[p].kind = "folder" /\ Children(p) = {}
           THEN tree' = [tree EXCEPT ![p] = Nothing] /\ Delete1(t, Tail(work[t].items))
           ELSE UNCHANGED tree /\ Failed(t)

(* Within one place: servers do not replace what has the new name. *)
Rename(t) ==
    /\ At1(t, "rename") /\ UNCHANGED errand
    /\ LET from == Next1(t).from
           to == Next1(t).to
           moved(p) == IF Within(p, to) /\ to \o SubSeq(p, Len(to) + 1, Len(p)) = p
                       THEN tree[from \o SubSeq(p, Len(to) + 1, Len(p))]
                       ELSE IF Within(p, from) THEN Nothing ELSE tree[p]
       IN  IF /\ Place(from) = Place(to) /\ tree[from] # Nothing /\ tree[ParentOf(to)].kind = "folder"
              /\ ~Within(to, from)
              /\ IF Place(to) = "here" THEN tree[to].kind \notin {"folder"} ELSE tree[to] = Nothing
           THEN tree' = [p \in RemotePaths |-> moved(p)] /\ Done(t, << >>)
           ELSE UNCHANGED tree /\ Failed(t)

-------------------------------------------------------------------------------
(* Another client of a server writes a new file, or removes something. *)
TheyWrite(p) ==
    /\ errand.left > 0 /\ Place(p) # "here" /\ Len(p) > 1
    /\ tree[p] = Nothing /\ tree[ParentOf(p)].kind = "folder"
    /\ tree' = [tree EXCEPT ![p] = FileOf("theirs")] /\ errand' = [errand EXCEPT !.left = @ - 1]
    /\ UNCHANGED work

TheyRemove(p) ==
    /\ errand.left > 0 /\ Place(p) # "here" /\ Len(p) > 1 /\ tree[p] # Nothing /\ Children(p) = {}
    /\ tree' = [tree EXCEPT ![p] = Nothing] /\ errand' = [errand EXCEPT !.left = @ - 1]
    /\ UNCHANGED work

FileNext ==
    \/ \E t \in Workers :
          \/ StartJob(t) \/ Walk(t) \/ ListSource(t) \/ MakeTarget(t) \/ ReadSource(t) \/ OpenTarget(t)
          \/ WriteTarget(t) \/ WriteFails(t) \/ WithdrawHalf(t) \/ RequestFails(t) \/ LinkUnseen(t)
          \/ Look(t) \/ RemoveFolder(t) \/ Rename(t)
    \/ \E p \in RemotePaths : TheyWrite(p) \/ TheyRemove(p)

FileSpec == FileInit /\ [][FileNext]_fileVars

-------------------------------------------------------------------------------
WasRemoved(p) == tree[p] # Nothing /\ tree'[p] = Nothing
WrittenOver(p) == tree[p].of = "theirs" /\ tree'[p] # tree[p]
ToRemove(p) == \E t \in Workers : work[t].job.do \in {"delete", "rename"} /\ Within(p, work[t].job.from)
ToWrite(p) == \E t \in Workers : work[t].job.do = "copy"
                                 \/ (work[t].job.do = "rename" /\ Within(p, work[t].job.to))
Withdrawing == \E t \in Workers : work[t].pc = "withdraw"

(* sftp.rs: "what it points to is never touched"; vfs.rs:44 "without replacing any existing
   file": nothing is removed but in what is to be deleted or moved, where links are not
   followed, and what others wrote is written over only by a copy that was asked to; but for a
   file withdrawn by its name. *)
OnlyWhatIsAsked ==
    [][errand'.left = errand.left /\ ~Withdrawing =>
         \A p \in RemotePaths : /\ WasRemoved(p) => ToRemove(p)
                          /\ WrittenOver(p) => ToRemove(p) \/ ToWrite(p)]_fileVars

(* What a copy of from makes, by the definition: files, links to files as the files, folders,
   and of links to folders only the one that was picked. *)
Expected(from, p) ==
    LET target == tree[Follow(p)]
        link == tree[Real(p)].kind = "link"
    IN  IF target.kind = "folder" /\ link /\ p # from THEN Nothing
        ELSE IF target.kind = "folder" THEN Folder ELSE target
Reached(t, from) ==
    {p \in RemotePaths : Within(p, from) /\ \A i \in Len(from)..Len(p) :
        SubSeq(p, 1, i) \notin work[t].unseen /\ Expected(from, SubSeq(p, 1, i)) # Nothing}

(* router.rs: a copy that nobody disturbed and that ended well has made exactly what the source
   holds, in place of nothing or merged into a folder, but for the links it could not look
   through. *)
CopiesAreComplete ==
    \A t \in Workers :
       LET job == work[t].job
       IN  /\ work[t].pc = "ok" /\ job.do \in {"copy", "copy_new"} /\ Cardinality(errand.jobs) = 1
           /\ errand.alone
           => \A p \in RemotePaths : Within(p, job.to) /\ tree[p].of # "old" =>
                 LET source == job.from \o SubSeq(p, Len(job.to) + 1, Len(p))
                 IN  tree[p] = IF source \in Reached(t, job.from) THEN Expected(job.from, source)
                               ELSE Nothing
===============================================================================

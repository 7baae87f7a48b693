------------------------------ MODULE MCStorage ------------------------------
(***************************************************************************)
(* What becomes of files, for TLC, one part at a time.  FileOperations:  *)
(* two roots, a file x and a folder d holding a file x, and a spare name *)
(* y for keeping both.  TrashFs: a file and a folder of two, with one    *)
(* name; what the program does and the other calls of the library, on    *)
(* one device and between two.  RemoteFiles: a folder with a file and a  *)
(* link.  RemoteSessions: two logins, two panes, any three commands.     *)
(***************************************************************************)
EXTENDS FileOperations, TrashFs, RemoteFiles, RemoteSessions, TLC

CONSTANTS ax, bx, x, x2

VARIABLE part    \* the part that is at work

(* FileOperations *)
XAndY(dir) == {dir \o <<"x">>, dir \o <<"y">>}
SmallRoots == {<<"A">>, <<"B">>}
SmallPaths ==
    SmallRoots \cup UNION {XAndY(r) \cup {r \o <<"d">>} \cup XAndY(r \o <<"d">>) : r \in SmallRoots}

SmallDirs  == {<<"A", "d">>}
SmallFiles == {<<"A", "x">>, <<"A", "d", "x">>}

(* Folders have no spare name: keeping both is offered for files only. *)
SmallUnique ==
    [p \in SmallPaths |-> IF Len(p) > 1 /\ p[Len(p)] = "x"
                          THEN SubSeq(p, 1, Len(p) - 1) \o <<"y">> ELSE p]

Wish(kind, sources, dest) == [kind |-> kind, sources |-> sources, dest |-> dest]
Ax == <<"A", "x">>
Ad == <<"A", "d">>
Bx == <<"B", "x">>
Bd == <<"B", "d">>
Bdx == <<"B", "d", "x">>

Transferring ==
    {Wish("Copy", <<Ad, Ax>>, <<"B">>),
     Wish("Copy", <<Ax>>, <<"A">>), Wish("Copy", <<Ax>>, Bd),
     Wish("Move", <<Ax, Ad>>, <<"B">>), Wish("Move", <<Bx>>, <<"A">>),
     Wish("Move", <<Ax>>, Bd), Wish("Move", <<Ad>>, Ad)}
Removing ==
    {Wish("Trash", <<Bd, Bx>>, <<>>), Wish("Trash", <<Ax>>, <<>>),
     Wish("Delete", <<Bx>>, <<>>), Wish("Rename", <<Ax>>, Bx),
     Wish("CreateFile", <<>>, Bdx), Wish("CreateFile", <<>>, Ax), Wish("CreateDirectory", <<>>, Bd)}
Everything == Transferring \cup Removing
(* The trash takes local files only. *)
Remote == {r \in Everything : r.kind # "Trash"}

(* One local filesystem; one of two devices; and a remote one, where two tasks are at work
   together. *)
MCRequests ==
    {[requests |-> Everything, ops |-> 3, running |-> 1, replaces |-> TRUE, devices |-> FALSE],
     [requests |-> Transferring, ops |-> 2, running |-> 1, replaces |-> TRUE, devices |-> TRUE],
     [requests |-> Remote, ops |-> 2, running |-> 2, replaces |-> FALSE, devices |-> FALSE]}

(* TrashFs *)
FileAndFolder == (ax :> AFile(ax, "k")) @@ (bx :> AFolder(bx, {"l", "m"}))
NamesFor == [p \in {ax, bx} |-> <<x, x2>>]

MCTrashings ==
    {[calls |-> {"undo"}, running |-> 1, devices |-> FALSE, crashes |-> 2],
     [calls |-> {"undo"}, running |-> 1, devices |-> TRUE, crashes |-> 1],
     [calls |-> {"restore_by_name", "delete"}, running |-> 1, devices |-> FALSE, crashes |-> 1],
     [calls |-> {"restore_by_name", "delete"}, running |-> 1, devices |-> TRUE, crashes |-> 0]}

(* RemoteFiles *)
Job(do, from, to) == [do |-> do, from |-> from, to |-> to]
TopOf(host) == <<host, "a">>
In(host, n) == <<host, "a", n>>
(* A folder with a file and a link to a file, to a folder, or to nothing. *)
WithLinks(host, to) ==
    (TopOf(host) :> Folder) @@ (In(host, "a") :> FileOf("x")) @@ (In(host, "b") :> Link(to))
    @@ (<<"here", "b">> :> Folder) @@ (<<"here", "b", "a">> :> FileOf("y"))
Picked == (<<"here", "a">> :> Link(<<"here", "b">>)) @@ (<<"here", "b">> :> Folder)
          @@ (<<"here", "b", "a">> :> FileOf("y"))
Merged == (<<"smb", "b">> :> Folder) @@ (<<"smb", "b", "b">> :> FileOf("old"))
Shelf(t, jobs, alone) == [tree |-> t, jobs |-> jobs, alone |-> alone,
                          left |-> IF alone THEN 0 ELSE 2, failures |-> 1]
Links(host) == {<<host, "b">>, <<host, "b", "a">>, <<host, "b", "b">>}
Copying ==
    {Shelf(WithLinks("here", to) @@ m, {Job(do, TopOf("here"), <<host, "b">>)}, TRUE) :
        to \in Links("here"), do \in {"copy", "copy_new"}, host \in {"sftp", "smb"},
        m \in {WithLinks("here", <<"here", "b">>), Merged}}
    \cup {Shelf(WithLinks("sftp", to) @@ (<<"sftp", "b">> :> FileOf("y")),
                 {Job("copy", TopOf("sftp"), <<host, "a">>)}, TRUE) :
             to \in {<<"sftp", "b">>, <<"sftp", "a">>}, host \in {"here", "smb"}}
    \cup {Shelf(Picked, {Job("copy", <<"here", "a">>, <<"sftp", "a">>)}, TRUE),
          Shelf(Picked, {Job("copy", <<"here", "b">>, <<"here", "b", "b">>)}, TRUE)}
Sharing ==
    {Shelf(WithLinks("here", <<"here", "b", "a">>), {Job(do, TopOf("here"), <<host, "b">>), j}, FALSE) :
        do \in {"copy", "copy_new"}, host \in {"sftp", "smb"},
        j \in {Job("write_new", << >>, <<"sftp", "b">>), Job("delete", <<"sftp", "b">>, << >>)}}
    \cup {Shelf((TopOf("sftp") :> Folder) @@ (In("sftp", "a") :> FileOf("x"))
                 @@ (In("sftp", "b") :> Link(<<"sftp", "b">>)) @@ (<<"sftp", "b">> :> Folder)
                 @@ (<<"sftp", "b", "a">> :> FileOf("y")),
               {Job("delete", TopOf("sftp"), << >>), Job("rename", <<"sftp", "b">>, <<"sftp", "c">>)}, FALSE)}
MCErrands == Copying \cup Sharing

StorageInit ==
    /\ part \in {"operations", "trash", "remote", "sessions"}
    /\ Init /\ TrashInit /\ FileInit /\ RemoteInit
    /\ part # "operations" => scene = CHOOSE s \in Scenes : TRUE
    /\ part # "trash" => trashScene = CHOOSE s \in TrashScenes : TRUE
    /\ part # "remote" => errand = CHOOSE e \in Errands : TRUE
StorageNext ==
    /\ UNCHANGED part
    /\ \/ part = "operations" /\ Next /\ UNCHANGED <<trashVars, fileVars, remoteVars>>
       \/ part = "trash" /\ TrashNext /\ UNCHANGED <<filesVars, fileVars, remoteVars>>
       \/ part = "remote" /\ FileNext /\ UNCHANGED <<filesVars, trashVars, remoteVars>>
       \/ part = "sessions" /\ RemoteNext /\ UNCHANGED <<filesVars, trashVars, fileVars>>
StorageSpec == StorageInit /\ [][StorageNext]_<<filesVars, trashVars, fileVars, remoteVars, part>>
===============================================================================

------------------------------ MODULE DirSizes ------------------------------
(***************************************************************************)
(* The sizes of directories: DirSizeCache, and the tasks of the backend  *)
(* that keep it, each beside its own changes of the file system: file    *)
(* operations, the validation of what a listing shows, and the watcher.  *)
(*                                                                       *)
(* A task is the list of the steps it has left; tasks interleave between *)
(* steps.  Files have size 1, so a directory's own files are a number.   *)
(***************************************************************************)
EXTENDS Naturals, Sequences, FiniteSets, SequencesExt, FiniteSetsExt

CONSTANTS
    Dirs,        \* directories
    Up,          \* Up[d]: the parent of d, or Nowhere
    Nowhere,
    Spare,       \* a name that no directory has at first, in the parent of others
    Scenes,      \* how it may be, and what happens
    MaxSources,  \* bound on what one move takes
    MaxTasks,    \* bound on tasks under way at once, of any scene
    MaxFiles     \* bound on the files of a directory

KindNames == {"copy", "move", "delete", "rmdir", "rename", "list", "change"}

ASSUME DirSizesAssumption ==
    /\ Up \in [Dirs -> Dirs \cup {Nowhere}] /\ Nowhere \notin Dirs /\ Spare \in Dirs
    /\ \A s \in Scenes :
          /\ s.cached \subseteq s.there /\ s.there \subseteq Dirs \ {Spare} /\ s.at \subseteq Dirs
          /\ s.watched \in s.there \cup {Nowhere} /\ s.does \subseteq KindNames
          /\ s.files \in 0..MaxFiles /\ s.tasks \in 1..MaxTasks /\ s.left \in Nat

VARIABLES
    files,       \* files[d]: files in d itself
    exists,      \* the directories there are
    cache,       \* DirSizeCache.entries
    generation,  \* DirSizeCache.global_generation
    tasks,       \* tasks under way; task 0 is the watcher
    changed,     \* directories of which the watcher has events to come
    shown,       \* shown[d]: the size the window was told last
    doubt,       \* directories whose cached size the code does not see to, or may spoil
    misled,      \* directories of which the window was told what is cached no more
    scene        \* there, the directories there are at first, of which those in cached are
                 \* cached, one is watched or Nowhere, and each holds so many files; at, where
                 \* operations and other programs change files; does, what happens; tasks, how
                 \* many are under way at once; left, how many of all this are still to come

sizeVars == <<files, exists, cache, generation, tasks, changed, shown, doubt, misled, scene>>

NoEntry == [size |-> 0, generation |-> 0]
Cached(d) == cache[d] # NoEntry

(* The path up from d, and what is below it; d is on both. *)
Above[d \in Dirs] == {d} \cup IF Up[d] = Nowhere THEN {} ELSE Above[Up[d]]
Under(d) == {e \in Dirs : d \in Above[e]}
Children(d) == {e \in exists : Up[e] = d}

(* The size of d as it is. *)
SizeIn(fs, there, d) == MapThenSumSet(LAMBDA e : fs[e], Under(d) \cap there)
Size(d) == SizeIn(files, exists, d)

Step(do, d, n) == [do |-> do, dir |-> d, n |-> n]

(* A directory is measured again, and the size written whatever happened since; or written if
   its generation is still current. *)
Recompute(d) == <<Step("invalidate", d, 0), Step("scan", d, 0), Step("set", d, 0)>>
Validate(d) ==
    <<Step("invalidate", d, 0), Step("scan", d, 0), Step("check", d, 0), Step("insert", d, 0)>>

(* met: what others wrote of the directory while it was measured. *)
Idle == [steps |-> << >>, gen |-> 0, left |-> {}, sum |-> 0, was |-> Nowhere, met |-> {}]
Watcher == 0

Init ==
    /\ scene \in Scenes
    /\ exists = scene.there /\ files = [d \in Dirs |-> IF d \in exists THEN scene.files ELSE 0]
    /\ cache = [d \in Dirs |-> IF d \in scene.cached THEN [size |-> Size(d), generation |-> 1] ELSE NoEntry]
    /\ generation = 1
    /\ tasks = [i \in 0..MaxTasks |-> Idle]
    /\ changed = {} /\ doubt = {} /\ misled = {}
    /\ shown = [d \in Dirs |-> IF d \in scene.cached THEN Size(d) ELSE Nowhere]

(* inotify tells of what happens to the entries of the one directory watched, not of what
   happens inside these. *)
Noticed(ds) == changed' = changed \cup (ds \cap {scene.watched} \cap Dirs)

-------------------------------------------------------------------------------
(* DirSizeCache, by the task i. *)

Now(i) == Head(tasks[i].steps)
Does(i, do) == tasks[i].steps # << >> /\ Now(i).do = do
Then(i, steps) == tasks' = [tasks EXCEPT ![i].steps = steps \o Tail(@)]
Later(i, steps) == tasks' = [tasks EXCEPT ![i].steps = Tail(@) \o steps]
Ends(i) == tasks' = [tasks EXCEPT ![i] = Idle]

Put(d, size, gen) == cache' = [cache EXCEPT ![d] = [size |-> size, generation |-> gen]]

(* apply_delta, of a decrease: it saturates. *)
Less(size, n) == IF size > n THEN size - n ELSE 0
Decrease(d, n) == cache' = [cache EXCEPT ![d].size = Less(@, n)]

(* Measured, by i, and not written yet. *)
Measures(i, d) == tasks[i].steps # << >> /\ Now(i).dir = d /\ Now(i).do \in {"scan", "set", "check", "insert"}

(* A step that will reduce d: it is reduced itself, or it is cached and above what is, without
   a gap. *)
Unbroken(d) == {e \in Above[d] : \A g \in Above[d] : e \in Above[g] => Cached(g)}
Reduces(step, d) ==
    \/ step.do = "shrink" /\ step.dir = d /\ Cached(d)
    \/ step.do = "reduce" /\ step.n > 0 /\ d \in Unbroken(step.dir)
    \/ step.do = "propagate" /\ step.dir \in Dirs /\ d \in Unbroken(step.dir)

(* A size that is written while others, since it was measured, wrote a newer one, or reduce it. *)
Overtaken(i, d) ==
    \/ tasks[i].met # {}
    \/ \E j \in 0..MaxTasks : j # i /\ \E k \in DOMAIN tasks[j].steps : Reduces(tasks[j].steps[k], d)
Meeting(i, d, what, ts) ==
    [j \in 0..MaxTasks |->
        IF j # i /\ Measures(j, d) /\ (what = "set" => tasks[j].gen < tasks[i].gen)
        THEN [ts[j] EXCEPT !.met = @ \cup {what}] ELSE ts[j]]

Invalidate(i) ==
    /\ Does(i, "invalidate")
    /\ LET d == Now(i).dir IN
       /\ generation' = generation + 1
       /\ cache' = IF Cached(d) THEN [cache EXCEPT ![d].generation = generation + 1] ELSE cache
       /\ tasks' = [tasks EXCEPT ![i] = [@ EXCEPT !.steps = Tail(@), !.gen = generation + 1,
                                                  !.left = {d}, !.sum = 0, !.met = {}]]
       /\ doubt' = doubt \ {d}
    /\ UNCHANGED <<files, exists, changed, shown, misled, scene>>

(* calculate_dir_size reads one directory after the other. *)
Scan(i) ==
    /\ Does(i, "scan")
    /\ \E d \in tasks[i].left :
          LET left == (tasks[i].left \ {d}) \cup Children(d) IN
          tasks' = [tasks EXCEPT ![i] = [@ EXCEPT !.left = left,
                        !.sum = @ + IF d \in exists THEN files[d] ELSE 0,
                        !.steps = IF left = {} THEN Tail(@) ELSE @]]
    /\ UNCHANGED <<files, exists, cache, generation, changed, shown, doubt, misled, scene>>

(* Stored: the window is told, if of anything. *)
Stored(i, d, tell) ==
    /\ tasks' = Meeting(i, d, "set", [tasks EXCEPT ![i].steps =
                    (IF tell THEN <<Step("tell", d, tasks[i].sum)>> ELSE << >>) \o Tail(@)])
    /\ doubt' = IF Overtaken(i, d) THEN doubt \cup {d} ELSE doubt

SetSize(i) ==
    /\ Does(i, "set")
    /\ Put(Now(i).dir, tasks[i].sum, generation)
    /\ Stored(i, Now(i).dir, TRUE)
    /\ UNCHANGED <<files, exists, generation, changed, shown, misled, scene>>

(* Mutant of CheckCurrent: whatever the generation. *)
CheckNothing(i) ==
    /\ Does(i, "check")
    /\ tasks' = [tasks EXCEPT ![i] = [@ EXCEPT !.steps = Tail(@), !.met = @ \ {"set"}]]
    /\ UNCHANGED <<files, exists, cache, generation, changed, shown, doubt, misled, scene>>

(* insert_if_current: a look at the entry, and then the write. *)
CheckCurrent(i) ==
    /\ Does(i, "check")
    /\ IF Cached(Now(i).dir) /\ cache[Now(i).dir].generation > tasks[i].gen THEN Ends(i)
       ELSE tasks' = [tasks EXCEPT ![i] = [@ EXCEPT !.steps = Tail(@), !.met = @ \ {"set"}]]
    /\ UNCHANGED <<files, exists, cache, generation, changed, shown, doubt, misled, scene>>

Insert(i) ==
    /\ Does(i, "insert")
    /\ Put(Now(i).dir, tasks[i].sum, tasks[i].gen)
    /\ LET d == Now(i).dir  sum == tasks[i].sum IN
       /\ Stored(i, d, sum # tasks[i].was)
       /\ misled' = IF sum = tasks[i].was /\ shown[d] # sum THEN misled \cup {d} ELSE misled
    /\ UNCHANGED <<files, exists, generation, changed, shown, scene>>

(* An event for the window. *)
Tell(i) ==
    /\ Does(i, "tell")
    /\ LET d == Now(i).dir IN
       /\ shown' = [shown EXCEPT ![d] = Now(i).n]
       /\ misled' = IF Now(i).n = cache[d].size THEN misled \ {d} ELSE misled \cup {d}
    /\ Then(i, << >>)
    /\ UNCHANGED <<files, exists, cache, generation, changed, doubt, scene>>

Evict(i) ==
    /\ Does(i, "evict")
    /\ cache' = [d \in Dirs |-> IF d \in Under(Now(i).dir) THEN NoEntry ELSE cache[d]]
    /\ Then(i, << >>)
    /\ UNCHANGED <<files, exists, generation, changed, shown, doubt, misled, scene>>

(* propagate_delta_to_ancestors: up to the first one that is not cached; the window is told of
   them at the end. *)
Propagate(i) ==
    /\ Does(i, "propagate")
    /\ LET d == Now(i).dir  n == Now(i).n IN
       IF d # Nowhere /\ d \in Dirs /\ Cached(d)
       THEN /\ Decrease(d, n)
            /\ tasks' = Meeting(i, d, "less", [tasks EXCEPT ![i].steps =
                   <<Step("propagate", Up[d], n)>> \o Tail(@) \o <<Step("tell", d, Less(cache[d].size, n))>>])
       ELSE Then(i, << >>) /\ UNCHANGED cache
    /\ UNCHANGED <<files, exists, generation, changed, shown, doubt, misled, scene>>

-------------------------------------------------------------------------------
(* The file operations of the backend. *)

Start(kind) == kind \in scene.does /\ scene.left > 0 /\ scene' = [scene EXCEPT !.left = @ - 1]

Spawn(task) ==
    /\ \E i \in 1..scene.tasks : tasks[i] = Idle /\ tasks' = [tasks EXCEPT ![i] = task]
    /\ UNCHANGED <<files, exists, cache, generation, changed, shown, doubt, misled>>

Task(steps) == [Idle EXCEPT !.steps = steps]

(* The destination is measured again. *)
CopyFiles ==
    /\ Start("copy")
    /\ \E d \in exists \cap scene.at : Spawn(Task(<<Step("copy", d, 0)>> \o Recompute(d)))

(* Files, one of each directory in from, and directories. Their sizes, of a directory what is
   cached, are added up; each directory they were in is reduced by that, what is cached of them
   is evicted, and the destination is measured again. *)
MoveFiles ==
    /\ Start("move")
    /\ \E d \in exists \cap scene.at, dirs \in SUBSET {e \in exists \cap scene.at : Up[e] \in Dirs},
          from \in SUBSET {e \in exists \cap scene.at : files[e] > 0} :
       LET parents == from \cup {Up[s] : s \in dirs}
           total == Cardinality(from) + MapThenSumSet(LAMBDA s : cache[s].size, dirs) IN
       /\ d \notin parents /\ Cardinality(from) + Cardinality(dirs) \in 1..MaxSources
       /\ \A s \in dirs : d \notin Under(s) /\ from \cap Under(s) = {} /\ Under(s) \cap dirs = {s}
       /\ \E q \in SetToSeqs(IF total > 0 THEN parents ELSE {}), r \in SetToSeqs(dirs) :
             Spawn(Task(<<Step("move", d, [from |-> from, dirs |-> dirs, total |-> total])>>
                        \o [j \in DOMAIN q |-> Step("shrink", q[j], total)]
                        \o [j \in DOMAIN r |-> Step("evict", r[j], 0)] \o Recompute(d)))

(* DeleteFiles and TrashFiles, of a file: the size is taken before. *)
DeleteFile ==
    /\ Start("delete")
    /\ \E d \in exists \cap scene.at : files[d] > 0 /\ Spawn(Task(<<Step("delete", d, 1), Step("reduce", d, 1)>>))

(* Of a directory: its size is what was cached, or counts as 0. *)
DeleteDir ==
    /\ Start("rmdir")
    /\ \E d \in exists \cap scene.at : Up[d] \in Dirs /\
          Spawn(Task(<<Step("rmdir", d, cache[d].size), Step("evict", d, 0),
                       Step("reduce", Up[d], cache[d].size)>>))

RenameDir ==
    /\ Start("rename")
    /\ \E d \in exists \cap scene.at : Children(d) = {} /\ Up[d] = Up[Spare] /\
          Spawn(Task(<<Step("rename", d, 0), Step("rekey", d, 0)>>))

(* What an operation does to the disk, if it can; what a directory held that was moved counts
   as the destination's own. *)
OnDisk == {"copy", "move", "delete", "rmdir", "rename"}
After(i) ==
    LET d == Now(i).dir  n == Now(i).n IN
    CASE Does(i, "copy") -> [files EXCEPT ![d] = @ + 1]
      [] Does(i, "delete") -> [files EXCEPT ![d] = @ - 1]
      [] Does(i, "rmdir") -> [e \in Dirs |-> IF e \in Under(d) THEN 0 ELSE files[e]]
      [] Does(i, "rename") -> [files EXCEPT ![Spare] = files[d], ![d] = 0]
      [] Does(i, "move") ->
            [e \in Dirs |->
                IF \E s \in n.dirs : e \in Under(s) THEN 0
                ELSE IF e \in n.from THEN files[e] - 1
                ELSE IF e = d THEN files[e] + Cardinality(n.from) + MapThenSumSet(Size, n.dirs) ELSE files[e]]
Possible(i) ==
    LET d == Now(i).dir  n == Now(i).n IN
    /\ d \in exists
    /\ Does(i, "delete") => files[d] > 0
    /\ Does(i, "rename") => Spare \notin exists
    /\ Does(i, "move") => n.dirs \subseteq exists /\ \A e \in n.from : e \in exists /\ files[e] > 0
    /\ After(i)[d] <= MaxFiles
Leaving(i) ==
    CASE Does(i, "rmdir") -> Under(Now(i).dir)
      [] Does(i, "rename") -> {Now(i).dir}
      [] Does(i, "move") -> UNION {Under(s) : s \in Now(i).n.dirs}
      [] OTHER -> {}
Touched(i) == {e \in Dirs : After(i)[e] # files[e]} \cup Leaving(i) \cup {Up[e] : e \in Leaving(i)}

(* What the steps after it see to: directories measured again, or gone; and directories reduced
   by an amount, which need not be the right one. *)
Measured(i) ==
    LET d == Now(i).dir  n == Now(i).n IN
    Leaving(i) \cup
    CASE Does(i, "copy") -> {d}
      [] Does(i, "rename") -> {Spare}
      [] Does(i, "delete") -> {d} \ Unbroken(d)
      [] Does(i, "rmdir") -> IF n = 0 THEN {Up[d]} ELSE {Up[d]} \ Unbroken(Up[d])
      [] Does(i, "move") ->
            {d} \cup IF n.total = 0 THEN {} ELSE {e \in n.from \cup {Up[s] : s \in n.dirs} : ~Cached(e)}
Reduced(i) ==
    LET d == Now(i).dir  n == Now(i).n IN
    CASE Does(i, "delete") -> [e \in Unbroken(d) |-> 1]
      [] Does(i, "rmdir") /\ n > 0 -> [e \in Unbroken(Up[d]) |-> n]
      [] Does(i, "move") /\ n.total > 0 ->
            [e \in {e \in n.from \cup {Up[s] : s \in n.dirs} : Cached(e)} |-> n.total]
      [] OTHER -> << >>

(* The disk changes: a size is in doubt if it is neither measured again nor reduced by as much
   as it is less. *)
DiskBecomes(fs, there, measured, reduced, touched) ==
    /\ files' = fs /\ exists' = there /\ Noticed(touched)
    /\ doubt' = doubt \cup
          {e \in Dirs \ (measured \cup (touched \cap {scene.watched})) :
              SizeIn(fs, there, e) + (IF e \in DOMAIN reduced THEN reduced[e] ELSE 0) # Size(e)}

Operate(i) ==
    /\ tasks[i].steps # << >> /\ Now(i).do \in OnDisk /\ Possible(i)
    /\ DiskBecomes(After(i), (exists \ Leaving(i)) \cup (IF Does(i, "rename") THEN {Spare} ELSE {}),
               Measured(i), Reduced(i), Touched(i))
    /\ Then(i, << >>)
    /\ UNCHANGED <<cache, generation, shown, misled, scene>>

(* One that fails may have come far, and ends here. *)
Fail(i) ==
    /\ tasks[i].steps # << >> /\ Now(i).do \in OnDisk
    /\ \/ UNCHANGED <<files, exists, changed, doubt>>
       \/ /\ Possible(i) /\ ~Does(i, "rename")
          /\ \E part \in SUBSET Touched(i) \ {{}} :
                DiskBecomes([e \in Dirs |-> IF e \in part THEN After(i)[e] ELSE files[e]],
                        exists \ {e \in part \cap Leaving(i) : Under(e) \cap exists \subseteq part}, {}, << >>, part)
    /\ Ends(i)
    /\ UNCHANGED <<cache, generation, shown, misled, scene>>

(* After a deletion, the directory it was in: by the size, and so is what is above it; or
   measured again at the end. *)
Reduce(i) ==
    /\ Does(i, "reduce")
    /\ LET d == Now(i).dir  n == Now(i).n IN
       IF n > 0 /\ Cached(d)
       THEN /\ Decrease(d, n)
            /\ tasks' = Meeting(i, d, "less", [tasks EXCEPT ![i].steps =
                   <<Step("tell", d, Less(cache[d].size, n)), Step("propagate", Up[d], n)>> \o Tail(@)])
       ELSE Later(i, Recompute(d)) /\ UNCHANGED cache
    /\ UNCHANGED <<files, exists, generation, changed, shown, doubt, misled, scene>>

(* After a move, a directory that something was moved from. *)
Shrink(i) ==
    /\ Does(i, "shrink")
    /\ LET d == Now(i).dir  n == Now(i).n IN
       IF Cached(d)
       THEN /\ Decrease(d, n)
            /\ tasks' = Meeting(i, d, "less", [tasks EXCEPT ![i].steps =
                   <<Step("tell", d, Less(cache[d].size, n))>> \o Tail(@)])
       ELSE Then(i, Recompute(d)) /\ UNCHANGED cache
    /\ UNCHANGED <<files, exists, generation, changed, shown, doubt, misled, scene>>

(* After a renaming: the cached size gets the new name. *)
Rekey(i) ==
    /\ Does(i, "rekey")
    /\ LET d == Now(i).dir IN
       IF Cached(d)
       THEN /\ Put(Spare, cache[d].size, generation) /\ Then(i, <<Step("evict", d, 0)>>)
            /\ doubt' = IF d \in doubt THEN doubt \cup {Spare} ELSE doubt
            /\ misled' = IF shown[Spare] = cache[d].size THEN misled ELSE misled \cup {Spare}
       ELSE UNCHANGED <<cache, doubt, misled>> /\ Then(i, << >>)
    /\ UNCHANGED <<files, exists, generation, changed, shown, scene>>

-------------------------------------------------------------------------------
(* A listing of the directory watched: a subdirectory is shown with what is cached, and
   validated unless that is recent. *)
ShowSubdir ==
    /\ Start("list")
    /\ \E d \in Children(scene.watched) :
          /\ shown' = [shown EXCEPT ![d] = IF Cached(d) THEN cache[d].size ELSE Nowhere]
          /\ misled' = misled \ {d}
          /\ \/ Cached(d) /\ UNCHANGED tasks
             \/ \E i \in 1..scene.tasks :
                   /\ tasks[i] = Idle
                   /\ tasks' = [tasks EXCEPT ![i] =
                        [Task(Validate(d)) EXCEPT !.was = IF Cached(d) THEN cache[d].size ELSE Nowhere]]
    /\ UNCHANGED <<files, exists, cache, generation, changed, doubt>>

(* Another program writes or deletes a file. *)
Change ==
    /\ Start("change")
    /\ \E d \in exists \cap scene.at, n \in 0..MaxFiles :
          n # files[d] /\ DiskBecomes([files EXCEPT ![d] = n], exists, {}, << >>, {d})
    /\ UNCHANGED <<cache, generation, tasks, shown, misled>>

Relevant(d) == scene.watched \in {d, Up[d]}

(* The watcher has collected events for a while. *)
Wake ==
    /\ tasks[Watcher].steps = << >> /\ changed # {}
    /\ changed' = {}
    /\ \E q \in SetToSeqs({d \in changed : Relevant(d)}) :
          tasks' = [tasks EXCEPT ![Watcher] = Task(FlattenSeq([j \in DOMAIN q |-> Recompute(q[j])]))]
    /\ UNCHANGED <<files, exists, cache, generation, shown, doubt, misled, scene>>

Advance(i) ==
    \/ Invalidate(i) \/ Scan(i) \/ SetSize(i) \/ CheckCurrent(i) \/ Insert(i) \/ Tell(i) \/ Evict(i)
    \/ Propagate(i) \/ Operate(i) \/ Fail(i) \/ Reduce(i) \/ Shrink(i) \/ Rekey(i)

(* A task is over when it has no step left. *)
Over(i) ==
    /\ tasks[i].steps = << >> /\ tasks[i] # Idle
    /\ Ends(i)
    /\ UNCHANGED <<files, exists, cache, generation, changed, shown, doubt, misled, scene>>

Next ==
    \/ CopyFiles \/ MoveFiles \/ DeleteFile \/ DeleteDir \/ RenameDir \/ ShowSubdir \/ Change \/ Wake
    \/ \E i \in 0..MaxTasks : Advance(i) \/ Over(i)

Spec == Init /\ [][Next]_sizeVars

-------------------------------------------------------------------------------
TypeOK ==
    /\ files \in [Dirs -> 0..MaxFiles] /\ exists \subseteq Dirs /\ generation \in Nat
    /\ \A d \in Dirs : cache[d].size \in Nat /\ cache[d].generation \in 0..generation
    /\ changed \subseteq {scene.watched}

Settled == changed = {} /\ \A i \in 0..MaxTasks : tasks[i] = Idle

(* dir_size_cache.rs:36 "we know the value is correct", :49 "Write only if the generation
   matches": once nothing is under way a cached size is right, whichever tasks wrote it, but
   where nobody saw to it (above the destination of a copy or a move, after one that failed) or
   a size measured earlier was written over what had come since. *)
SettledIsRight == Settled => \A d \in Dirs \ doubt : Cached(d) => cache[d].size = Size(d)

(* And the window was told of it, unless somebody else told it last of what was so no more. *)
SettledIsShown ==
    Settled => \A d \in exists \ (doubt \cup misled) : Cached(d) => shown[d] \in {Nowhere, cache[d].size}

(* Once nothing is under way, sizes are right, cached as well as shown. *)
SizesAreRight == TypeOK /\ SettledIsRight /\ SettledIsShown
================================================================================

------------------------------ MODULE Thumbnails ------------------------------
(***************************************************************************)
(* Thumbnails for the rows of a file list.                               *)
(*                                                                       *)
(* A row is bound to one file after another as the view scrolls; a       *)
(* blocking thread makes each thumbnail under one of a few permits, and  *)
(* a document's is drawn by a thread of its own that the maker waits for *)
(* only so long. The main loop puts what was made on the row if the row  *)
(* still wants it.                                                       *)
(***************************************************************************)
EXTENDS Naturals, Sequences, FiniteSets, Functions

CONSTANTS
    Rows,            \* list items of the views, of one thumbnail size
    Pictures,        \* files to list
    PictureKind,     \* PictureKind[f]: "image", "video", "document", or "none": not one of these,
                     \* or not local
    Undecodable,     \* files no thumbnail can be made of
    Stuck,           \* documents that are never done being drawn
    MaxConcurrent,   \* MAX_CONCURRENT
    MaxWorkers,      \* MAX_WORKERS
    MaxAsked,        \* how many thumbnails are asked for (bound)
    MaxVersions,     \* a file is edited so often, less one (bound)
    ThumbScenes,     \* does, rows in use, and how often (left) something happens
    NoPicture

ASSUME ThumbnailsAssumption ==
    /\ NoPicture \notin Pictures /\ IsFiniteSet(Rows)
    /\ PictureKind \in [Pictures -> {"image", "video", "document", "none"}]
    /\ MaxConcurrent \in Nat \ {0} /\ MaxWorkers \in Nat

VARIABLES
    version,         \* version[f]: what its modification time tells
    row,             \* row[r]: the file it is bound to, the file its slot wants, and what it shows
    making,          \* making[n]: the thread of the n-th request of a slot
    used,            \* SLOTS: permits in use
    places,          \* WORKERS: documents' threads, by the request each was started for
    thumbCache,      \* cache[<<f, v>>]: thumbnails under the key of file and time; each holds
                     \* what version it was made of, and whether it is whole
    temp,            \* temp[name]: files being written aside, likewise
    viewing          \* the scene

thumbVars == <<version, row, making, used, places, thumbCache, temp, viewing>>

Icon == [of |-> NoPicture, content |-> 0, whole |-> TRUE]
Threads == DOMAIN making
Wants(r, f) == row[r].wants = f
InCache(key) == key \in DOMAIN thumbCache
TempName(n) == n
CachedPath(f) == <<f, version[f]>>
Lookup(f) == InCache(CachedPath(f))
Thumb(key) == [of |-> key[1], content |-> thumbCache[key].content, whole |-> thumbCache[key].whole]

ThumbInit ==
    /\ viewing \in ThumbScenes
    /\ version = [f \in Pictures |-> 1]
    /\ row = [r \in Rows |-> [bound |-> NoPicture, wants |-> NoPicture, shows |-> Icon]]
    /\ making = << >> /\ used = 0 /\ places = {} /\ thumbCache = << >> /\ temp = << >>

Happens(what) == what \in viewing.does /\ viewing.left > 0
               /\ viewing' = [viewing EXCEPT !.left = @ - 1]
MovesOn(n, at) == making' = [making EXCEPT ![n].at = at]

-------------------------------------------------------------------------------
(* A row. *)

(* connect_bind and show_thumbnail: the type icon, then the thumbnail if there is one; else a
   thread to make it. *)
Bind(r, f) ==
    /\ Happens("scroll") /\ r \in viewing.rows /\ row[r].bound # f
    /\ Len(making) < MaxAsked
    /\ LET wants == IF PictureKind[f] = "none" THEN NoPicture ELSE f
           found == wants = f /\ Lookup(f)
       IN  /\ row' = [row EXCEPT ![r] = [bound |-> f, wants |-> wants,
                                         shows |-> IF found THEN Thumb(CachedPath(f)) ELSE Icon]]
           /\ making' = IF wants = NoPicture \/ found THEN making
                        ELSE Append(making, [row |-> r, file |-> f, target |-> <<f, 0>>,
                                             at |-> "asked", seek |-> 0])
    /\ UNCHANGED <<version, used, places, thumbCache, temp>>

(* connect_unbind *)
Unbind(r) ==
    /\ Happens("unbind") /\ row[r].bound # NoPicture
    /\ row' = [row EXCEPT ![r].bound = NoPicture, ![r].wants = NoPicture]
    /\ UNCHANGED <<version, making, used, places, thumbCache, temp>>

(* An edited file is listed anew: every row of it is bound to it again. *)
Edit(f) ==
    /\ Happens("edit") /\ version[f] < MaxVersions
    /\ version' = [version EXCEPT ![f] = @ + 1]
    /\ LET again == {r \in Rows : row[r].bound = f /\ PictureKind[f] # "none"}
       IN  /\ Len(making) + Cardinality(again) <= MaxAsked
           /\ row' = [r \in Rows |-> IF r \in again THEN [row[r] EXCEPT !.wants = f, !.shows = Icon]
                                     ELSE row[r]]
           /\ \E order \in Bijection(1..Cardinality(again), again) :
                 making' = making \o [i \in 1..Cardinality(again) |->
                              [row |-> order[i], file |-> f, target |-> <<f, 0>>, at |-> "asked",
                               seek |-> 0]]
    /\ UNCHANGED <<used, places, thumbCache, temp>>

-------------------------------------------------------------------------------
(* Making one: generate_with. *)

Target(n) ==
    /\ making[n].at = "asked"
    /\ LET key == CachedPath(making[n].file)
       IN  making' = [making EXCEPT ![n].target = key, ![n].at = IF InCache(key) THEN "made" ELSE "queued"]
    /\ UNCHANGED <<version, row, used, places, thumbCache, temp, viewing>>

(* Permit::acquire *)
Acquire(n) ==
    /\ making[n].at = "queued"
    /\ IF used < MaxConcurrent THEN used' = used + 1 /\ MovesOn(n, "permitted")
       ELSE MovesOn(n, "sleeping") /\ UNCHANGED used
    /\ UNCHANGED <<version, row, places, thumbCache, temp, viewing>>

Sleeping == {n \in Threads : making[n].at = "sleeping"}

(* Permit::drop: one that sleeps wakes up and tries again. *)
Release(n, at) ==
    /\ used' = used - 1
    /\ IF Sleeping = {} THEN MovesOn(n, at)
       ELSE \E m \in Sleeping : making' = [making EXCEPT ![n].at = at, ![m].at = "queued"]

Recheck(n) ==
    /\ making[n].at = "permitted"
    /\ IF ~Wants(making[n].row, making[n].file) THEN Release(n, "nothing")
       ELSE IF InCache(making[n].target) THEN Release(n, "made")
       ELSE MovesOn(n, IF PictureKind[making[n].file] = "document" THEN "placing" ELSE "drawing")
            /\ UNCHANGED used
    /\ UNCHANGED <<version, row, places, thumbCache, temp, viewing>>

Written(n, whole) ==
    temp' = [t \in DOMAIN temp \cup {TempName(n)} |->
               IF t = TempName(n) THEN [content |-> version[making[n].file], whole |-> whole]
               ELSE temp[t]]

(* image_thumbnail; video_thumbnail, whose ffmpeg may be killed, and tries again from the start
   of the video: what it draws is begun, and then complete. *)
Draw(n) ==
    /\ making[n].at = "drawing" /\ MovesOn(n, "writing") /\ Written(n, FALSE)
    /\ UNCHANGED <<version, row, used, places, thumbCache, viewing>>

Drawn(n) ==
    /\ making[n].at = "writing"
    /\ \/ making[n].file \notin Undecodable
          /\ temp' = [t \in DOMAIN temp |->
                        IF t = TempName(n) THEN [temp[t] EXCEPT !.whole = TRUE] ELSE temp[t]]
          /\ MovesOn(n, "drawn")
       \/ PictureKind[making[n].file] = "video" /\ making[n].seek = 0
          /\ making' = [making EXCEPT ![n].at = "drawing", ![n].seek = 1] /\ UNCHANGED temp
       \/ (making[n].file \in Undecodable \/ PictureKind[making[n].file] = "video")
          /\ MovesOn(n, "failed") /\ UNCHANGED temp
    /\ UNCHANGED <<version, row, used, places, thumbCache, viewing>>

(* spawn_guarded: a place for the thread, or none within the time limit. *)
SpawnGuarded(n) ==
    /\ making[n].at = "placing"
    /\ IF Cardinality(places) < MaxWorkers THEN places' = places \cup {n} /\ MovesOn(n, "rendering")
       ELSE MovesOn(n, "failed") /\ UNCHANGED places
    /\ UNCHANGED <<version, row, used, thumbCache, temp, viewing>>

(* render_to_png, on the thread, which may have been abandoned by then; it gives its place back
   when it ends. *)
RenderToPng(n) ==
    /\ n \in places /\ making[n].file \notin Stuck /\ places' = places \ {n}
    /\ IF making[n].file \in Undecodable THEN UNCHANGED temp ELSE Written(n, TRUE)
    /\ IF making[n].at = "rendering"
       THEN MovesOn(n, IF making[n].file \in Undecodable THEN "failed" ELSE "drawn")
       ELSE UNCHANGED making
    /\ UNCHANGED <<version, row, used, thumbCache, viewing>>

(* recv_timeout *)
RenderTimeout(n) ==
    /\ making[n].at = "rendering" /\ MovesOn(n, "failed")
    /\ UNCHANGED <<version, row, used, places, thumbCache, temp, viewing>>

(* The rename, and the permit is given back. *)
Rename(n) ==
    /\ making[n].at = "drawn" /\ TempName(n) \in DOMAIN temp
    /\ thumbCache' = [k \in DOMAIN thumbCache \cup {making[n].target} |->
                   IF k = making[n].target THEN temp[TempName(n)] ELSE thumbCache[k]]
    /\ temp' = Restrict(temp, DOMAIN temp \ {TempName(n)})
    /\ Release(n, "made")
    /\ UNCHANGED <<version, row, places, viewing>>

(* remove_file, as when there is nothing to rename. *)
GiveUp(n) ==
    /\ making[n].at = "failed" \/ (making[n].at = "drawn" /\ TempName(n) \notin DOMAIN temp)
    /\ temp' = Restrict(temp, DOMAIN temp \ {TempName(n)}) /\ Release(n, "nothing")
    /\ UNCHANGED <<version, row, places, thumbCache, viewing>>

(* Mutant: what was made is put on the row it was made for. *)
ApplyAnyway(n) ==
    /\ making[n].at \in {"made", "nothing"}
    /\ row' = IF making[n].at = "made"
              THEN [row EXCEPT ![making[n].row].shows = Thumb(making[n].target)] ELSE row
    /\ MovesOn(n, "over")
    /\ UNCHANGED <<version, used, places, thumbCache, temp, viewing>>

(* The main loop. *)
Apply(n) ==
    /\ making[n].at \in {"made", "nothing"}
    /\ row' = IF making[n].at = "made" /\ Wants(making[n].row, making[n].file)
              THEN [row EXCEPT ![making[n].row].shows = Thumb(making[n].target)] ELSE row
    /\ MovesOn(n, "over")
    /\ UNCHANGED <<version, used, places, thumbCache, temp, viewing>>

Make(n) ==
    \/ Target(n) \/ Acquire(n) \/ Recheck(n) \/ Draw(n) \/ Drawn(n) \/ SpawnGuarded(n)
    \/ RenderTimeout(n) \/ Rename(n) \/ GiveUp(n) \/ Apply(n)

ThumbNext ==
    \/ \E r \in Rows : Unbind(r) \/ \E f \in Pictures : Bind(r, f)
    \/ \E f \in Pictures : Edit(f)
    \/ \E n \in Threads : Make(n) \/ RenderToPng(n)

ThumbSpec == ThumbInit /\ [][ThumbNext]_thumbVars

-------------------------------------------------------------------------------
Holding == {"permitted", "placing", "drawing", "writing", "rendering", "drawn", "failed"}
Holders == {n \in Threads : making[n].at \in Holding}

ThumbTypeOK ==
    /\ used \in 0..MaxConcurrent /\ Cardinality(places) <= MaxWorkers
    /\ used = Cardinality(Holders)

(* thumbnails.rs:3 "work started for one file must not land on the item after it shows a
   different one", and thumbnail.rs:132 "a reader never sees half a PNG": what a row shows is a
   whole thumbnail of its file, made of no older version than its key says. *)
RowsShowTheirFile ==
    /\ ThumbTypeOK
    /\ \A r \in Rows : row[r].bound # NoPicture /\ row[r].shows # Icon =>
          row[r].shows.of = row[r].bound /\ row[r].shows.whole
    /\ \A k \in DOMAIN thumbCache : thumbCache[k].whole /\ thumbCache[k].content >= k[2]

(* thumbnail.rs:204, notify_one: no wake-up is lost. While a thread sleeps, as many others as
   there are permits have one or are about to ask for it; none of them waits for another, as a
   document has its time limit and what cannot be drawn gives its permit back. *)
Claimants == Holders \cup {n \in Threads : making[n].at = "queued"}
NobodyIsStuck == Sleeping # {} => Cardinality(Claimants) >= MaxConcurrent

(* Thumbnails are of their file, whole, and arrive. *)
ThumbnailsAreRight == RowsShowTheirFile /\ NobodyIsStuck
===============================================================================

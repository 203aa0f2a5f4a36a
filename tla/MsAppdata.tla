----------------------------- MODULE MsAppdata -----------------------------
(***************************************************************************)
(* One file of the application data, shared by the graphlets of a page     *)
(* (src/Base/filesystem/msappdata.hxx).  The first graphlet that loads the *)
(* file starts reading it, those that come meanwhile wait, those that come *)
(* later are told what the cache holds; a graphlet that stores a new       *)
(* content tells all of them and has it written to the disk.  The maps are *)
(* shared by all files, but each operation holds the mutex of its own      *)
(* file, except between the two halves of try_create; so one file is       *)
(* enough.  The tasks that read and write run outside of the mutex, as     *)
(* many of them as were started, and end in any order.                     *)
(*                                                                         *)
(* The code leaves it to the program that no graphlet is destroyed while   *)
(* it is in a list, or after its file is read and before the continuation  *)
(* of load_async: on_appdata would be called for an object that is gone,   *)
(* with no defined outcome.  Here nothing forbids it, and what is followed *)
(* are the runs in which that call returns as any other.  Nor is anything  *)
(* done about a content that was read before a store and arrives after it, *)
(* which then replaces it in the cache.                                    *)
(***************************************************************************)
EXTENDS Naturals, FiniteSets

CONSTANTS
  Graphlets,  \* the objects that derive from IMsAppdata
  Creators,   \* those whose on_appdata_not_found makes a content
  Contents,   \* what the file may hold
  Default,    \* what on_appdata_not_found makes
  Tasks,      \* the load_async that may be under way
  Absent      \* no such entry in a map, no such file, no task

ASSUME AppdataAssumption ==
  /\ Creators \subseteq Graphlets
  /\ Default \in Contents
  /\ Absent \notin Contents \cup Graphlets
  /\ \A list \in SUBSET Graphlets : list # Absent

VARIABLES
  database,    \* databases[uuid]: TRUE once the file is loaded, or no entry
  cache,       \* filesystem[uuid]
  lists,       \* lists[uuid]: the graphlets to tell
  loader,      \* the graphlet each load_async is of
  result,      \* how far that load_async has come, and what it has read
  saving,      \* the contents that some store_async is writing
  file,        \* the file on the disk
  alive,       \* the graphlets that are not destroyed
  told         \* what on_appdata last gave each graphlet

vars == <<database, cache, lists, loader, result, saving, file, alive, told>>

Maybe(S) == S \cup {Absent}
Failures == {"missing", "error", "cancelled"}
Results == Contents \cup Failures \cup {"reading", "creating", "idle"}

ASSUME ResultsDiffer == Contents \cap (Failures \cup {"reading", "creating", "idle"}) = {}

AppdataTypeOK ==
  /\ database \in {"none", "loading", "loaded"}
  /\ cache \in Maybe(Contents)
  /\ lists = Absent \/ lists \subseteq Graphlets
  /\ loader \in [Tasks -> Maybe(Graphlets)]
  /\ result \in [Tasks -> Results]
  /\ saving \subseteq Contents
  /\ file \in Maybe(Contents)
  /\ alive \subseteq Graphlets
  /\ told \in [Graphlets -> Maybe(Contents)]

Init ==
  /\ database = "none" /\ cache = Absent /\ lists = Absent
  /\ loader = [k \in Tasks |-> Absent]
  /\ result = [k \in Tasks |-> "idle"]
  /\ saving = {}
  /\ file \in {Absent, Default}
  /\ alive = Graphlets
  /\ told = [g \in Graphlets |-> Absent]

-----------------------------------------------------------------------------
(* What the handlers are made of. *)

\* lists[uuid] makes an entry where there is none
Listed == IF lists = Absent THEN {} ELSE lists

\* tell every graphlet of the list, which is there afterwards
broadcast(list, content) ==
  /\ lists' = list
  /\ told' = [g \in Graphlets |-> IF g \in list THEN content ELSE told[g]]

\* A bug: the file counts as being loaded for ever.
clear_keeps_database ==
  /\ lists' = Absent
  /\ UNCHANGED <<database, cache, told>>

\* the cache keeps what it has of the file
clear ==
  /\ lists' = Absent
  /\ database' = "none"
  /\ UNCHANGED <<cache, told>>

load_async(k, g) ==
  /\ result[k] = "idle"
  /\ loader' = [loader EXCEPT ![k] = g]
  /\ result' = [result EXCEPT ![k] = "reading"]

Ended(k) ==
  /\ loader' = [loader EXCEPT ![k] = Absent]
  /\ result' = [result EXCEPT ![k] = "idle"]

\* A bug: the graphlet joins the list after the others were told.
store_tells_others(g, content) ==
  /\ saving' = saving \cup {content}
  /\ database' = "loaded"
  /\ cache' = content
  /\ lists' = Listed \cup {g}
  /\ told' = [l \in Graphlets |-> IF l \in Listed THEN content ELSE told[l]]
  /\ UNCHANGED <<file, alive>>

store(g, content) ==
  /\ saving' = saving \cup {content}
  /\ database' = "loaded"
  /\ cache' = content
  /\ broadcast(Listed \cup {g}, content)
  /\ UNCHANGED <<file, alive>>

-----------------------------------------------------------------------------
(* The graphlets. *)

LoadFirst(g) ==
  /\ database = "none"
  /\ lists' = Listed \cup {g}
  /\ database' = "loading"
  /\ \E k \in Tasks : load_async(k, g)
  /\ UNCHANGED <<cache, saving, file, alive, told>>

LoadCached(g) ==
  /\ database = "loaded"
  /\ lists' = Listed \cup {g}
  /\ told' = [told EXCEPT ![g] = cache]
  /\ UNCHANGED <<database, cache, loader, result, saving, file, alive>>

LoadWaiting(g) ==
  /\ database = "loading"
  /\ lists' = Listed \cup {g}
  /\ UNCHANGED <<database, cache, loader, result, saving, file, alive, told>>

load(g) == g \in alive /\ (LoadFirst(g) \/ LoadCached(g) \/ LoadWaiting(g))

Store(g, content) ==
  /\ g \in alive
  /\ store(g, content)
  /\ UNCHANGED <<loader, result>>

\* The graphlet is erased from a copy of the list.  Only if nobody else is in
\* it are the entries of the file erased, and the graphlet with them.
unload(g) ==
  /\ g \in alive
  /\ lists # Absent
  /\ lists \ {g} = {}
  /\ database' = "none"
  /\ cache' = Absent
  /\ lists' = Absent
  /\ UNCHANGED <<loader, result, saving, file, alive, told>>

\* The destructor cancels the tasks of the graphlet, and leaves the list alone.
\* The continuation of a load runs all the same, on what the graphlet was.
\* A store_async that is cancelled may have written the file or not, as any.
Destroy(g) ==
  /\ g \in alive
  /\ alive' = alive \ {g}
  /\ result' = [k \in Tasks |->
       IF loader[k] = g /\ result[k] = "reading" THEN "cancelled" ELSE result[k]]
  /\ UNCHANGED <<database, cache, lists, loader, saving, file, told>>

-----------------------------------------------------------------------------
(* The tasks. *)

\* GetFileFromApplicationUriAsync and FileType::load; a file that cannot be
\* understood is a null pointer, and treated as one that is missing
Read(k) ==
  /\ result[k] = "reading"
  /\ \E r \in {"error", "missing"} \cup (Contents \cap {file}) :
       result' = [result EXCEPT ![k] = r]
  /\ UNCHANGED <<database, cache, lists, loader, saving, file, alive, told>>

\* The continuation of load_async, from lock to unlock.
LoadedContent(k) ==
  /\ result[k] \in Contents
  /\ cache' = result[k]
  /\ database' = "loaded"
  /\ broadcast(Listed, result[k])
  /\ Ended(k)

\* try_create leaves the mutex before it stores what it has made
LoadedMissing(k) ==
  /\ result[k] = "missing"
  /\ loader[k] \in Creators
  /\ result' = [result EXCEPT ![k] = "creating"]
  /\ UNCHANGED <<database, cache, lists, told, loader>>

LoadedNothing(k) ==
  /\ \/ result[k] \in {"error", "cancelled"}
     \/ result[k] = "missing" /\ loader[k] \notin Creators
  /\ clear
  /\ Ended(k)

Loaded(k) ==
  /\ LoadedContent(k) \/ LoadedMissing(k) \/ LoadedNothing(k)
  /\ UNCHANGED <<saving, file, alive>>

try_create(k) ==
  /\ result[k] = "creating"
  /\ store(loader[k], Default)
  /\ Ended(k)

\* The end of store_async: a failure is only logged, and another store_async
\* may be writing the same content.
Saved(content) ==
  /\ content \in saving
  /\ file' \in {file, content}
  /\ saving' \in {saving, saving \ {content}}
  /\ UNCHANGED <<database, cache, lists, loader, result, alive, told>>

Next ==
  \/ \E g \in Graphlets :
       \/ load(g) \/ unload(g) \/ Destroy(g)
       \/ \E content \in Contents : Store(g, content)
  \/ \E k \in Tasks : Read(k) \/ Loaded(k) \/ try_create(k)
  \/ \E content \in Contents : Saved(content)

Spec == Init /\ [][Next]_vars

\* The operating system ends what it was asked to read, and the thread pool
\* runs the continuations.
FairSpec == Spec /\ \A k \in Tasks : WF_vars(Read(k) \/ Loaded(k) \/ try_create(k))

-----------------------------------------------------------------------------
(* Properties *)

\* The three maps agree: the file has a list exactly when it has an entry in
\* databases, and a content when it counts as loaded; so the load of a
\* graphlet that comes later (line 61) never hands out a null pointer that
\* filesystem[uuid] has just made.
MapsAgree ==
  /\ (lists = Absent) <=> (database = "none")
  /\ database = "loaded" => cache # Absent

\* Once the file is loaded every graphlet of the list was last told what the
\* cache holds, whichever of load, store, load_async and try_create came last.
ToldWhatIsCached ==
  database = "loaded" => \A g \in Listed : told[g] = cache

\* A graphlet that waits for the file is told its content, or the load fails
\* and the entries are gone, so that it may load again; nobody waits for ever.
WaitersAreTold ==
  \A g \in Graphlets :
    (database = "loading" /\ g \in Listed) ~>
      (lists = Absent \/ (database = "loaded" /\ told[g] = cache))
=============================================================================

-------------------------- MODULE MsAppdata_proofs --------------------------
(***************************************************************************)
(* What the graphlets that share a file of application data are told,      *)
(* whatever the program around them does.                                  *)
(***************************************************************************)
EXTENDS MsAppdata, TLAPS

\* A task that is under way is the task of a graphlet.
TasksOfGraphlets == \A k \in Tasks : result[k] # "idle" => loader[k] \in Graphlets

ShareInv == AppdataTypeOK /\ TasksOfGraphlets /\ MapsAgree /\ ToldWhatIsCached

\* The list of an entry that exists is a set of graphlets, also when it is
\* about to be made by lists[uuid].
LEMMA ListedAreGraphlets == AppdataTypeOK => Listed \subseteq Graphlets
  BY DEF AppdataTypeOK, Listed

\* A list is never mistaken for the lack of one.
LEMMA ListIsPresent ==
  ASSUME NEW list, list \subseteq Graphlets PROVE list # Absent
  BY AppdataAssumption

LEMMA ShareInit == Init => ShareInv
  BY AppdataAssumption, ResultsDiffer
  DEF Init, ShareInv, AppdataTypeOK, TasksOfGraphlets, MapsAgree, ToldWhatIsCached, Maybe,
      Results, Failures

\* A store, of a graphlet or of try_create, tells all it finds in the list and
\* the graphlet that stores.
LEMMA StoreShares ==
  ASSUME ShareInv, NEW g \in Graphlets, NEW content \in Contents, store(g, content)
  PROVE  /\ saving' \subseteq Contents
         /\ database' = "loaded" /\ cache' = content /\ cache' # Absent
         /\ lists' = Listed \cup {g} /\ lists' \subseteq Graphlets /\ lists' # Absent
         /\ told' \in [Graphlets -> Maybe(Contents)]
         /\ \A l \in lists' : told'[l] = content
         /\ file' = file /\ alive' = alive
<1>1. Listed \cup {g} \subseteq Graphlets  BY ListedAreGraphlets DEF ShareInv
<1>2. saving' \subseteq Contents  BY DEF store, ShareInv, AppdataTypeOK
<1>3. /\ database' = "loaded" /\ cache' = content
      /\ lists' = Listed \cup {g}
      /\ told' = [l \in Graphlets |-> IF l \in Listed \cup {g} THEN content ELSE told[l]]
      /\ file' = file /\ alive' = alive
  BY DEF store, broadcast
<1>4. told' \in [Graphlets -> Maybe(Contents)]  BY <1>3 DEF ShareInv, AppdataTypeOK, Maybe
<1>5. \A l \in lists' : told'[l] = content  BY <1>1, <1>3
<1>6. lists' # Absent  BY <1>1, <1>3, ListIsPresent
<1>7. cache' # Absent  BY <1>3, AppdataAssumption
<1>8. QED  BY <1>1, <1>2, <1>3, <1>4, <1>5, <1>6, <1>7

LEMMA EndedShares ==
  ASSUME ShareInv, NEW k \in Tasks, Ended(k)
  PROVE  /\ loader' \in [Tasks -> Maybe(Graphlets)] /\ result' \in [Tasks -> Results]
         /\ \A j \in Tasks : result'[j] # "idle" => loader'[j] \in Graphlets
  BY DEF Ended, ShareInv, AppdataTypeOK, TasksOfGraphlets, Maybe, Results

LEMMA ShareStep == ShareInv /\ [Next]_vars => ShareInv'
<1> SUFFICES ASSUME ShareInv, [Next]_vars PROVE ShareInv'  OBVIOUS
<1> USE DEF ShareInv
<1>1. ASSUME NEW g \in Graphlets, LoadFirst(g) PROVE ShareInv'
  <2>1. Listed \cup {g} \subseteq Graphlets  BY ListedAreGraphlets
  <2>2. lists' # Absent  BY <1>1, <2>1, ListIsPresent DEF LoadFirst
  <2>3. PICK k \in Tasks : load_async(k, g)  BY <1>1 DEF LoadFirst
  <2>4. AppdataTypeOK' /\ TasksOfGraphlets'
    BY <1>1, <2>1, <2>3 DEF LoadFirst, load_async, AppdataTypeOK, TasksOfGraphlets, Maybe, Results
  <2>5. QED  BY <1>1, <2>2, <2>4 DEF LoadFirst, MapsAgree, ToldWhatIsCached
<1>2. ASSUME NEW g \in Graphlets, LoadCached(g) PROVE ShareInv'
  <2>1. Listed \cup {g} \subseteq Graphlets  BY ListedAreGraphlets
  <2>2. lists' # Absent  BY <1>2, <2>1, ListIsPresent DEF LoadCached
  <2>3. AppdataTypeOK' /\ TasksOfGraphlets'
    BY <1>2, <2>1 DEF LoadCached, AppdataTypeOK, TasksOfGraphlets, Maybe
  <2>4. Listed' = Listed \cup {g}  BY <1>2, <2>2 DEF LoadCached, Listed
  <2>5. ToldWhatIsCached'  BY <1>2, <2>1, <2>4 DEF LoadCached, ToldWhatIsCached, AppdataTypeOK
  <2>6. QED  BY <1>2, <2>2, <2>3, <2>5 DEF LoadCached, MapsAgree
<1>3. ASSUME NEW g \in Graphlets, LoadWaiting(g) PROVE ShareInv'
  <2>1. Listed \cup {g} \subseteq Graphlets  BY ListedAreGraphlets
  <2>2. lists' # Absent  BY <1>3, <2>1, ListIsPresent DEF LoadWaiting
  <2>3. QED
    BY <1>3, <2>1, <2>2 DEF LoadWaiting, AppdataTypeOK, TasksOfGraphlets, MapsAgree, ToldWhatIsCached
<1>4. ASSUME NEW g \in Graphlets, NEW content \in Contents, Store(g, content) PROVE ShareInv'
  <2>1. store(g, content) /\ UNCHANGED <<loader, result>>  BY <1>4 DEF Store
  <2>2. AppdataTypeOK' /\ TasksOfGraphlets' /\ MapsAgree'
    BY <2>1, StoreShares DEF AppdataTypeOK, TasksOfGraphlets, MapsAgree, Maybe
  <2>3. ToldWhatIsCached'  BY <2>1, StoreShares DEF ToldWhatIsCached, Listed
  <2>4. QED  BY <2>2, <2>3
<1>5. ASSUME NEW g \in Graphlets, unload(g) PROVE ShareInv'
  BY <1>5 DEF unload, AppdataTypeOK, TasksOfGraphlets, MapsAgree, ToldWhatIsCached, Maybe
<1>6. ASSUME NEW g \in Graphlets, Destroy(g) PROVE ShareInv'
  <2>1. TasksOfGraphlets'
    BY <1>6, AppdataAssumption DEF Destroy, AppdataTypeOK, TasksOfGraphlets
  <2>2. AppdataTypeOK'  BY <1>6 DEF Destroy, AppdataTypeOK, Results, Failures
  <2>3. QED  BY <1>6, <2>1, <2>2 DEF Destroy, MapsAgree, ToldWhatIsCached, Listed
<1>7. ASSUME NEW k \in Tasks, Read(k) PROVE ShareInv'
  <2>1. PICK r \in {"error", "missing"} \cup (Contents \cap {file}) : result' = [result EXCEPT ![k] = r]
    BY <1>7 DEF Read
  <2>2. AppdataTypeOK' /\ TasksOfGraphlets'
    BY <1>7, <2>1 DEF Read, AppdataTypeOK, TasksOfGraphlets, Results, Failures
  <2>3. QED  BY <1>7, <2>2 DEF Read, MapsAgree, ToldWhatIsCached, Listed
<1>8. ASSUME NEW k \in Tasks, Loaded(k), LoadedContent(k) PROVE ShareInv'
  <2>1. Listed \subseteq Graphlets /\ lists' = Listed /\ lists' # Absent
    BY <1>8, ListedAreGraphlets, ListIsPresent DEF LoadedContent, broadcast
  <2>2. /\ cache' \in Contents /\ cache' # Absent /\ database' = "loaded"
        /\ told' = [g \in Graphlets |-> IF g \in Listed THEN cache' ELSE told[g]]
    BY <1>8, AppdataAssumption DEF LoadedContent, broadcast
  <2>3. Ended(k) /\ UNCHANGED <<saving, file, alive>>  BY <1>8 DEF LoadedContent, Loaded
  <2>4. AppdataTypeOK' /\ TasksOfGraphlets'
    BY <2>1, <2>2, <2>3, EndedShares DEF AppdataTypeOK, TasksOfGraphlets, Maybe
  <2>5. ToldWhatIsCached'  BY <2>1, <2>2 DEF ToldWhatIsCached, Listed
  <2>6. QED  BY <2>1, <2>2, <2>4, <2>5 DEF MapsAgree
<1>9. ASSUME NEW k \in Tasks, Loaded(k), LoadedMissing(k) PROVE ShareInv'
  BY <1>9 DEF Loaded, LoadedMissing, AppdataTypeOK, TasksOfGraphlets, MapsAgree, ToldWhatIsCached,
              Listed, Results, Maybe
<1>10. ASSUME NEW k \in Tasks, Loaded(k), LoadedNothing(k) PROVE ShareInv'
  <2>1. Ended(k) /\ clear /\ UNCHANGED <<saving, file, alive>>
    BY <1>10 DEF Loaded, LoadedNothing
  <2>2. QED
    BY <2>1, EndedShares DEF clear, AppdataTypeOK, TasksOfGraphlets, MapsAgree, ToldWhatIsCached
<1>11. ASSUME NEW k \in Tasks, try_create(k) PROVE ShareInv'
  <2>1. loader[k] \in Graphlets  BY <1>11 DEF try_create, TasksOfGraphlets
  <2>2. Default \in Contents  BY AppdataAssumption
  <2>3. store(loader[k], Default) /\ Ended(k)  BY <1>11 DEF try_create
  <2>4. AppdataTypeOK' /\ TasksOfGraphlets' /\ MapsAgree'
    BY <2>1, <2>2, <2>3, StoreShares, EndedShares DEF AppdataTypeOK, TasksOfGraphlets, MapsAgree, Maybe
  <2>5. ToldWhatIsCached'  BY <2>1, <2>2, <2>3, StoreShares DEF ToldWhatIsCached, Listed
  <2>6. QED  BY <2>4, <2>5
<1>12. ASSUME NEW content \in Contents, Saved(content) PROVE ShareInv'
  <2>1. file' \in Maybe(Contents)  BY <1>12 DEF Saved, AppdataTypeOK, Maybe
  <2>2. saving' \subseteq Contents  BY <1>12 DEF Saved, AppdataTypeOK
  <2>3. QED
    BY <1>12, <2>1, <2>2 DEF Saved, AppdataTypeOK, TasksOfGraphlets, MapsAgree, ToldWhatIsCached, Listed
<1>13. CASE UNCHANGED vars
  BY <1>13 DEF vars, AppdataTypeOK, TasksOfGraphlets, MapsAgree, ToldWhatIsCached, Listed
<1>14. QED
  BY <1>1, <1>2, <1>3, <1>4, <1>5, <1>6, <1>7, <1>8, <1>9, <1>10, <1>11, <1>12, <1>13
  DEF Next, load, Loaded

LEMMA AlwaysShareInv == Spec => []ShareInv
  BY ShareInit, ShareStep, PTL DEF Spec

\* The maps of the file agree after every operation, so that no graphlet is
\* ever handed the null pointer of a content that is not there.
THEOREM AlwaysMapsAgree == Spec => [](AppdataTypeOK /\ MapsAgree)
<1>1. ShareInv => AppdataTypeOK /\ MapsAgree  BY DEF ShareInv
<1>2. QED  BY <1>1, AlwaysShareInv, PTL

\* Every graphlet of the list was last told what the cache holds, whatever
\* graphlets come, store, leave and end at whatever moment.
THEOREM AlwaysToldWhatIsCached == Spec => []ToldWhatIsCached
<1>1. ShareInv => ToldWhatIsCached  BY DEF ShareInv
<1>2. QED  BY <1>1, AlwaysShareInv, PTL

=============================================================================

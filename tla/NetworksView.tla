---------------------------- MODULE NetworksView ----------------------------
(***************************************************************************)
(* The page's networks view (web/index.html): grouping peers by autonomous *)
(* system needs an asmap, which belongs to a session, and the name tables, *)
(* a module of their own.  Both are fetched when the view is first opened, *)
(* while archives are opened and cleared by the loader.                    *)
(***************************************************************************)
EXTENDS PageLoader

CONSTANT MaxVisits   \* bound of the model: times the networks view is opened

VARIABLES
  asnState,   \* S.asnState
  asinfo,     \* whether asinfoModule has been imported
  mapped,     \* the sessions with an asmap
  visits,     \* the calls of showNetworks, each with where ensureAsn awaits
  peerMode,   \* S.peerMode
  table       \* what #tpeers shows: rows, and the session they come from

viewVars == <<asnState, asinfo, mapped, visits, peerMode, table>>
vars == <<loaderVars, viewVars>>

Visits == 1 .. MaxVisits
Waiting(v) == visits[v] \in {"fetching", "importing"}
-----------------------------------------------------------------------------
Init ==
  /\ LoaderInit
  /\ asnState = "idle"
  /\ asinfo = FALSE
  /\ mapped = {}
  /\ visits = [v \in Visits |-> "none"]
  /\ peerMode = "peers"
  /\ table = [rows |-> "none", session |-> 0]

(* showNetworks after ensureAsn has said yes, with the map loaded or not. *)
Networks(maps) ==
  IF page.dead \/ page.session \notin maps THEN table
  ELSE [rows |-> "networks", session |-> page.session]
NoRows == [rows |-> "none", session |-> 0]

VisitAt(v, at, state) == visits' = [visits EXCEPT ![v] = at] /\ asnState' = state

(* ensureAsn from the map's being there on. *)
Import(v, maps) ==
  /\ mapped' = maps
  /\ UNCHANGED asinfo
  /\ IF asinfo THEN VisitAt(v, "over", "ready") /\ table' = Networks(maps)
     ELSE VisitAt(v, "importing", "loading") /\ UNCHANGED table

Fails_KeepsState(v) ==
  /\ VisitAt(v, "over", asnState)
  /\ table' = NoRows
  /\ UNCHANGED <<mapped, asinfo>>
Fails(v) ==
  /\ VisitAt(v, "over", "error")
  /\ table' = NoRows
  /\ UNCHANGED <<mapped, asinfo>>

(* showPeerMode("networks") up to the first await. *)
ShowNetworks_Reentrant ==
  /\ "app" \in page.shown
  /\ peerMode' = "networks"
  /\ UNCHANGED loaderVars
  /\ \E v \in Visits :
       /\ \A u \in Visits : u < v <=> visits[u] # "none"
       /\ CASE asnState = "ready" ->
                 /\ VisitAt(v, "over", asnState)
                 /\ table' = Networks(mapped)
                 /\ UNCHANGED <<asinfo, mapped>>
            [] asnState # "ready" /\ page.session \in mapped -> Import(v, mapped)
            [] OTHER ->
                 /\ VisitAt(v, "fetching", "loading")
                 /\ UNCHANGED <<asinfo, mapped, table>>
ShowNetworks ==
  /\ "app" \in page.shown
  /\ peerMode' = "networks"
  /\ UNCHANGED loaderVars
  /\ \E v \in Visits :
       /\ \A u \in Visits : u < v <=> visits[u] # "none"
       /\ CASE asnState = "ready" ->
                 /\ VisitAt(v, "over", asnState)
                 /\ table' = Networks(mapped)
                 /\ UNCHANGED <<asinfo, mapped>>
            [] asnState = "loading" ->
                 /\ VisitAt(v, "over", asnState)
                 /\ table' = NoRows
                 /\ UNCHANGED <<asinfo, mapped>>
            [] asnState \notin {"ready", "loading"} /\ page.session \in mapped -> Import(v, mapped)
            [] OTHER ->
                 /\ VisitAt(v, "fetching", "loading")
                 /\ UNCHANGED <<asinfo, mapped, table>>

(* showPeerMode("peers") *)
ShowPeers ==
  /\ "app" \in page.shown
  /\ peerMode' = "peers"
  /\ table' = [rows |-> "peers", session |-> page.session]
  /\ UNCHANGED <<loaderVars, asnState, asinfo, mapped, visits>>

(* The asmap has come: it goes to whatever session there is now, and loading it
   may panic.  A dead page leaves asnState as it is. *)
Fetched(v) ==
  /\ visits[v] = "fetching"
  /\ \E panic \in {FALSE, panics < MaxPanics} :
       LET loaded == call(page, panic, Session(page)) IN
         /\ page' = loaded
         /\ Panicked(loaded)
         /\ CASE Throws(page) -> Fails(v)
              [] loaded.dead ->
                   /\ VisitAt(v, "over", asnState)
                   /\ table' = NoRows
                   /\ UNCHANGED <<mapped, asinfo>>
              [] OTHER -> Import(v, mapped \cup {page.session})
  /\ UNCHANGED <<loads, crowded, peerMode>>

FetchFails(v) ==
  visits[v] = "fetching" /\ Fails(v) /\ UNCHANGED <<loaderVars, peerMode>>

Imported(v) ==
  /\ visits[v] = "importing"
  /\ asinfo' = TRUE
  /\ VisitAt(v, "over", "ready")
  /\ table' = Networks(mapped)
  /\ UNCHANGED <<loaderVars, mapped, peerMode>>

ImportFails(v) ==
  visits[v] = "importing" /\ Fails(v) /\ UNCHANGED <<loaderVars, peerMode>>

(* What the loader does to the view: a load starts in peer mode, and when it is
   over paints the peers of the session in place. *)
ViewFollows_NoRepaint ==
  /\ peerMode' = IF page'.session # page.session /\ page'.session # 0 THEN "peers" ELSE peerMode
  /\ UNCHANGED <<asnState, asinfo, mapped, visits, table>>
ViewFollows ==
  /\ peerMode' = IF page'.session # page.session /\ page'.session # 0 THEN "peers" ELSE peerMode
  /\ table' = IF (\E l \in Loads : loads[l].pc # "done" /\ loads'[l].pc = "done") /\ ~page'.dead
              THEN [rows |-> "peers", session |-> page'.session] ELSE table
  /\ UNCHANGED <<asnState, asinfo, mapped, visits>>

VisitStep(v) == Fetched(v) \/ FetchFails(v) \/ Imported(v) \/ ImportFails(v)
ViewStep == ShowNetworks \/ ShowPeers \/ \E v \in Visits : VisitStep(v)

Next ==
  \/ LoaderNext /\ ViewFollows
  \/ ViewStep

Spec == Init /\ [][Next]_vars

(* The event loop runs whatever a read, a yield, a fetch or an import has made
   ready. *)
Fairness ==
  /\ \A l \in Loads : WF_vars(LoadStep(l) /\ ViewFollows)
  /\ \A v \in Visits : WF_vars(VisitStep(v))
FairSpec == Spec /\ Fairness

-----------------------------------------------------------------------------
(* However often the view is opened while it loads, one visit at a time fetches
   and imports, and only while the page says that it is loading. *)
OneVisitFetches ==
  /\ \A u, v \in Visits : Waiting(u) /\ Waiting(v) => u = v
  /\ \A v \in Visits : Waiting(v) => asnState = "loading"

(* The rows on screen are those of the session in place, whichever of two loads
   ends first and whenever an answer comes. *)
RowsAreOfTheSession ==
  "app" \in page.shown /\ table.rows # "none" => table.session = page.session

(* Loading the networks view ends, for better or worse, unless a call panics. *)
LoadingSettles == asnState = "loading" ~> (asnState # "loading" \/ panics > 0)

(* "Requires an asmap file; without one the page says so": the page says nothing
   exactly when asnState is ready, so the session in place must have one then. *)
NetworksPageSaysSo ==
  peerMode = "networks" /\ asnState = "ready" /\ "app" \in page.shown => page.session \in mapped

=============================================================================

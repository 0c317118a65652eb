----------------------------- MODULE EventQuery -----------------------------
(***************************************************************************)
(* The raw event table (crates/core/src/view.rs: Filter, QueryCache, scan, *)
(* query) over the store and the peer table that ingest fills              *)
(* (crates/core/src/analysis.rs).  Pages may be asked for at any time.     *)
(*                                                                         *)
(* Kinds and groups select alike and are one set here; a peer stands for   *)
(* its dense index, 0 for NO_PEER and for an event without a peer.         *)
(***************************************************************************)
EXTENDS EventStore

CONSTANTS
  Filters,  \* the filters asked for
  Limit     \* rows of a page

None == -1
Filter == [kinds : SUBSET STRING, peerIds : SUBSET (Nat \ {0}), from : Int, to : Int, text : STRING]
EventOf == [size : Nat, time : Nat, kind : STRING, peer : Nat, addr : STRING]

ASSUME FiltersAssumption ==
  /\ Limit \in Nat \ {0}
  /\ \A e \in Events : e \in EventOf
  /\ \A f \in Filters : f \in Filter

VARIABLES
  addr,    \* the peers known, each with the last address seen ("" for none)
  cache,   \* the QueryCache
  answer   \* history: the last page, until another event comes

vars == <<storeVars, addr, cache, answer>>

AnyFilter == CHOOSE f \in Filters : TRUE
NoAnswer == [given |-> FALSE, filter |-> AnyFilter, offset |-> 0, rows |-> <<>>, total |-> 0]

-----------------------------------------------------------------------------
Unconstrained(f) ==
  f.kinds = {} /\ f.peerIds = {} /\ f.from = None /\ f.to = None /\ f.text = ""

PeerWanted(f) == {IF id \in DOMAIN addr THEN id ELSE 0 : id \in f.peerIds}
MatchesText(e, needle) ==
  needle = e.kind \/ (e.peer \in DOMAIN addr /\ addr[e.peer] = needle)

Matches(e, f) ==
  /\ f.from = None \/ e.time >= f.from
  /\ f.to = None \/ e.time <= f.to
  /\ f.peerIds = {} \/ e.peer \in PeerWanted(f)
  /\ f.kinds = {} \/ e.kind \in f.kinds
  /\ f.text = "" \/ MatchesText(e, f.text)
scan(f) ==
  LET found[n \in 0 .. Len(rows)] ==
        IF n = 0 THEN <<>>
        ELSE IF Matches(rows[n].event, f) THEN Append(found[n - 1], n) ELSE found[n - 1]
  IN  found[Len(rows)]

(* QueryCache::refresh *)
Fresh_FilterOnly(f) == cache.filled /\ cache.filter = f
Fresh(f) == cache.filled /\ cache.filter = f /\ cache.builtAtLen = Len(rows)
Refreshed(f) ==
  IF Fresh(f) THEN cache
  ELSE [filled |-> TRUE, filter |-> f, builtAtLen |-> Len(rows),
        all |-> Unconstrained(f),
        matches |-> IF Unconstrained(f) THEN <<>> ELSE scan(f),
        total |-> IF Unconstrained(f) THEN Len(rows) ELSE Len(scan(f))]

(* page_indices *)
Least(a, b) == IF a < b THEN a ELSE b
PageOf(indices, offset) == SubSeq(indices, offset + 1, Least(offset + Limit, Len(indices)))

-----------------------------------------------------------------------------
Init ==
  /\ StoreInit
  /\ addr = <<>>
  /\ cache = [filled |-> FALSE, filter |-> AnyFilter, builtAtLen |-> 0, all |-> FALSE,
              matches |-> <<>>, total |-> 0]
  /\ answer = NoAnswer

(* ingest_event: the peer table learns of the event before the store is asked
   to keep it.  A misbehaving peer's event has no address and changes none. *)
Ingest(e) ==
  /\ Len(archive) < MaxEvents
  /\ addr' = IF e.peer = 0 THEN addr
             ELSE [p \in DOMAIN addr \cup {e.peer} |->
                     IF p = e.peer /\ (e.addr # "" \/ p \notin DOMAIN addr) THEN e.addr ELSE addr[p]]
  /\ push(e)
  /\ answer' = NoAnswer
  /\ UNCHANGED cache

Query(f, offset) ==
  /\ cache' = Refreshed(f)
  /\ answer' = [given |-> TRUE, filter |-> f, offset |-> offset, total |-> cache'.total,
                rows |-> PageOf(IF cache'.all THEN [i \in DOMAIN rows |-> i] ELSE cache'.matches,
                                offset)]
  /\ UNCHANGED <<storeVars, addr>>

Next ==
  \/ \E e \in Events : Ingest(e)
  \/ \E f \in Filters, offset \in 0 .. MaxEvents : Query(f, offset)

Spec == Init /\ [][Next]_vars

-----------------------------------------------------------------------------
(* What a page shows now, said without cache, dense index or short cut. *)
Wanted(e, f) ==
  /\ f.from # None => f.from <= e.time
  /\ f.to # None => e.time <= f.to
  /\ f.peerIds # {} => e.peer \in f.peerIds
  /\ f.kinds # {} => e.kind \in f.kinds
  /\ f.text # "" => f.text = e.kind \/ (e.peer # 0 /\ f.text = addr[e.peer])
WantedNow(f) == {i \in DOMAIN rows : Wanted(rows[i].event, f)}

Right(a) ==
  /\ a.total = Cardinality(WantedNow(a.filter))
  /\ Len(a.rows) = IF a.total <= a.offset THEN 0 ELSE Least(a.total - a.offset, Limit)
  /\ \A k \in DOMAIN a.rows :
       /\ a.rows[k] \in WantedNow(a.filter)
       /\ Cardinality({i \in WantedNow(a.filter) : i < a.rows[k]}) = a.offset + k - 1

(* While retention goes on, a page asked for between any two events shows just
   the rows that match now, in order: the cache never answers for an older
   state of the archive.  (Peers the archive has not seen are another matter.) *)
PagesAreRight ==
  answer.given /\ stopped = "no" /\ answer.filter.peerIds \subseteq DOMAIN addr => Right(answer)

(* "The cache must not serve stale results when the filter changes or more
   events arrive", nor after retention has stopped. *)
CacheIsNotStale ==
  answer.given /\ answer.filter.peerIds \subseteq DOMAIN addr => Right(answer)

=============================================================================

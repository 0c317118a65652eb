------------------------------- MODULE Ingest -------------------------------
(***************************************************************************)
(* One event at a time, through everything the session accumulates         *)
(* (crates/core/src/analysis.rs, Ingest): its kind, the peer table, the    *)
(* relay statistics, and the store.  The histogram and the exchanges,      *)
(* which share no state with these, are Histogram and ExchangeTracker.     *)
(*                                                                         *)
(* The store is reduced to what EventStore shows of it: the events it      *)
(* holds are the first ones, and once it stops it holds no more.           *)
(*                                                                         *)
(* A definition named X_Y is X with the mistake Y in it.                   *)
(***************************************************************************)
EXTENDS PeerTable, Relay

CONSTANTS
  NoPeer,     \* NO_PEER
  Archives,   \* sets of events: an archive holds events of one of them
  MaxEvents   \* bound of the model: events in the archive

(***************************************************************************)
(* What the properties need of an event: its class, the kinds of a         *)
(* connection's event (an event the reader does not know is "none"), that  *)
(* the items of an inv and the peers of a poll are lists, and the widths   *)
(* the protocol gives its numbers.                                         *)
(***************************************************************************)
ASSUME EventsAssumption ==
  \A events \in Archives : \A e \in events :
    /\ e.class \in {"message", "connection", "peer_infos", "other"}
    /\ e.timestamp \in Nat
    /\ e.class = "message" => e.inbound \in BOOLEAN /\ e.size \in Nat
    /\ e.class = "message" /\ e.message.command = "inv" =>
         e.message.items \in Seq(Range(e.message.items))
    /\ e.class = "connection" =>
         e.kind \in LifecycleKinds \cup {"none"} /\ e.connType \in Int /\ e.established \in Nat
    /\ e.class = "peer_infos" => e.infos \in Seq(Range(e.infos))

VARIABLES
  table,       \* Analysis.peers
  relay,       \* Analysis.relay
  kinds,       \* Analysis.kinds: the kind with each id
  counts,      \* Analysis.counts, by kind id
  totalEvents, \* Analysis.total_events
  clock,       \* Analysis.first_timestamp and last_timestamp, {} for None
  store,       \* the retained rows, and whether retention has stopped
  archive,     \* history: the events the archive is made of
  log          \* history: every event, in order

vars == <<table, relay, kinds, counts, totalEvents, clock, store, archive, log>>

(***************************************************************************)
(* classify: the kinds of two groups may share a name.                     *)
(***************************************************************************)
KindOf(e) ==
  CASE e.class = "message" -> <<"message", e.message.command>>
    [] e.class = "connection" -> <<"connection", IF e.kind = "none" THEN "(unknown)" ELSE e.kind>>
    [] e.class = "peer_infos" -> <<"rpc", "peer_infos">>
    [] e.class = "other" -> <<e.group, e.name>>

(***************************************************************************)
(* intern and get.                                                         *)
(***************************************************************************)
Intern(names, kind) == IF Contains(names, kind) THEN names ELSE Append(names, kind)

KindId(names, kind) == CHOOSE i \in DOMAIN names : names[i] = kind

CountKind(tally, id) ==
  [i \in 1..Larger(Len(tally), id) |->
     (IF i \in DOMAIN tally THEN tally[i] ELSE 0) + (IF i = id THEN 1 ELSE 0)]

Spanning(span, timestamp) ==
  IF span = {} THEN {timestamp} ELSE {Min(span \cup {timestamp}), Max(span \cup {timestamp})}

-----------------------------------------------------------------------------
(***************************************************************************)
(* attribute_to_peer and attribute_ebpf: what an event changes, ...        *)
(***************************************************************************)
NamePolled(t, infos) ==
  LET named[n \in 0 .. Len(infos)] ==
        IF n = 0 THEN t
        ELSE RecordUserAgent(named[n - 1], infos[n].peer, infos[n].agent, "getpeerinfo")
  IN  named[Len(infos)]

TableAfter(t, e, kind) ==
  CASE e.class = "message" -> RecordMessage(t, e, kind)
    [] e.class = "connection" -> RecordConnection(t, e)
    [] e.class = "peer_infos" -> NamePolled(t, e.infos)
    [] e.class = "other" -> t

RelayAfter(r, e) == IF e.class = "message" THEN RecordRelay(r, e) ELSE r

(***************************************************************************)
(* ... and the columns it is retained with.                                *)
(***************************************************************************)
IndexOf(t, e) ==
  IF e.class = "message" \/ (e.class = "connection" /\ e.kind # "none")
  THEN t.peers[e.peer].index ELSE NoPeer

DirectionOf(e) ==
  IF e.class # "message" THEN "none" ELSE IF e.inbound THEN "in" ELSE "out"

RowOf(t, e, kind) ==
  [timestamp |-> e.timestamp, kind |-> kind, peer |-> IndexOf(t, e),
   direction |-> DirectionOf(e), size |-> IF e.class = "message" THEN e.size ELSE 0]

(***************************************************************************)
(* push, as EventStore shows it.                                           *)
(***************************************************************************)
Pushed(s, row) ==
  IF s.full THEN {s} ELSE {[s EXCEPT !.rows = Append(@, row)], [s EXCEPT !.full = TRUE]}

-----------------------------------------------------------------------------
Init ==
  /\ table = NewTable
  /\ relay = NewRelay
  /\ kinds = <<>>
  /\ counts = <<>>
  /\ totalEvents = 0
  /\ clock = {}
  /\ store = [rows |-> <<>>, full |-> FALSE]
  /\ archive \in Archives
  /\ log = <<>>

(***************************************************************************)
(* ingest_event                                                            *)
(***************************************************************************)
IngestEvent(e) ==
  LET id == KindId(Intern(kinds, KindOf(e)), KindOf(e))
  IN /\ Len(log) < MaxEvents
     /\ kinds' = Intern(kinds, KindOf(e))
     /\ counts' = CountKind(counts, id)
     /\ totalEvents' = totalEvents + 1
     /\ clock' = Spanning(clock, e.timestamp)
     /\ table' = TableAfter(table, e, id)
     /\ relay' = RelayAfter(relay, e)
     /\ store' \in Pushed(store, RowOf(table', e, id))
     /\ log' = Append(log, e)
     /\ UNCHANGED archive

Next == \E e \in archive : IngestEvent(e)

Spec == Init /\ [][Next]_vars

=============================================================================

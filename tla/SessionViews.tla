---------------------------- MODULE SessionViews ----------------------------
(***************************************************************************)
(* What the pages make of the session (crates/core/src/view.rs and         *)
(* crates/core/src/asn.rs): projections of the state Ingest builds, which  *)
(* change nothing.  Sparse encodings, labels and shares are left out.      *)
(*                                                                         *)
(* A definition named X_Y is X with the mistake Y in it.                   *)
(***************************************************************************)
EXTENDS Ingest

CONSTANTS
  Ip, NoIp,   \* peer_ip: the IP address in an address, NoIp for Tor and the like
  Asn, NoAsn  \* the asmap: the system of an IP address, NoAsn (0) where it has none

Known == DOMAIN table.peers
PeerOf(p) == table.peers[p]

Duration(peer) == peer.lastSeen - peer.firstSeen
EventsOf(peer) ==
  peer.messages.inbound.count + peer.messages.outbound.count + peer.lifecycleTotal

-----------------------------------------------------------------------------
(***************************************************************************)
(* The column of a timestamp, in both rasters.                             *)
(***************************************************************************)
Column_NoEdge(timestamp, start, span, columns) ==
  (Larger(0, timestamp - start) * columns) \div span
Column(timestamp, start, span, columns) ==
  Smaller(columns - 1, (Larger(0, timestamp - start) * columns) \div span)

Directed == {i \in DOMAIN store.rows : store.rows[i].direction # "none"}

Busier(totals, first, j, k) ==
  LET n(x) == totals[x].inbound + totals[x].outbound
  IN n(j) > n(k) \/ (n(j) = n(k) /\ first[j] < first[k])

(***************************************************************************)
(* peer_raster: a row per command of one peer, the busiest first and as    *)
(* many as there is room for, over the time the peer was seen.             *)
(***************************************************************************)
PeerRaster(p, columns, room) ==
  LET peer == PeerOf(p)
      span == Larger(1, Duration(peer))
      column(timestamp) == Column(timestamp, peer.firstSeen, span, columns)
      mine == {i \in Directed : store.rows[i].peer = peer.index}
      used == {store.rows[i].kind : i \in mine}
      going(k, d) == {i \in mine : store.rows[i].kind = k /\ store.rows[i].direction = d}
      totals == [k \in used |-> [inbound |-> Cardinality(going(k, "in")),
                                 outbound |-> Cardinality(going(k, "out"))]]
      first == [k \in used |-> Min(going(k, "in") \cup going(k, "out"))]
      order == SetToSortSeq(used, LAMBDA j, k : Busier(totals, first, j, k))
  IN [rows |-> SubSeq(order, 1, Smaller(Larger(1, room), Len(order))),
      commands |-> Len(order),
      cell |-> [at \in used \X (0..(columns - 1)) \X {"in", "out"} |->
                  Cardinality({i \in going(at[1], at[3]) : column(store.rows[i].timestamp) = at[2]})],
      totals |-> totals,
      marks |-> [i \in DOMAIN peer.lifecycle |-> column(peer.lifecycle[i].timestamp)],
      marksComplete |-> peer.lifecycleTotal <= Len(peer.lifecycle),
      partial |-> store.full]

(***************************************************************************)
(* peer_activity: a row per peer seen in the window from..to, given by the *)
(* filter or else by the archive's own clock.                              *)
(***************************************************************************)
ActivityOf(from, to, columns, shortest) ==
  LET span == to - from
      shown == {p \in Known : /\ Duration(PeerOf(p)) >= shortest
                              /\ PeerOf(p).lastSeen >= from /\ PeerOf(p).firstSeen <= to}
      drawn == {i \in Directed : from <= store.rows[i].timestamp /\ store.rows[i].timestamp <= to}
  IN IF to <= from THEN [peers |-> {}, cell |-> <<>>]
     ELSE [peers |-> shown,
           cell |-> [at \in shown \X (0..(columns - 1)) \X {"in", "out"} |->
                       {i \in drawn : /\ store.rows[i].peer = PeerOf(at[1]).index
                                      /\ store.rows[i].direction = at[3]
                                      /\ Column(store.rows[i].timestamp, from, span, columns) = at[2]}]]

-----------------------------------------------------------------------------
(***************************************************************************)
(* user_agents, connection_durations, and relay.                           *)
(***************************************************************************)
UserAgents ==
  LET named == {p \in Known : PeerOf(p).agent # 0}
  IN [counts |-> [i \in DOMAIN table.agents |-> Cardinality({p \in named : PeerOf(p).agent = i})],
      unknown |-> Cardinality(Known) - Cardinality(named)]

ConnectionDurations(ending) ==
  LET shown(slot) == IF ending \in Endings THEN table.durations[ending][slot]
                     ELSE AllDurations(table, slot)
  IN [slot \in {s \in Slots : shown(s).count > 0} |-> shown(slot)]

RelayPeers == {p \in DOMAIN relay.peers :
                 relay.peers[p].first + relay.peers[p].late + relay.peers[p].delivered > 0}

-----------------------------------------------------------------------------
(***************************************************************************)
(* Networks: network_of, absorb and group.  A first_seen of zero is taken  *)
(* for one not set yet.                                                    *)
(***************************************************************************)
NetworkOf(peer) ==
  IF peer.addr = NoAddr THEN "address not seen"
  ELSE IF Ip[peer.addr] = NoIp THEN "Tor / I2P / CJDNS"
  ELSE IF Asn[Ip[peer.addr]] = NoAsn THEN "unmapped IP"
  ELSE Asn[Ip[peer.addr]]

NoStats == [peers |-> 0, inbound |-> NoTally, outbound |-> NoTally, firstSeen |-> 0, lastSeen |-> 0,
            lifecycle |-> [kind \in LifecycleKinds |-> 0]]

Added(x, y) == [count |-> x.count + y.count, bytes |-> x.bytes + y.bytes]

Absorb_EarliestOrZero(stats, peer) ==
  [peers |-> stats.peers + 1,
   inbound |-> Added(stats.inbound, peer.messages.inbound),
   outbound |-> Added(stats.outbound, peer.messages.outbound),
   firstSeen |-> Smaller(stats.firstSeen, peer.firstSeen),
   lastSeen |-> Larger(stats.lastSeen, peer.lastSeen),
   lifecycle |-> [kind \in LifecycleKinds |-> stats.lifecycle[kind] + peer.lifecycleCounts[kind]]]
Absorb(stats, peer) ==
  [peers |-> stats.peers + 1,
   inbound |-> Added(stats.inbound, peer.messages.inbound),
   outbound |-> Added(stats.outbound, peer.messages.outbound),
   firstSeen |-> IF stats.firstSeen = 0 THEN peer.firstSeen
                 ELSE Smaller(stats.firstSeen, peer.firstSeen),
   lastSeen |-> Larger(stats.lastSeen, peer.lastSeen),
   lifecycle |-> [kind \in LifecycleKinds |-> stats.lifecycle[kind] + peer.lifecycleCounts[kind]]]

Group ==
  [network \in {NetworkOf(PeerOf(p)) : p \in Known} |->
     FoldSet(LAMBDA p, stats : Absorb(stats, PeerOf(p)), NoStats,
             {p \in Known : NetworkOf(PeerOf(p)) = network})]

=============================================================================

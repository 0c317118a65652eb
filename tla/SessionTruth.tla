---------------------------- MODULE SessionTruth ----------------------------
(***************************************************************************)
(* What a session says, held against the log of the events it was fed.     *)
(***************************************************************************)
EXTENDS SessionViews

HasPeer(e) == e.class = "message" \/ (e.class = "connection" /\ e.kind # "none")
Of(p) == {i \in DOMAIN log : HasPeer(log[i]) /\ log[i].peer = p}

AcrossColumns(k, cell, columns, d) == SumFunction([c \in 0..(columns - 1) |-> cell[<<k, c, d>>]])

(***************************************************************************)
(* A retained row is read back through tables that were still growing when *)
(* it was written.  Its kind id and its peer index, looked up in the       *)
(* tables of now, still name the kind and the peer of the event it holds,  *)
(* and the count kept with each kind is that of the whole archive.         *)
(***************************************************************************)
RowsKeepTheirMeaning ==
  /\ \A i \in DOMAIN store.rows :
       LET row == store.rows[i]
           e == log[i]
       IN /\ row.timestamp = e.timestamp
          /\ row.kind \in DOMAIN kinds /\ kinds[row.kind] = KindOf(e)
          /\ IF HasPeer(e)
             THEN row.peer \in DOMAIN table.byIndex /\ table.byIndex[row.peer] = e.peer
             ELSE row.peer = NoPeer
  /\ \A k \in DOMAIN kinds :
       counts[k] = Cardinality({i \in DOMAIN log : KindOf(log[i]) = kinds[k]})

-----------------------------------------------------------------------------
(***************************************************************************)
(* A peer is called what it called itself in the first version it sent;    *)
(* failing one, what the first poll after it became known called it; and   *)
(* polls alone make no peer known.  Past MaxAgents names this no longer    *)
(* holds, and is not promised; the chart of names shows every peer once    *)
(* all the same.                                                           *)
(***************************************************************************)
Polls(i) == IF log[i].class = "peer_infos" THEN Range(log[i].infos) ELSE {}

Introductions(p) ==
  {i \in Of(p) : /\ log[i].class = "message" /\ log[i].inbound
                 /\ log[i].message.command = "version" /\ log[i].agent # NoAgent}

Polled(p) ==
  {i \in DOMAIN log : /\ i > Min(Of(p))
                      /\ \E info \in Polls(i) : info.peer = p /\ info.agent # NoAgent}

AgentsOffered ==
  {log[i].agent : i \in UNION {Introductions(p) : p \in Known}}
    \cup UNION {{info.agent : info \in Polls(i)} : i \in DOMAIN log}

FirstHandAgentWins ==
  /\ Known = {log[i].peer : i \in {j \in DOMAIN log : HasPeer(log[j])}}
  /\ SumFunction(UserAgents.counts) + UserAgents.unknown = Cardinality(Known)
  /\ Cardinality(AgentsOffered \ {NoAgent}) <= MaxAgents =>
       \A p \in Known :
         LET peer == PeerOf(p)
         IN IF Introductions(p) # {}
            THEN /\ peer.source = "version"
                 /\ table.agents[peer.agent] = log[Min(Introductions(p))].agent
            ELSE IF Polled(p) # {}
            THEN /\ peer.source = "getpeerinfo"
                 /\ \E info \in Polls(Min(Polled(p))) :
                      info.peer = p /\ table.agents[peer.agent] = info.agent
            ELSE peer.agent = 0

-----------------------------------------------------------------------------
(***************************************************************************)
(* A peer's list keeps the most recent of its lifecycle, and its counters  *)
(* keep all of it, whatever the list dropped.                              *)
(***************************************************************************)
Lifecycle(p) == {i \in Of(p) : log[i].class = "connection"}

LifecycleIsExact ==
  \A p \in Known :
    LET lived == Lifecycle(p)
        kept == PeerOf(p).lifecycle
    IN /\ PeerOf(p).lifecycleTotal = Cardinality(lived)
       /\ \A kind \in LifecycleKinds :
            PeerOf(p).lifecycleCounts[kind] = Cardinality({i \in lived : log[i].kind = kind})
       /\ Len(kept) = Smaller(LifecycleCap, Cardinality(lived))
       /\ \A j \in DOMAIN kept :
            \E i \in lived :
              /\ kept[j] = [timestamp |-> log[i].timestamp, kind |-> log[i].kind]
              /\ Cardinality({later \in lived : later > i}) = Len(kept) - j

(***************************************************************************)
(* Every connection that ended is in one distribution, under its type and  *)
(* the way it ended, and the charts over both ways hold exactly the two.   *)
(* The per-peer lists, which are capped, would have lost some of them.     *)
(***************************************************************************)
Lifetimes(endings, slot) ==
  [i \in {j \in DOMAIN log : /\ log[j].class = "connection" /\ log[j].kind \in endings
                             /\ Slot(log[j].connType) = slot} |-> Lifetime(log[i])]

EveryEndIsTimedOnce ==
  \A slot \in Slots :
    /\ \A end \in Endings :
         table.durations[end][slot] = DistributionOf(Lifetimes({end}, slot))
    /\ LET both == Lifetimes(Endings, slot)
       IN IF both = <<>> THEN slot \notin DOMAIN ConnectionDurations("all")
          ELSE ConnectionDurations("all")[slot] = DistributionOf(both)

(***************************************************************************)
(* A percentile is within its bucket's width of the sample it estimates,   *)
(* the open-ended bucket aside, and never outside what was observed.       *)
(***************************************************************************)
CloseTo(d, samples, num, den) ==
  LET exact == OrderStatistic(samples, Target(d, num, den))
      estimate == Percentile(d, num, den)
  IN /\ d.min <= estimate /\ estimate <= d.max
     /\ BucketOf(exact) < Buckets - 1 =>
          /\ estimate - exact <= Width(BucketOf(exact))
          /\ exact - estimate <= Width(BucketOf(exact))

PercentilesAreClose ==
  \A slot \in DOMAIN ConnectionDurations("all") : \A tenths \in {0, 5, 9, 10} :
    CloseTo(ConnectionDurations("all")[slot], Lifetimes(Endings, slot), tenths, 10)

(***************************************************************************)
(* The comment on Timed: an establishment time in the future, or none at   *)
(* all (zero), contributes nothing.                                        *)
(***************************************************************************)
NoWrongLifetimes ==
  \A slot \in Slots : \A end \in Endings :
    table.durations[end][slot].count =
      Cardinality({i \in DOMAIN Lifetimes({end}, slot) :
                     0 < log[i].established /\ log[i].established * Second <= log[i].timestamp})

-----------------------------------------------------------------------------
(***************************************************************************)
(* The scorecards add up: whatever was announced or delivered is some      *)
(* peer's first, late or delivered, or was untracked, and the archive's    *)
(* totals and distributions are the peers' put together.                   *)
(***************************************************************************)
Inbound(command) ==
  {i \in DOMAIN log : /\ log[i].class = "message" /\ log[i].inbound
                      /\ log[i].message.command = command}

AnnouncedIn(i) ==
  {j \in DOMAIN log[i].message.items : TransactionHash(log[i].message.items[j]) # NoHash}

RelayIsConserved ==
  LET all == Totals(relay)
  IN /\ relay.announcements = MapThenSumSet(LAMBDA i : Cardinality(AnnouncedIn(i)), Inbound("inv"))
     /\ relay.announcements + relay.deliveries
          = all.first + all.late + all.delivered + relay.untracked
     /\ all.late = relay.lateAnnouncements /\ all.lag = relay.lag
     /\ all.late = all.lag.count
     /\ all.duplicate = relay.duplicateDeliveries /\ all.duplicateBytes = relay.duplicateBytes
     /\ all.heardToHeld = relay.heardToHeld
     /\ RelayPeers = DOMAIN relay.peers

(***************************************************************************)
(* Duplicates and waits are told per transaction, though a transaction has *)
(* two hashes and an entry is kept under one: the deliveries after the     *)
(* first are the duplicates, and the wait is measured once, of those       *)
(* announced before they were delivered.  The exceptions: a transaction    *)
(* first announced under its txid after it was delivered under its wtxid,  *)
(* and transactions that have a hash in common, which share an entry.      *)
(***************************************************************************)
Announced(hash) ==
  {i \in Inbound("inv") : \E j \in AnnouncedIn(i) : TransactionHash(log[i].message.items[j]) = hash}

Deliveries(ids) == {i \in Inbound("tx") : log[i].message.ids = ids}
Held == {ids \in {log[i].message.ids : i \in Inbound("tx")} : ids[1] # NoHash}
HashesOf(ids) == {ids[1], ids[2]} \ {NoHash}

AnnouncedBefore(hash, i) == \E j \in Announced(hash) : j < i
AnnouncedFirst(ids) == \E hash \in HashesOf(ids) : AnnouncedBefore(hash, Min(Deliveries(ids)))

ChangesHash(ids) ==
  LET first == Min(Deliveries(ids))
  IN /\ AnnouncedBefore(ids[2], first) /\ ~AnnouncedBefore(ids[1], first)
     /\ Announced(ids[1]) # {}

SharesHash(ids) == \E other \in Held \ {ids} : HashesOf(ids) \cap HashesOf(other) # {}

DuplicatesAreCounted ==
  relay.untracked = 0 /\ (\A ids \in Held : ~ChangesHash(ids) /\ ~SharesHash(ids)) =>
    /\ relay.duplicateDeliveries =
         MapThenSumSet(LAMBDA ids : Cardinality(Deliveries(ids)) - 1, Held)
    /\ relay.heardToHeld.count = Cardinality({ids \in Held : AnnouncedFirst(ids)})

-----------------------------------------------------------------------------
(***************************************************************************)
(* The two rasters, drawn from the store, and the peer table, counted as   *)
(* the events came, agree: every retained message is in one cell, at the   *)
(* edges too, and if all were retained a peer's rows hold as many of each  *)
(* command as its tallies.                                                 *)
(***************************************************************************)
RasterIsWhole(p, columns) ==
  LET raster == PeerRaster(p, columns, 2)
      in(k) == AcrossColumns(k, raster.cell, columns, "in")
      out(k) == AcrossColumns(k, raster.cell, columns, "out")
  IN /\ \A k \in DOMAIN raster.totals :
          in(k) = raster.totals[k].inbound /\ out(k) = raster.totals[k].outbound
     /\ ~raster.partial =>
          /\ DOMAIN raster.totals = DOMAIN PeerOf(p).commands
          /\ \A k \in DOMAIN raster.totals :
               /\ in(k) = PeerOf(p).commands[k].inbound.count
               /\ out(k) = PeerOf(p).commands[k].outbound.count

ActivityIsWhole(from, to, columns) ==
  LET activity == ActivityOf(from, to, columns, 0)
  IN \A i \in Directed :
       Cardinality({c \in DOMAIN activity.cell : i \in activity.cell[c]}) =
         IF from <= log[i].timestamp /\ log[i].timestamp <= to THEN 1 ELSE 0

RastersAgree ==
  \A columns \in 1..3 :
    /\ \A p \in Known : RasterIsWhole(p, columns)
    /\ \A from, to \in {log[i].timestamp : i \in DOMAIN log} :
         from < to => ActivityIsWhole(from, to, columns)

(***************************************************************************)
(* Every peer is in one network, and the networks' sums and spans are      *)
(* those of the events of their peers.  The first instant of all (zero) is *)
(* taken for none, so spans are told from peers seen later than it.        *)
(***************************************************************************)
NetworksAddUp ==
  LET messages(net, inbound) ==
        {i \in DOMAIN log : /\ log[i].class = "message" /\ log[i].inbound = inbound
                            /\ NetworkOf(PeerOf(log[i].peer)) = net}
      span(net) == {log[i].timestamp : i \in UNION {Of(p) : p \in {q \in Known : NetworkOf(PeerOf(q)) = net}}}
  IN /\ MapThenSumSet(LAMBDA net : Group[net].peers, DOMAIN Group) = Cardinality(Known)
     /\ \A net \in DOMAIN Group :
          /\ Group[net].inbound.count = Cardinality(messages(net, TRUE))
          /\ Group[net].outbound.count = Cardinality(messages(net, FALSE))
          /\ Group[net].lastSeen = Max(span(net))
          /\ Min(span(net)) > 0 => Group[net].firstSeen = Min(span(net))

=============================================================================

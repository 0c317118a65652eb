------------------------------ MODULE PeerTable ------------------------------
(***************************************************************************)
(* Per-peer statistics (crates/core/src/peers.rs, PeerTable), as operators *)
(* on one record: the ingest step applies them with the relay's.           *)
(*                                                                         *)
(* Peer indices and user agent ids count from one here, from zero in the   *)
(* code.  A number of messages and their bytes is a tally.                 *)
(*                                                                         *)
(* A definition named X_Y is X with the mistake Y in it.                   *)
(***************************************************************************)
EXTENDS Latencies, SequencesExt

CONSTANTS
  NoAddr, NoType, NoNetwork,  \* the None of a peer's addr, conn_type, network
  NoAgent,       \* the empty user agent
  ConnTypes,     \* CONN_TYPES
  LifecycleCap,  \* LIFECYCLE_CAP
  MaxAgents,     \* how many user agents a u16 numbers
  Second         \* milliseconds in a second: 1000

ASSUME PeerTableAssumption ==
  /\ {LifecycleCap, ConnTypes, Second} \subseteq Nat \ {0}
  /\ MaxAgents \in Nat

LifecycleKinds == {"inbound", "outbound", "closed", "inbound_evicted", "misbehaving"}
Endings == {"closed", "inbound_evicted"}

Slots == 0..(ConnTypes - 1)

NoTally == [count |-> 0, bytes |-> 0]
Counted(tally, size) == [count |-> tally.count + 1, bytes |-> tally.bytes + size]
BothWays == [inbound |-> NoTally, outbound |-> NoTally]

NewTable ==
  [peers |-> <<>>, byIndex |-> <<>>, agents |-> <<>>,
   durations |-> [end \in Endings |-> [slot \in Slots |-> NoSamples]]]

NewPeer(index, timestamp) ==
  [index |-> index, addr |-> NoAddr, agent |-> 0, source |-> "none", connType |-> NoType,
   network |-> NoNetwork, firstSeen |-> timestamp, lastSeen |-> timestamp,
   messages |-> BothWays, commands |-> <<>>, lifecycle |-> <<>>, lifecycleTotal |-> 0,
   lifecycleCounts |-> [kind \in LifecycleKinds |-> 0]]

(***************************************************************************)
(* entry, with touch.                                                      *)
(***************************************************************************)
Entry_ByCount(t, p, timestamp) ==
  IF p \in DOMAIN t.peers
  THEN [t EXCEPT !.peers[p].firstSeen = Smaller(@, timestamp),
                 !.peers[p].lastSeen = Larger(@, timestamp)]
  ELSE [t EXCEPT !.peers = With(@, p, NewPeer(Len(t.byIndex), timestamp)),
                 !.byIndex = Append(@, p)]
Entry(t, p, timestamp) ==
  IF p \in DOMAIN t.peers
  THEN [t EXCEPT !.peers[p].firstSeen = Smaller(@, timestamp),
                 !.peers[p].lastSeen = Larger(@, timestamp)]
  ELSE [t EXCEPT !.peers = With(@, p, NewPeer(Len(t.byIndex) + 1, timestamp)),
                 !.byIndex = Append(@, p)]

-----------------------------------------------------------------------------
(***************************************************************************)
(* record_user_agent.                                                      *)
(***************************************************************************)
MayName_Always(peer, source) ==
  peer.agent = 0 \/ source = "version"
MayName(peer, source) ==
  peer.agent = 0 \/ (source = "version" /\ peer.source # "version")

Interned(agents, agent) ==
  IF Contains(agents, agent) \/ Len(agents) >= MaxAgents THEN agents ELSE Append(agents, agent)

RecordUserAgent(t, p, agent, source) ==
  LET agents == Interned(t.agents, agent)
  IN IF /\ agent # NoAgent
        /\ p \in DOMAIN t.peers
        /\ MayName(t.peers[p], source)
        /\ Contains(agents, agent)
     THEN [t EXCEPT !.agents = agents,
             !.peers[p].agent = CHOOSE i \in DOMAIN agents : agents[i] = agent,
             !.peers[p].source = source]
     ELSE t

(***************************************************************************)
(* record_message.  An inbound version names the peer before the message   *)
(* is counted.                                                             *)
(***************************************************************************)
Named(t, e) ==
  IF e.inbound /\ e.message.command = "version"
  THEN RecordUserAgent(Entry(t, e.peer, e.timestamp), e.peer, e.agent, "version")
  ELSE t

CountedWay(both, e) ==
  IF e.inbound THEN [both EXCEPT !.inbound = Counted(@, e.size)]
  ELSE [both EXCEPT !.outbound = Counted(@, e.size)]

CommandTally(peer, kind) == IF kind \in DOMAIN peer.commands THEN peer.commands[kind] ELSE BothWays

WithMessage(peer, e, kind) ==
  [peer EXCEPT !.addr = e.addr, !.connType = e.connType, !.messages = CountedWay(@, e),
     !.commands = With(@, kind, CountedWay(CommandTally(peer, kind), e))]

RecordMessage(t, e, kind) ==
  [Entry(Named(t, e), e.peer, e.timestamp) EXCEPT !.peers[e.peer] = WithMessage(@, e, kind)]

-----------------------------------------------------------------------------
(***************************************************************************)
(* record_connection.  misbehaving carries no connection, and leaves what  *)
(* is known of the peer alone.  The lifetime counts back from the event to *)
(* the second the connection was established in.                           *)
(***************************************************************************)
UpdateIdentity(peer, e) ==
  IF e.kind = "misbehaving" THEN peer
  ELSE [peer EXCEPT !.addr = e.addr, !.connType = e.connType, !.network = e.network]

Lifetime(e) == Larger(0, e.timestamp - e.established * Second)

Slot(connType) == Larger(0, Smaller(ConnTypes - 1, connType))

LastFew(events) == IF Len(events) > LifecycleCap THEN Tail(events) ELSE events

Lived_CountsKept(peer, e) ==
  LET kept == LastFew(Append(peer.lifecycle, [timestamp |-> e.timestamp, kind |-> e.kind]))
  IN [peer EXCEPT !.lifecycle = kept, !.lifecycleTotal = @ + 1,
        !.lifecycleCounts[e.kind] = Cardinality({i \in DOMAIN kept : kept[i].kind = e.kind})]
Lived(peer, e) ==
  [peer EXCEPT !.lifecycle = LastFew(Append(@, [timestamp |-> e.timestamp, kind |-> e.kind])),
     !.lifecycleTotal = @ + 1, !.lifecycleCounts[e.kind] = @ + 1]

Timed_AllClosed(t, e) ==
  IF e.kind \notin Endings THEN t
  ELSE [t EXCEPT !.durations["closed"][Slot(e.connType)] = Add(@, Lifetime(e))]
Timed(t, e) ==
  IF e.kind \notin Endings THEN t
  ELSE [t EXCEPT !.durations[e.kind][Slot(e.connType)] = Add(@, Lifetime(e))]

RecordConnection(t, e) ==
  IF e.kind = "none" THEN t
  ELSE Timed([Entry(t, e.peer, e.timestamp) EXCEPT !.peers[e.peer] = Lived(UpdateIdentity(@, e), e)],
             e)

(***************************************************************************)
(* ConnectionDurations::all                                                *)
(***************************************************************************)
AllDurations(t, slot) == Merge(t.durations["closed"][slot], t.durations["inbound_evicted"][slot])

=============================================================================

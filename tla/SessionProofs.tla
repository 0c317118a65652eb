---------------------------- MODULE SessionProofs ----------------------------
(***************************************************************************)
(* For every archive, and every number of peers, names and types: what a   *)
(* retained row means, what a peer's lifecycle keeps, which connection is  *)
(* timed where, what a peer is called, what the relay statistics count,    *)
(* what the rasters draw and what the networks add up to.                  *)
(***************************************************************************)
EXTENDS SessionTruth, Sums, SequenceTheorems, TLAPS

(***************************************************************************)
(* The shapes of the records the peer table is made of.                    *)
(***************************************************************************)
PeerFields ==
  {"index", "addr", "agent", "source", "connType", "network", "firstSeen", "lastSeen",
   "messages", "commands", "lifecycle", "lifecycleTotal", "lifecycleCounts"}

IsPeer(peer) == DOMAIN peer = PeerFields /\ peer = [f \in PeerFields |-> peer[f]]

IsTable(t) ==
  /\ t = [peers |-> t.peers, byIndex |-> t.byIndex, agents |-> t.agents, durations |-> t.durations]
  /\ t.peers = [p \in DOMAIN t.peers |-> t.peers[p]]
  /\ \A p \in DOMAIN t.peers : IsPeer(t.peers[p])

(***************************************************************************)
(* What two records of a peer agree on: its name, and its life.            *)
(***************************************************************************)
SameName(x, y) == x.agent = y.agent /\ x.source = y.source
SameLife(x, y) ==
  /\ x.lifecycle = y.lifecycle
  /\ x.lifecycleTotal = y.lifecycleTotal
  /\ x.lifecycleCounts = y.lifecycleCounts
SameIndex(x, y) == x.index = y.index

(* u is t with the entry of p, which is in it anew or was before. *)
HasEntry(t, p, u) ==
  /\ DOMAIN u.peers = DOMAIN t.peers \cup {p}
  /\ \A q \in DOMAIN t.peers : u.peers[q].index = t.peers[q].index
  /\ IF p \in DOMAIN t.peers THEN u.byIndex = t.byIndex
     ELSE u.byIndex = Append(t.byIndex, p) /\ u.peers[p].index = Len(t.byIndex) + 1

(* No life has changed but for the peers in S, and a new peer has none yet. *)
KeepsLives(t, u, S) ==
  \A q \in DOMAIN u.peers \ S :
    IF q \in DOMAIN t.peers THEN SameLife(u.peers[q], t.peers[q])
    ELSE SameLife(u.peers[q], NewPeer(1, 0))

KeepsNames(t, u) ==
  /\ u.agents = t.agents
  /\ \A q \in DOMAIN u.peers :
       IF q \in DOMAIN t.peers THEN SameName(u.peers[q], t.peers[q])
       ELSE SameName(u.peers[q], NewPeer(1, 0))

-----------------------------------------------------------------------------
(* Replacing the record of one peer. *)
WithPeerRecord(t, p, peer) == [t EXCEPT !.peers[p] = peer]

LEMMA PeerReplaced ==
  ASSUME NEW t, IsTable(t), NEW p \in DOMAIN t.peers, NEW peer, IsPeer(peer)
  PROVE  LET u == WithPeerRecord(t, p, peer)
         IN /\ IsTable(u)
            /\ u.byIndex = t.byIndex /\ u.agents = t.agents /\ u.durations = t.durations
            /\ DOMAIN u.peers = DOMAIN t.peers
            /\ u.peers[p] = peer
            /\ \A q \in DOMAIN t.peers : q # p => u.peers[q] = t.peers[q]
<1> DEFINE peers == [t.peers EXCEPT ![p] = peer]
           u == [t EXCEPT !.peers = peers]
<1>1. WithPeerRecord(t, p, peer) = u
  BY Zenon DEF WithPeerRecord
<1>2. /\ DOMAIN peers = DOMAIN t.peers
      /\ peers = [q \in DOMAIN peers |-> peers[q]]
      /\ peers[p] = peer
      /\ \A q \in DOMAIN t.peers : q # p => peers[q] = t.peers[q]
  BY DEF IsTable
<1> HIDE DEF peers
<1>3. u.peers = peers /\ u.byIndex = t.byIndex /\ u.agents = t.agents /\ u.durations = t.durations
  BY DEF IsTable
<1>4. u = [peers |-> u.peers, byIndex |-> u.byIndex, agents |-> u.agents, durations |-> u.durations]
  BY DEF IsTable
<1> HIDE DEF u
<1>5. \A q \in DOMAIN u.peers : IsPeer(u.peers[q])
  BY <1>2, <1>3 DEF IsTable
<1> QED BY <1>1, <1>2, <1>3, <1>4, <1>5 DEF IsTable

(* entry. *)
LEMMA EntryMade ==
  ASSUME NEW t, IsTable(t), NEW p, NEW timestamp
  PROVE  LET u == Entry(t, p, timestamp)
         IN /\ IsTable(u) /\ u.durations = t.durations
            /\ HasEntry(t, p, u)
            /\ KeepsLives(t, u, {})
            /\ KeepsNames(t, u)
<1> DEFINE u == Entry(t, p, timestamp)
<1>1. CASE p \in DOMAIN t.peers
  <2> DEFINE peer == [t.peers[p] EXCEPT !.firstSeen = Smaller(@, timestamp),
                                        !.lastSeen = Larger(@, timestamp)]
  <2>0. IsPeer(t.peers[p])
    BY <1>1 DEF IsTable
  <2>1. /\ IsPeer(peer) /\ peer.index = t.peers[p].index
        /\ SameName(peer, t.peers[p]) /\ SameLife(peer, t.peers[p])
    BY <2>0 DEF IsPeer, PeerFields, SameName, SameLife
  <2>2. u = [t EXCEPT !.peers[p] = peer]
    BY <1>1, <2>0 DEF Entry, IsTable
  <2> HIDE DEF peer
  <2>3. u = WithPeerRecord(t, p, peer)
    BY <2>2 DEF WithPeerRecord
  <2> HIDE DEF u
  <2>4. \A q \in DOMAIN u.peers :
          /\ q \in DOMAIN t.peers
          /\ u.peers[q].index = t.peers[q].index
          /\ SameName(u.peers[q], t.peers[q]) /\ SameLife(u.peers[q], t.peers[q])
    BY <1>1, <2>1, <2>3, PeerReplaced DEF SameName, SameLife
  <2>5. /\ IsTable(u) /\ u.durations = t.durations /\ u.byIndex = t.byIndex /\ u.agents = t.agents
        /\ DOMAIN u.peers = DOMAIN t.peers
    BY <1>1, <2>1, <2>3, PeerReplaced
  <2>6. HasEntry(t, p, u)
    BY <1>1, <2>4, <2>5 DEF HasEntry
  <2>7. KeepsLives(t, u, {}) /\ KeepsNames(t, u)
    BY <2>4, <2>5 DEF KeepsLives, KeepsNames
  <2> QED BY <2>5, <2>6, <2>7 DEF u
<1>2. CASE p \notin DOMAIN t.peers
  <2> DEFINE fresh == NewPeer(Len(t.byIndex) + 1, timestamp)
             peers == With(t.peers, p, fresh)
  <2>1. IsPeer(fresh) /\ fresh.index = Len(t.byIndex) + 1
    BY DEF IsPeer, PeerFields, NewPeer
  <2>2. SameName(fresh, NewPeer(1, 0)) /\ SameLife(fresh, NewPeer(1, 0))
    BY DEF SameName, SameLife, NewPeer
  <2> HIDE DEF fresh
  <2>3. /\ DOMAIN peers = DOMAIN t.peers \cup {p}
        /\ peers = [q \in DOMAIN peers |-> peers[q]]
        /\ peers[p] = fresh
        /\ \A q \in DOMAIN t.peers : peers[q] = t.peers[q]
    BY <1>2 DEF With
  <2> HIDE DEF peers
  <2>4. u = [t EXCEPT !.peers = peers, !.byIndex = Append(@, p)]
    BY <1>2 DEF Entry, peers, fresh
  <2>5. /\ u.peers = peers /\ u.byIndex = Append(t.byIndex, p)
        /\ u.agents = t.agents /\ u.durations = t.durations
    BY <2>4 DEF IsTable
  <2>6. u = [peers |-> u.peers, byIndex |-> u.byIndex, agents |-> u.agents, durations |-> u.durations]
    BY <2>4 DEF IsTable
  <2> HIDE DEF u
  <2>7. \A q \in DOMAIN u.peers : IsPeer(u.peers[q])
    BY <2>1, <2>3, <2>5 DEF IsTable
  <2>8. IsTable(u)
    BY <2>3, <2>5, <2>6, <2>7 DEF IsTable
  <2>9. HasEntry(t, p, u)
    BY <1>2, <2>1, <2>3, <2>5 DEF HasEntry
  <2>10. KeepsLives(t, u, {})
    BY <1>2, <2>2, <2>3, <2>5 DEF KeepsLives, SameLife
  <2>11. KeepsNames(t, u)
    BY <1>2, <2>2, <2>3, <2>5 DEF KeepsNames, SameName
  <2> QED BY <2>5, <2>8, <2>9, <2>10, <2>11 DEF u
<1> QED BY <1>1, <1>2

-----------------------------------------------------------------------------
(* u is t but for the names in it. *)
OnlyRenames(t, u) ==
  /\ u.byIndex = t.byIndex /\ u.durations = t.durations
  /\ DOMAIN u.peers = DOMAIN t.peers
  /\ \A q \in DOMAIN t.peers : SameIndex(u.peers[q], t.peers[q]) /\ SameLife(u.peers[q], t.peers[q])

(* When record_user_agent takes a name, and what it does then. *)
Takes(t, p, agent, source) ==
  /\ agent # NoAgent
  /\ p \in DOMAIN t.peers
  /\ MayName(t.peers[p], source)
  /\ Contains(Interned(t.agents, agent), agent)

IsNamed(t, p, agent, source, u) ==
  /\ u.agents = Interned(t.agents, agent)
  /\ u.peers[p].agent = CHOOSE i \in DOMAIN u.agents : u.agents[i] = agent
  /\ u.peers[p].source = source
  /\ \A q \in DOMAIN t.peers \ {p} : SameName(u.peers[q], t.peers[q])

LEMMA UserAgentRecorded ==
  ASSUME NEW t, IsTable(t), NEW p, NEW agent, NEW source
  PROVE  LET u == RecordUserAgent(t, p, agent, source)
         IN /\ IsTable(u)
            /\ OnlyRenames(t, u)
            /\ IF Takes(t, p, agent, source) THEN IsNamed(t, p, agent, source, u) ELSE u = t
<1> DEFINE u == RecordUserAgent(t, p, agent, source)
           agents == Interned(t.agents, agent)
           id == CHOOSE i \in DOMAIN agents : agents[i] = agent
<1>1. CASE ~Takes(t, p, agent, source)
  <2>1. u = t
    BY <1>1 DEF RecordUserAgent, Takes
  <2> QED BY <1>1, <2>1 DEF OnlyRenames, SameIndex, SameLife
<1>2. CASE Takes(t, p, agent, source)
  <2> DEFINE peer == [t.peers[p] EXCEPT !.agent = id, !.source = source]
             v == [t EXCEPT !.agents = agents]
  <2>1. p \in DOMAIN t.peers /\ IsPeer(t.peers[p])
    BY <1>2 DEF Takes, IsTable
  <2>2. u = [t EXCEPT !.agents = agents, !.peers[p].agent = id, !.peers[p].source = source]
    BY <1>2, Zenon DEF Takes, RecordUserAgent
  <2> HIDE DEF agents, id
  <2>3. /\ IsPeer(peer) /\ peer.index = t.peers[p].index
        /\ peer.agent = id /\ peer.source = source /\ SameLife(peer, t.peers[p])
    BY <2>1 DEF IsPeer, PeerFields, SameLife
  <2>4. IsTable(v) /\ v.peers = t.peers /\ v.agents = agents
        /\ v.byIndex = t.byIndex /\ v.durations = t.durations
    BY DEF IsTable
  <2>5. u = [v EXCEPT !.peers[p] = peer]
    <3> DEFINE half == [t.peers EXCEPT ![p] = [t.peers[p] EXCEPT !.agent = id]]
               whole == [half EXCEPT ![p] = [half[p] EXCEPT !.source = source]]
    <3>1. u.peers = whole /\ u.agents = agents /\ u.byIndex = t.byIndex /\ u.durations = t.durations
      BY <2>2 DEF IsTable
    <3>2. u = [peers |-> u.peers, byIndex |-> u.byIndex, agents |-> u.agents, durations |-> u.durations]
      BY <2>2 DEF IsTable
    <3>3. whole = [t.peers EXCEPT ![p] = peer]
      BY <2>1
    <3> HIDE DEF u, half, whole, peer, v
    <3> DEFINE w == [v EXCEPT !.peers = whole]
    <3>4. w = [v EXCEPT !.peers[p] = peer]
      BY <2>4, <3>3
    <3>5. /\ w.peers = whole /\ w.agents = agents /\ w.byIndex = t.byIndex /\ w.durations = t.durations
          /\ w = [peers |-> w.peers, byIndex |-> w.byIndex, agents |-> w.agents, durations |-> w.durations]
      BY <2>4 DEF IsTable
    <3> HIDE DEF w
    <3> QED BY <3>1, <3>2, <3>4, <3>5
  <2> HIDE DEF peer, v
  <2>6. u = WithPeerRecord(v, p, peer)
    BY <2>5 DEF WithPeerRecord
  <2> HIDE DEF u
  <2>7. /\ IsTable(u)
        /\ u.byIndex = t.byIndex /\ u.agents = agents /\ u.durations = t.durations
        /\ DOMAIN u.peers = DOMAIN t.peers
        /\ u.peers[p] = peer
        /\ \A q \in DOMAIN t.peers : q # p => u.peers[q] = t.peers[q]
    <3>1. p \in DOMAIN v.peers
      BY <2>1, <2>4
    <3> QED BY <2>3, <2>4, <2>6, <3>1, PeerReplaced
  <2>8. OnlyRenames(t, u)
    BY <2>3, <2>7 DEF OnlyRenames, SameIndex, SameLife
  <2>9. IsNamed(t, p, agent, source, u)
    BY <2>3, <2>7 DEF IsNamed, SameName, agents, id
  <2> QED BY <1>2, <2>7, <2>8, <2>9 DEF u
<1> QED BY <1>1, <1>2

(* The names of a poll, one after another. *)
PolledUpTo(t, infos, n, f) ==
  f = [k \in 0 .. n |->
         IF k = 0 THEN t ELSE RecordUserAgent(f[k - 1], infos[k].peer, infos[k].agent, "getpeerinfo")]

LEMMA PollsExist == ASSUME NEW t, NEW infos, NEW n \in Nat PROVE \E f : PolledUpTo(t, infos, n, f)
<1> DEFINE T == {k \in 0 .. n : \E f : PolledUpTo(t, infos, k, f)}
<1>1. 0 \in T
  <2>1. PolledUpTo(t, infos, 0, [k \in 0 .. 0 |-> t])
    BY DEF PolledUpTo
  <2>2. 0 \in 0 .. n
    OBVIOUS
  <2> QED BY <2>1, <2>2, Zenon
<1>2. \A k \in 0 .. n : k \in T /\ k < n => k + 1 \in T
  <2> SUFFICES ASSUME NEW k \in 0 .. n, k \in T, k < n PROVE k + 1 \in T
    OBVIOUS
  <2>1. PICK f : PolledUpTo(t, infos, k, f)
    OBVIOUS
  <2> DEFINE Step(x, j) == RecordUserAgent(x, infos[j].peer, infos[j].agent, "getpeerinfo")
             g == [j \in 0 .. k + 1 |-> IF j = k + 1 THEN Step(f[k], j) ELSE f[j]]
  <2>2. f = [j \in 0 .. k |-> IF j = 0 THEN t ELSE Step(f[j - 1], j)]
    BY <2>1 DEF PolledUpTo
  <2> HIDE DEF Step
  <2>3. \A j \in 0 .. k + 1 : g[j] = IF j = 0 THEN t ELSE Step(g[j - 1], j)
    <3> TAKE j \in 0 .. k + 1
    <3>1. CASE j = k + 1
      <4>1. j # 0 /\ j - 1 = k /\ k \in 0 .. k + 1 /\ k # k + 1
        BY <3>1
      <4> QED BY <3>1, <4>1
    <3>2. CASE j # k + 1
      <4>1. j \in 0 .. k /\ (j # 0 => j - 1 \in 0 .. k /\ j - 1 \in 0 .. k + 1 /\ j - 1 # k + 1)
        BY <3>2
      <4> QED BY <2>2, <3>2, <4>1
    <3> QED BY <3>1, <3>2
  <2>4. g = [j \in 0 .. k + 1 |-> g[j]]
    OBVIOUS
  <2> HIDE DEF g
  <2>5. g = [j \in 0 .. k + 1 |-> IF j = 0 THEN t ELSE Step(g[j - 1], j)]
    BY <2>3, <2>4
  <2>6. PolledUpTo(t, infos, k + 1, g)
    BY <2>5, Zenon DEF PolledUpTo, Step
  <2>7. k + 1 \in 0 .. n
    OBVIOUS
  <2> QED BY <2>6, <2>7, Zenon
<1>3. n \in T
  <2>1. 0 .. n \subseteq T
    <3> HIDE DEF T
    <3> QED BY <1>1, <1>2, CountingUp
  <2> QED BY <2>1
<1> QED BY <1>3

LEMMA PolledOneByOne ==
  ASSUME NEW t, NEW infos, Len(infos) \in Nat
  PROVE  \E f : PolledUpTo(t, infos, Len(infos), f) /\ NamePolled(t, infos) = f[Len(infos)]
<1> DEFINE n == Len(infos)
           c == CHOOSE f : PolledUpTo(t, infos, n, f)
<1>1. NamePolled(t, infos) = c[n]
  BY DEF NamePolled, PolledUpTo
<1> HIDE DEF n
<1>2. PolledUpTo(t, infos, n, c)
  BY PollsExist, Zenon DEF n
<1> QED BY <1>1, <1>2, Zenon DEF n

LEMMA RenamesTwice ==
  ASSUME NEW t, NEW u, NEW v, OnlyRenames(t, u), OnlyRenames(u, v)
  PROVE  OnlyRenames(t, v)
BY DEF OnlyRenames, SameIndex, SameLife

(* peer_infos *)
LEMMA PollRenames ==
  ASSUME NEW t, IsTable(t), NEW infos, Len(infos) \in Nat
  PROVE  IsTable(NamePolled(t, infos)) /\ OnlyRenames(t, NamePolled(t, infos))
<1> DEFINE n == Len(infos)
<1>1. PICK f : PolledUpTo(t, infos, n, f) /\ NamePolled(t, infos) = f[n]
  BY PolledOneByOne
<1> DEFINE T == {k \in 0 .. n : IsTable(f[k]) /\ OnlyRenames(t, f[k])}
<1> HIDE DEF n
<1>2. n \in Nat
  BY DEF n
<1>3. f[0] = t
  BY <1>1, <1>2 DEF PolledUpTo
<1>4. 0 \in T
  <2>1. OnlyRenames(t, t)
    BY DEF OnlyRenames, SameIndex, SameLife
  <2> QED BY <1>2, <1>3, <2>1
<1>5. \A k \in 0 .. n : k \in T /\ k < n => k + 1 \in T
  <2> SUFFICES ASSUME NEW k \in 0 .. n, k \in T, k < n PROVE k + 1 \in T
    OBVIOUS
  <2>1. k + 1 \in 0 .. n /\ k + 1 # 0 /\ (k + 1) - 1 = k
    BY <1>2
  <2>2. f[k + 1] = RecordUserAgent(f[k], infos[k + 1].peer, infos[k + 1].agent, "getpeerinfo")
    BY <1>1, <2>1 DEF PolledUpTo
  <2>3. IsTable(f[k]) /\ OnlyRenames(t, f[k])
    OBVIOUS
  <2>4. IsTable(f[k + 1]) /\ OnlyRenames(f[k], f[k + 1])
    BY <2>2, <2>3, UserAgentRecorded
  <2> QED BY <2>1, <2>3, <2>4, RenamesTwice
<1>6. 0 .. n \subseteq T
  <2> HIDE DEF T
  <2> QED BY <1>2, <1>4, <1>5, CountingUp
<1> QED BY <1>1, <1>2, <1>6

-----------------------------------------------------------------------------
(* record_message: which event introduces its peer, and what it leaves alone. *)
Introduces(e) == e.inbound /\ e.message.command = "version"

Entered(t, e) == Entry(t, e.peer, e.timestamp)

MessageNames(t, e, u) ==
  IF Introduces(e) /\ Takes(Entered(t, e), e.peer, e.agent, "version")
  THEN IsNamed(Entered(t, e), e.peer, e.agent, "version", u)
  ELSE KeepsNames(t, u)

LEMMA PeerCounted ==
  ASSUME NEW peer, IsPeer(peer), NEW e, NEW kind
  PROVE  LET new == WithMessage(peer, e, kind)
         IN IsPeer(new) /\ SameIndex(new, peer) /\ SameName(new, peer) /\ SameLife(new, peer)
<1> DEFINE way == CountedWay(peer.messages, e)
           tallies == With(peer.commands, kind, CountedWay(CommandTally(peer, kind), e))
<1>1. WithMessage(peer, e, kind) =
        [peer EXCEPT !.addr = e.addr, !.connType = e.connType, !.messages = way, !.commands = tallies]
  BY DEF WithMessage, IsPeer, PeerFields
<1> HIDE DEF way, tallies
<1> QED BY <1>1 DEF IsPeer, PeerFields, SameIndex, SameName, SameLife

LEMMA MessageRecorded ==
  ASSUME NEW t, IsTable(t), NEW e, NEW kind
  PROVE  LET u == RecordMessage(t, e, kind)
         IN /\ IsTable(u) /\ u.durations = t.durations
            /\ HasEntry(t, e.peer, u)
            /\ KeepsLives(t, u, {})
            /\ MessageNames(t, e, u)
<1> DEFINE p == e.peer
           v == Named(t, e)
           w == Entry(v, p, e.timestamp)
           peer == WithMessage(w.peers[p], e, kind)
           u == RecordMessage(t, e, kind)
<1>1. /\ IsTable(v) /\ v.durations = t.durations
      /\ HasEntry(t, p, v) \/ v = t
      /\ KeepsLives(t, v, {})
      /\ MessageNames(t, e, v)
  <2>1. CASE ~Introduces(e)
    <3>1. v = t
      BY <2>1, Zenon DEF Named, Introduces
    <3> QED BY <2>1, <3>1 DEF KeepsLives, MessageNames, KeepsNames, SameLife, SameName
  <2>2. CASE Introduces(e)
    <3> DEFINE x == Entered(t, e)
    <3>1. v = RecordUserAgent(x, p, e.agent, "version")
      BY <2>2, Zenon DEF Named, Introduces, Entered
    <3>2. /\ IsTable(x) /\ x.durations = t.durations
          /\ HasEntry(t, p, x) /\ KeepsLives(t, x, {}) /\ KeepsNames(t, x)
      BY EntryMade DEF Entered
    <3> HIDE DEF v, x
    <3>3. /\ IsTable(v) /\ OnlyRenames(x, v)
          /\ IF Takes(x, p, e.agent, "version") THEN IsNamed(x, p, e.agent, "version", v) ELSE v = x
      BY <3>1, <3>2, UserAgentRecorded
    <3>4. HasEntry(t, p, v)
      BY <3>2, <3>3 DEF HasEntry, OnlyRenames, SameIndex
    <3>5. KeepsLives(t, v, {})
      BY <3>2, <3>3 DEF KeepsLives, OnlyRenames, SameLife
    <3>6. MessageNames(t, e, v)
      BY <2>2, <3>2, <3>3 DEF MessageNames, x
    <3>7. v.durations = t.durations
      BY <3>2, <3>3 DEF OnlyRenames
    <3> QED BY <3>3, <3>4, <3>5, <3>6, <3>7
  <2> QED BY <2>1, <2>2
<1> HIDE DEF v
<1>2. /\ IsTable(w) /\ w.durations = v.durations
      /\ HasEntry(v, p, w) /\ KeepsLives(v, w, {}) /\ KeepsNames(v, w)
  BY <1>1, EntryMade
<1>3. p \in DOMAIN w.peers /\ IsPeer(w.peers[p])
  BY <1>2 DEF HasEntry, IsTable
<1>4. u = WithPeerRecord(w, p, peer)
  BY Zenon DEF RecordMessage, WithPeerRecord, v
<1> HIDE DEF w, u
<1>5. IsPeer(peer) /\ SameIndex(peer, w.peers[p]) /\ SameName(peer, w.peers[p]) /\ SameLife(peer, w.peers[p])
  BY <1>3, PeerCounted
<1> HIDE DEF peer
<1>6. /\ IsTable(u)
      /\ u.byIndex = w.byIndex /\ u.agents = w.agents /\ u.durations = w.durations
      /\ DOMAIN u.peers = DOMAIN w.peers
      /\ u.peers[p] = peer
      /\ \A q \in DOMAIN w.peers : q # p => u.peers[q] = w.peers[q]
  BY <1>2, <1>3, <1>4, <1>5, PeerReplaced
<1>7. \A q \in DOMAIN w.peers :
        SameIndex(u.peers[q], w.peers[q]) /\ SameName(u.peers[q], w.peers[q]) /\ SameLife(u.peers[q], w.peers[q])
  BY <1>5, <1>6 DEF SameIndex, SameName, SameLife
<1>8. HasEntry(v, p, u)
  BY <1>2, <1>6, <1>7 DEF HasEntry, SameIndex
<1>9. HasEntry(t, p, u)
  BY <1>1, <1>8 DEF HasEntry
<1>10. KeepsLives(t, u, {})
  <2>1. \A q \in DOMAIN u.peers : q \in DOMAIN w.peers /\ SameLife(u.peers[q], w.peers[q])
    BY <1>6, <1>7
  <2>2. \A q \in DOMAIN w.peers :
          IF q \in DOMAIN v.peers THEN SameLife(w.peers[q], v.peers[q]) ELSE SameLife(w.peers[q], NewPeer(1, 0))
    BY <1>2 DEF KeepsLives
  <2>3. \A q \in DOMAIN v.peers :
          IF q \in DOMAIN t.peers THEN SameLife(v.peers[q], t.peers[q]) ELSE SameLife(v.peers[q], NewPeer(1, 0))
    BY <1>1 DEF KeepsLives
  <2>4. \A q \in DOMAIN t.peers : q \in DOMAIN v.peers
    BY <1>1 DEF HasEntry
  <2> QED BY <2>1, <2>2, <2>3, <2>4 DEF KeepsLives, SameLife
<1>11. KeepsNames(v, u)
  BY <1>2, <1>6, <1>7 DEF KeepsNames, SameName
<1>12. MessageNames(t, e, u)
  <2> DEFINE x == Entered(t, e)
  <2>1. CASE Introduces(e) /\ Takes(x, p, e.agent, "version")
    <3>1. IsNamed(x, p, e.agent, "version", v)
      BY <1>1, <2>1 DEF MessageNames
    <3>2. HasEntry(t, p, x)
      BY EntryMade DEF Entered
    <3> HIDE DEF x
    <3>3. HasEntry(t, p, v)
      <4>1. x = Entered(t, e)
        BY DEF x
      <4>2. v = RecordUserAgent(x, p, e.agent, "version")
        BY <2>1, <4>1, Zenon DEF v, Named, Introduces, Entered
      <4>3. IsTable(x)
        BY <4>1, EntryMade DEF Entered
      <4>4. OnlyRenames(x, v)
        BY <4>2, <4>3, UserAgentRecorded
      <4> QED BY <3>2, <4>4 DEF HasEntry, OnlyRenames, SameIndex
    <3>4. DOMAIN x.peers = DOMAIN v.peers /\ p \in DOMAIN v.peers
      BY <3>2, <3>3 DEF HasEntry
    <3>5. \A q \in DOMAIN v.peers : q \in DOMAIN u.peers /\ SameName(u.peers[q], v.peers[q])
      BY <1>8, <1>11 DEF KeepsNames, HasEntry
    <3>6. u.agents = v.agents
      BY <1>11 DEF KeepsNames
    <3>7. IsNamed(x, p, e.agent, "version", u)
      BY <3>1, <3>4, <3>5, <3>6 DEF IsNamed, SameName
    <3> QED BY <2>1, <3>7 DEF MessageNames, x
  <2>2. CASE ~(Introduces(e) /\ Takes(x, p, e.agent, "version"))
    <3>1. KeepsNames(t, v)
      BY <1>1, <2>2 DEF MessageNames
    <3>2. \A q \in DOMAIN t.peers : q \in DOMAIN v.peers
      BY <1>1 DEF HasEntry
    <3>3. KeepsNames(t, u)
      <4>1. u.agents = t.agents
        BY <1>11, <3>1 DEF KeepsNames
      <4>2. \A q \in DOMAIN u.peers :
              IF q \in DOMAIN v.peers THEN SameName(u.peers[q], v.peers[q])
              ELSE SameName(u.peers[q], NewPeer(1, 0))
        BY <1>11 DEF KeepsNames
      <4>3. \A q \in DOMAIN v.peers :
              IF q \in DOMAIN t.peers THEN SameName(v.peers[q], t.peers[q])
              ELSE SameName(v.peers[q], NewPeer(1, 0))
        BY <3>1 DEF KeepsNames
      <4> QED BY <3>2, <4>1, <4>2, <4>3 DEF KeepsNames, SameName
    <3> QED BY <2>2, <3>3 DEF MessageNames
  <2> QED BY <2>1, <2>2
<1>13. u.durations = t.durations
  BY <1>1, <1>2, <1>6
<1> QED BY <1>6, <1>9, <1>10, <1>12, <1>13 DEF u

-----------------------------------------------------------------------------
(* record_connection: what was known of a peer, and the life it has then. *)
RecordBefore(t, p) == IF p \in DOMAIN t.peers THEN t.peers[p] ELSE NewPeer(1, 0)

LivesOn(old, e, new) ==
  /\ new.lifecycle = LastFew(Append(old.lifecycle, [timestamp |-> e.timestamp, kind |-> e.kind]))
  /\ new.lifecycleTotal = old.lifecycleTotal + 1
  /\ new.lifecycleCounts = [old.lifecycleCounts EXCEPT ![e.kind] = @ + 1]

DurationsAfter(durations, e) ==
  IF e.kind \notin Endings THEN durations
  ELSE [durations EXCEPT ![e.kind] =
          [durations[e.kind] EXCEPT ![Slot(e.connType)] =
             Add(durations[e.kind][Slot(e.connType)], Lifetime(e))]]

DurationsShape(durations) ==
  /\ DOMAIN durations = Endings
  /\ \A end \in Endings : DOMAIN durations[end] = Slots

(* The slot of a connection type is one there is. *)
LEMMA SlotInRange == ASSUME NEW connType \in Int PROVE Slot(connType) \in Slots
<1>1. ConnTypes \in Nat \ {0}
  BY PeerTableAssumption
<1> QED BY <1>1 DEF Slot, Slots, Larger, Smaller

LEMMA IdentityKept ==
  ASSUME NEW peer, IsPeer(peer), NEW e
  PROVE  LET new == UpdateIdentity(peer, e)
         IN IsPeer(new) /\ SameIndex(new, peer) /\ SameName(new, peer) /\ SameLife(new, peer)
BY DEF UpdateIdentity, IsPeer, PeerFields, SameIndex, SameName, SameLife

LEMMA LifeRecorded ==
  ASSUME NEW peer, IsPeer(peer), NEW e
  PROVE  LET new == Lived(peer, e)
         IN IsPeer(new) /\ SameIndex(new, peer) /\ SameName(new, peer) /\ LivesOn(peer, e, new)
<1> DEFINE few == LastFew(Append(peer.lifecycle, [timestamp |-> e.timestamp, kind |-> e.kind]))
           tallies == [peer.lifecycleCounts EXCEPT ![e.kind] = @ + 1]
           new == [peer EXCEPT !.lifecycle = few, !.lifecycleTotal = @ + 1, !.lifecycleCounts = tallies]
<1>1. Lived(peer, e) = new
  BY DEF Lived, IsPeer, PeerFields
<1>2. LivesOn(peer, e, Lived(peer, e))
  <2>1. /\ new.lifecycle = few /\ new.lifecycleTotal = peer.lifecycleTotal + 1
        /\ new.lifecycleCounts = tallies
    <3> HIDE DEF few, tallies
    <3> QED BY DEF IsPeer, PeerFields
  <2> HIDE DEF new
  <2> QED BY <1>1, <2>1, Zenon DEF LivesOn
<1> HIDE DEF few, tallies
<1>3. IsPeer(new) /\ SameIndex(new, peer) /\ SameName(new, peer)
  BY DEF IsPeer, PeerFields, SameIndex, SameName
<1> QED BY <1>1, <1>2, <1>3

LEMMA EndTimed ==
  ASSUME NEW t, IsTable(t), NEW e
  PROVE  LET u == Timed(t, e)
         IN /\ IsTable(u) /\ u.durations = DurationsAfter(t.durations, e)
            /\ u.peers = t.peers /\ u.byIndex = t.byIndex /\ u.agents = t.agents
<1>1. CASE e.kind \notin Endings
  BY <1>1 DEF Timed, DurationsAfter
<1>2. CASE e.kind \in Endings
  <2> DEFINE slot == Slot(e.connType)
             durations == DurationsAfter(t.durations, e)
             u == [t EXCEPT !.durations = durations]
  <2>1. Timed(t, e) = u
    BY <1>2, Zenon DEF Timed, DurationsAfter
  <2> HIDE DEF durations
  <2>2. /\ u.peers = t.peers /\ u.byIndex = t.byIndex /\ u.agents = t.agents /\ u.durations = durations
        /\ u = [peers |-> u.peers, byIndex |-> u.byIndex, agents |-> u.agents, durations |-> u.durations]
    BY DEF IsTable
  <2> HIDE DEF u
  <2>3. IsTable(u)
    BY <2>2 DEF IsTable
  <2> QED BY <2>1, <2>2, <2>3 DEF durations
<1> QED BY <1>1, <1>2

LEMMA ConnectionRecorded ==
  ASSUME NEW t, IsTable(t), NEW e, e.kind # "none"
  PROVE  LET u == RecordConnection(t, e)
         IN /\ IsTable(u) /\ u.durations = DurationsAfter(t.durations, e)
            /\ HasEntry(t, e.peer, u)
            /\ KeepsLives(t, u, {e.peer})
            /\ LivesOn(RecordBefore(t, e.peer), e, u.peers[e.peer])
            /\ KeepsNames(t, u)
<1> DEFINE p == e.peer
           w == Entry(t, p, e.timestamp)
           same == UpdateIdentity(w.peers[p], e)
           peer == Lived(same, e)
           x == WithPeerRecord(w, p, peer)
           u == RecordConnection(t, e)
<1>1. /\ IsTable(w) /\ w.durations = t.durations
      /\ HasEntry(t, p, w) /\ KeepsLives(t, w, {}) /\ KeepsNames(t, w)
  BY EntryMade
<1>2. p \in DOMAIN w.peers /\ IsPeer(w.peers[p])
  BY <1>1 DEF HasEntry, IsTable
<1>3. u = Timed(x, e)
  BY Zenon DEF RecordConnection, WithPeerRecord
<1> HIDE DEF w, u
<1>4. IsPeer(same) /\ SameIndex(same, w.peers[p]) /\ SameName(same, w.peers[p]) /\ SameLife(same, w.peers[p])
  BY <1>2, IdentityKept
<1> HIDE DEF same
<1>5. IsPeer(peer) /\ SameIndex(peer, same) /\ SameName(peer, same) /\ LivesOn(same, e, peer)
  BY <1>4, LifeRecorded
<1> HIDE DEF peer
<1>6. /\ IsTable(x)
      /\ x.byIndex = w.byIndex /\ x.agents = w.agents /\ x.durations = w.durations
      /\ DOMAIN x.peers = DOMAIN w.peers
      /\ x.peers[p] = peer
      /\ \A q \in DOMAIN w.peers : q # p => x.peers[q] = w.peers[q]
  BY <1>1, <1>2, <1>5, PeerReplaced
<1> HIDE DEF x
<1>7. /\ IsTable(u) /\ u.durations = DurationsAfter(t.durations, e)
      /\ u.peers = x.peers /\ u.byIndex = w.byIndex /\ u.agents = w.agents
  BY <1>1, <1>3, <1>6, EndTimed
<1>8. HasEntry(t, p, u)
  BY <1>1, <1>4, <1>5, <1>6, <1>7 DEF HasEntry, SameIndex
<1>9. KeepsLives(t, u, {p})
  BY <1>1, <1>6, <1>7 DEF KeepsLives
<1>10. KeepsNames(t, u)
  BY <1>1, <1>4, <1>5, <1>6, <1>7 DEF KeepsNames, SameName
<1>11. LivesOn(RecordBefore(t, p), e, u.peers[p])
  <2>1. SameLife(w.peers[p], RecordBefore(t, p))
    BY <1>1, <1>2 DEF KeepsLives, RecordBefore, SameLife
  <2>2. SameLife(same, RecordBefore(t, p))
    BY <1>4, <2>1 DEF SameLife
  <2>3. u.peers[p] = peer
    BY <1>6, <1>7
  <2> QED BY <1>5, <2>2, <2>3 DEF LivesOn, SameLife
<1> QED BY <1>7, <1>8, <1>9, <1>10, <1>11 DEF u

-----------------------------------------------------------------------------
(***************************************************************************)
(* The invariant: the log, the kinds and their counts, ...                 *)
(***************************************************************************)
AllEvents == UNION Archives
AllKinds == {KindOf(e) : e \in AllEvents}
AllPeers == {e.peer : e \in AllEvents}

LogInv == archive \in Archives /\ log \in Seq(AllEvents)

OfKind(events, k) == {i \in DOMAIN events : KindOf(events[i]) = k}

KindsInv ==
  /\ kinds \in Seq(AllKinds) /\ counts \in Seq(Nat) /\ Len(counts) = Len(kinds)
  /\ \A i, j \in DOMAIN kinds : kinds[i] = kinds[j] => i = j
  /\ \A i \in DOMAIN log : Contains(kinds, KindOf(log[i]))
  /\ \A k \in DOMAIN kinds : counts[k] = Cardinality(OfKind(log, kinds[k]))

(***************************************************************************)
(* ... the peers and their indices: those of the log, ...                  *)
(***************************************************************************)
IndexFits(t) ==
  \A p \in DOMAIN t.peers :
    t.peers[p].index \in 1 .. Len(t.byIndex) /\ t.byIndex[t.peers[p].index] = p

PeersInv ==
  /\ IsTable(table) /\ table.byIndex \in Seq(AllPeers)
  /\ IndexFits(table)
  /\ \A p \in DOMAIN table.peers : Of(p) # {}
  /\ \A i \in DOMAIN log : HasPeer(log[i]) => log[i].peer \in DOMAIN table.peers

(***************************************************************************)
(* ... and the rows: one for each event until retention stops.             *)
(***************************************************************************)
Directions == {"none", "in", "out"}
Rows == [timestamp : Nat, kind : Nat, peer : Nat \cup {NoPeer}, direction : Directions, size : Nat]

RowMeans(row, e, names, byIndex) ==
  /\ row.timestamp = e.timestamp
  /\ row.kind \in DOMAIN names /\ names[row.kind] = KindOf(e)
  /\ row.direction = DirectionOf(e)
  /\ IF HasPeer(e)
     THEN row.peer \in DOMAIN byIndex /\ byIndex[row.peer] = e.peer
     ELSE row.peer = NoPeer

RowsInv ==
  /\ store = [rows |-> store.rows, full |-> store.full] /\ store.full \in BOOLEAN
  /\ store.rows \in Seq(Rows) /\ Len(store.rows) <= Len(log)
  /\ ~store.full => Len(store.rows) = Len(log)
  /\ \A i \in DOMAIN store.rows : RowMeans(store.rows[i], log[i], kinds, table.byIndex)

TableInv == LogInv /\ KindsInv /\ PeersInv /\ RowsInv

-----------------------------------------------------------------------------
(* One more event in the log. *)
LEMMA LogGrows ==
  ASSUME LogInv, NEW e \in archive, IngestEvent(e)
  PROVE  /\ LogInv' /\ e \in AllEvents
         /\ Len(log) \in Nat /\ Len(log') = Len(log) + 1
         /\ DOMAIN log = 1 .. Len(log) /\ DOMAIN log' = 1 .. Len(log) + 1
         /\ log'[Len(log) + 1] = e
         /\ \A i \in DOMAIN log : i \in DOMAIN log' /\ log'[i] = log[i]
<1>1. log \in Seq(AllEvents) /\ log' = Append(log, e) /\ archive' = archive /\ archive \in Archives
  BY DEF LogInv, IngestEvent
<1>2. e \in AllEvents
  BY <1>1 DEF AllEvents
<1>3. log' \in Seq(AllEvents) /\ Len(log) \in Nat /\ Len(log') = Len(log) + 1
  BY <1>1, <1>2, AppendProperties, LenProperties
<1>4. DOMAIN log = 1 .. Len(log) /\ DOMAIN log' = 1 .. Len(log) + 1
  BY <1>1, <1>3, LenProperties
<1>5. log'[Len(log) + 1] = e /\ \A i \in 1 .. Len(log) : log'[i] = log[i]
  BY <1>1, <1>2, AppendProperties
<1> QED BY <1>1, <1>2, <1>3, <1>4, <1>5 DEF LogInv

(* What an event is known to be. *)
LEMMA EventIs ==
  ASSUME NEW e \in AllEvents
  PROVE  /\ e.class \in {"message", "connection", "peer_infos", "other"}
         /\ e.timestamp \in Nat
         /\ e.class = "message" => e.inbound \in BOOLEAN /\ e.size \in Nat
         /\ e.class = "connection" =>
              e.kind \in LifecycleKinds \cup {"none"} /\ e.connType \in Int /\ e.established \in Nat
         /\ e.class = "peer_infos" => e.infos \in Seq(Range(e.infos)) /\ Len(e.infos) \in Nat
<1>1. PICK events \in Archives : e \in events
  BY DEF AllEvents
<1>2. e.class = "peer_infos" => e.infos \in Seq(Range(e.infos))
  BY <1>1, EventsAssumption
<1>3. e.class = "peer_infos" => Len(e.infos) \in Nat
  BY <1>2, LenProperties
<1> QED BY <1>1, <1>2, <1>3, EventsAssumption

(* Positions that hold the new event, or do not. *)
LEMMA OneMoreCounted ==
  ASSUME NEW n \in Nat, NEW S \in SUBSET (1 .. n)
  PROVE  /\ IsFiniteSet(S) /\ Cardinality(S) \in Nat
         /\ IsFiniteSet(S \cup {n + 1})
         /\ Cardinality(S \cup {n + 1}) = Cardinality(S) + 1
<1>1. IsFiniteSet(1 .. n)
  BY FS_Interval
<1>2. IsFiniteSet(S)
  BY <1>1, FS_Subset
<1>3. n + 1 \notin S
  OBVIOUS
<1> QED BY <1>2, <1>3, FS_AddElement, FS_CardinalityType

(* intern and get. *)
LEMMA InternedKind ==
  ASSUME KindsInv, NEW kind \in AllKinds
  PROVE  LET names == Intern(kinds, kind)
             id == KindId(names, kind)
         IN /\ names \in Seq(AllKinds) /\ Len(kinds) \in Nat /\ Len(kinds) <= Len(names)
            /\ DOMAIN kinds = 1 .. Len(kinds) /\ DOMAIN names = 1 .. Len(names)
            /\ \A i \in DOMAIN kinds : names[i] = kinds[i]
            /\ \A i, j \in DOMAIN names : names[i] = names[j] => i = j
            /\ id \in DOMAIN names /\ names[id] = kind
            /\ IF Contains(kinds, kind) THEN names = kinds
               ELSE Len(names) = Len(kinds) + 1 /\ id = Len(kinds) + 1
<1> DEFINE names == Intern(kinds, kind)
           id == KindId(names, kind)
<1>1. kinds \in Seq(AllKinds) /\ Len(kinds) \in Nat /\ DOMAIN kinds = 1 .. Len(kinds)
      /\ \A i, j \in DOMAIN kinds : kinds[i] = kinds[j] => i = j
  BY LenProperties DEF KindsInv
<1>2. CASE Contains(kinds, kind)
  <2>1. names = kinds
    BY <1>2 DEF Intern
  <2> HIDE DEF names
  <2>2. \E i \in DOMAIN names : names[i] = kind
    BY <1>1, <1>2, <2>1 DEF Contains
  <2>3. id \in DOMAIN names /\ names[id] = kind
    BY <2>2 DEF KindId
  <2> QED BY <1>1, <1>2, <2>1, <2>3 DEF names
<1>3. CASE ~Contains(kinds, kind)
  <2>1. names = Append(kinds, kind)
    BY <1>3 DEF Intern
  <2> HIDE DEF names
  <2>2. /\ names \in Seq(AllKinds) /\ Len(names) = Len(kinds) + 1
        /\ names[Len(kinds) + 1] = kind /\ \A i \in 1 .. Len(kinds) : names[i] = kinds[i]
    BY <1>1, <2>1, AppendProperties
  <2>3. DOMAIN names = 1 .. Len(kinds) + 1
    BY <2>2, LenProperties
  <2>4. \A i \in DOMAIN kinds : names[i] # kind
    BY <1>1, <1>3, <2>2 DEF Contains
  <2>5. \A i \in DOMAIN names : names[i] = kind <=> i = Len(kinds) + 1
    BY <1>1, <2>2, <2>3, <2>4
  <2>6. id \in DOMAIN names /\ names[id] = kind
    <3>1. Len(kinds) + 1 \in DOMAIN names /\ names[Len(kinds) + 1] = kind
      BY <1>1, <2>2, <2>3
    <3> QED BY <3>1 DEF KindId
  <2>7. id = Len(kinds) + 1
    BY <2>5, <2>6
  <2>8. \A i, j \in DOMAIN names : names[i] = names[j] => i = j
    BY <1>1, <2>2, <2>3, <2>5
  <2> HIDE DEF id
  <2>9. Len(kinds) <= Len(names) /\ DOMAIN names = 1 .. Len(names)
    BY <1>1, <2>2, <2>3
  <2> QED BY <1>1, <1>3, <2>2, <2>6, <2>7, <2>8, <2>9 DEF names, id
<1> QED BY <1>2, <1>3

LEMMA KindsStep ==
  ASSUME LogInv, KindsInv, NEW e \in archive, IngestEvent(e)
  PROVE  KindsInv'
<1> DEFINE k == KindOf(e)
           id == KindId(kinds', k)
<1>1. /\ LogInv' /\ e \in AllEvents
      /\ Len(log) \in Nat /\ Len(log') = Len(log) + 1
      /\ DOMAIN log = 1 .. Len(log) /\ DOMAIN log' = 1 .. Len(log) + 1
      /\ log'[Len(log) + 1] = e
      /\ \A i \in DOMAIN log : i \in DOMAIN log' /\ log'[i] = log[i]
  BY LogGrows
<1>2. kinds' = Intern(kinds, k) /\ counts' = CountKind(counts, id)
  BY DEF IngestEvent
<1>3. k \in AllKinds
  BY <1>1 DEF AllKinds
<1>4. /\ kinds' \in Seq(AllKinds) /\ Len(kinds) \in Nat /\ Len(kinds) <= Len(kinds')
      /\ DOMAIN kinds = 1 .. Len(kinds) /\ DOMAIN kinds' = 1 .. Len(kinds')
      /\ \A i \in DOMAIN kinds : kinds'[i] = kinds[i]
      /\ \A i, j \in DOMAIN kinds' : kinds'[i] = kinds'[j] => i = j
      /\ id \in DOMAIN kinds' /\ kinds'[id] = k
      /\ IF Contains(kinds, k) THEN kinds' = kinds
         ELSE Len(kinds') = Len(kinds) + 1 /\ id = Len(kinds) + 1
  BY <1>2, <1>3, InternedKind
<1> HIDE DEF k, id
<1>5. counts \in Seq(Nat) /\ Len(counts) = Len(kinds) /\ DOMAIN counts = 1 .. Len(kinds)
      /\ \A i \in DOMAIN counts : counts[i] \in Nat
  BY LenProperties, ElementOfSeq DEF KindsInv
<1>6. Len(kinds') \in Nat /\ id \in 1 .. Len(kinds')
  BY <1>4, LenProperties
<1>20. /\ Len(kinds) \in Nat /\ Len(kinds) <= Len(kinds')
       /\ \A i \in 1 .. Len(kinds) : i \in 1 .. Len(kinds') /\ kinds'[i] = kinds[i]
  <2>1. Len(kinds) \in Nat /\ Len(kinds) <= Len(kinds')
    BY <1>4
  <2>2. \A i \in 1 .. Len(kinds) : i \in DOMAIN kinds /\ kinds'[i] = kinds[i]
    BY <1>4
  <2> QED BY <1>6, <2>1, <2>2
<1>7. Larger(Len(counts), id) = Len(kinds')
  <2>1. Len(kinds') = Len(kinds) \/ id = Len(kinds')
    BY <1>4
  <2> QED BY <1>5, <1>6, <1>20, <2>1 DEF Larger
<1>8. counts' = [i \in 1 .. Len(kinds') |->
                   (IF i \in 1 .. Len(kinds) THEN counts[i] ELSE 0) + (IF i = id THEN 1 ELSE 0)]
  BY <1>2, <1>5, <1>7 DEF CountKind
<1>9. counts' \in [1 .. Len(kinds') -> Nat]
  BY <1>5, <1>8
<1>10. counts' \in Seq(Nat) /\ Len(counts') = Len(kinds')
  BY <1>6, <1>9, SeqDef, LenProperties
<1>11. \A i \in DOMAIN log' : Contains(kinds', KindOf(log'[i]))
  <2> SUFFICES ASSUME NEW i \in DOMAIN log' PROVE Contains(kinds', KindOf(log'[i]))
    OBVIOUS
  <2>1. CASE i = Len(log) + 1
    BY <1>1, <1>4, <2>1 DEF Contains, k
  <2>2. CASE i # Len(log) + 1
    <3>1. i \in DOMAIN log
      BY <1>1, <2>2
    <3>2. PICK j \in 1 .. Len(kinds) : kinds[j] = KindOf(log[i])
      BY <3>1 DEF KindsInv, Contains
    <3>3. j \in 1 .. Len(kinds') /\ kinds'[j] = KindOf(log[i])
      BY <1>20, <3>2
    <3> QED BY <1>1, <3>1, <3>3 DEF Contains
  <2> QED BY <2>1, <2>2
<1>12. \A j \in DOMAIN kinds' : counts'[j] = Cardinality(OfKind(log', kinds'[j]))
  <2> SUFFICES ASSUME NEW j \in DOMAIN kinds' PROVE counts'[j] = Cardinality(OfKind(log', kinds'[j]))
    OBVIOUS
  <2> DEFINE S == OfKind(log, kinds'[j])
  <2>1. S \in SUBSET (1 .. Len(log))
    BY <1>1 DEF OfKind
  <2>2. Cardinality(S) \in Nat /\ Cardinality(S \cup {Len(log) + 1}) = Cardinality(S) + 1
    BY <1>1, <2>1, OneMoreCounted
  <2>3. j = id <=> kinds'[j] = k
    BY <1>4
  <2>4. OfKind(log', kinds'[j]) = IF j = id THEN S \cup {Len(log) + 1} ELSE S
    BY <1>1, <2>3 DEF OfKind, k
  <2>5. (IF j \in 1 .. Len(kinds) THEN counts[j] ELSE 0) = Cardinality(S)
    <3>1. CASE j \in 1 .. Len(kinds)
      BY <1>4, <3>1 DEF KindsInv
    <3>2. CASE j \notin 1 .. Len(kinds)
      <4>1. S = {}
        <5> SUFFICES ASSUME NEW i \in DOMAIN log, KindOf(log[i]) = kinds'[j] PROVE FALSE
          BY DEF OfKind
        <5>1. PICK l \in 1 .. Len(kinds) : kinds[l] = KindOf(log[i])
          BY DEF KindsInv, Contains
        <5>2. l \in DOMAIN kinds' /\ kinds'[l] = kinds'[j]
          BY <1>4, <1>20, <5>1
        <5>3. l = j
          BY <1>4, <5>2
        <5> QED BY <3>2, <5>1, <5>3
      <4> QED BY <3>2, <4>1, FS_EmptySet
    <3> QED BY <3>1, <3>2
  <2> HIDE DEF S
  <2>6. counts'[j] = Cardinality(S) + (IF j = id THEN 1 ELSE 0)
    BY <1>4, <1>8, <2>5
  <2> QED BY <2>2, <2>4, <2>6
<1> QED BY <1>4, <1>10, <1>11, <1>12 DEF KindsInv

-----------------------------------------------------------------------------
(* What an event does to the entries of the table. *)
LEMMA TableEntered ==
  ASSUME NEW t, IsTable(t), NEW e \in AllEvents, NEW kind
  PROVE  LET u == TableAfter(t, e, kind)
         IN /\ IsTable(u)
            /\ IF HasPeer(e) THEN HasEntry(t, e.peer, u)
               ELSE /\ u.byIndex = t.byIndex /\ DOMAIN u.peers = DOMAIN t.peers
                    /\ \A q \in DOMAIN t.peers : u.peers[q].index = t.peers[q].index
<1> DEFINE u == TableAfter(t, e, kind)
<1>1. CASE e.class = "message"
  <2>1. u = RecordMessage(t, e, kind) /\ HasPeer(e)
    BY <1>1 DEF TableAfter, HasPeer
  <2> QED BY <2>1, MessageRecorded
<1>2. CASE e.class = "connection" /\ e.kind # "none"
  <2>1. u = RecordConnection(t, e) /\ HasPeer(e)
    BY <1>2 DEF TableAfter, HasPeer
  <2> QED BY <1>2, <2>1, ConnectionRecorded
<1>3. CASE e.class = "connection" /\ e.kind = "none"
  <2>1. u = t /\ ~HasPeer(e)
    BY <1>3 DEF TableAfter, HasPeer, RecordConnection
  <2> QED BY <2>1
<1>4. CASE e.class = "peer_infos"
  <2>1. u = NamePolled(t, e.infos) /\ ~HasPeer(e)
    BY <1>4 DEF TableAfter, HasPeer
  <2>2. Len(e.infos) \in Nat
    BY <1>4, EventIs
  <2>3. IsTable(u) /\ OnlyRenames(t, u)
    BY <2>1, <2>2, PollRenames
  <2> HIDE DEF u
  <2> QED BY <2>1, <2>3 DEF OnlyRenames, SameIndex, u
<1>5. CASE e.class = "other"
  <2>1. u = t /\ ~HasPeer(e)
    BY <1>5 DEF TableAfter, HasPeer
  <2> QED BY <2>1
<1> QED BY <1>1, <1>2, <1>3, <1>4, <1>5, EventIs

(* An entry made leaves every index with its peer. *)
LEMMA EntryFits ==
  ASSUME NEW t, t.byIndex \in Seq(AllPeers), IndexFits(t),
         NEW p \in AllPeers, NEW u, HasEntry(t, p, u)
  PROVE  /\ u.byIndex \in Seq(AllPeers) /\ IndexFits(u)
         /\ \A i \in DOMAIN t.byIndex : i \in DOMAIN u.byIndex /\ u.byIndex[i] = t.byIndex[i]
         /\ u.peers[p].index \in DOMAIN u.byIndex /\ u.byIndex[u.peers[p].index] = p
<1> DEFINE n == Len(t.byIndex)
<1>1. n \in Nat /\ DOMAIN t.byIndex = 1 .. n
  BY LenProperties
<1>2. /\ DOMAIN u.peers = DOMAIN t.peers \cup {p}
      /\ \A q \in DOMAIN t.peers : u.peers[q].index = t.peers[q].index
  BY DEF HasEntry
<1>3. CASE p \in DOMAIN t.peers
  <2>1. u.byIndex = t.byIndex
    BY <1>3 DEF HasEntry
  <2>2. IndexFits(u)
    BY <1>2, <1>3, <2>1 DEF IndexFits
  <2>3. p \in DOMAIN u.peers
    BY <1>2
  <2> QED BY <1>1, <2>1, <2>2, <2>3 DEF IndexFits
<1>4. CASE p \notin DOMAIN t.peers
  <2>1. u.byIndex = Append(t.byIndex, p) /\ u.peers[p].index = n + 1
    BY <1>4 DEF HasEntry
  <2>2. /\ u.byIndex \in Seq(AllPeers) /\ Len(u.byIndex) = n + 1 /\ DOMAIN u.byIndex = 1 .. n + 1
        /\ u.byIndex[n + 1] = p /\ \A i \in 1 .. n : u.byIndex[i] = t.byIndex[i]
    BY <1>1, <2>1, AppendProperties, LenProperties
  <2>3. \A q \in DOMAIN t.peers : t.peers[q].index \in 1 .. n /\ t.byIndex[t.peers[q].index] = q
    BY DEF IndexFits
  <2> HIDE DEF n
  <2>4. IndexFits(u)
    <3> SUFFICES ASSUME NEW q \in DOMAIN u.peers
                 PROVE  u.peers[q].index \in 1 .. Len(u.byIndex) /\ u.byIndex[u.peers[q].index] = q
      BY DEF IndexFits
    <3>1. CASE q = p
      BY <1>1, <2>1, <2>2, <3>1
    <3>2. CASE q # p
      <4>1. q \in DOMAIN t.peers
        BY <1>2, <3>2
      <4> DEFINE j == t.peers[q].index
      <4>2. u.peers[q].index = j /\ j \in 1 .. n /\ t.byIndex[j] = q
        BY <1>2, <2>3, <4>1
      <4> HIDE DEF j
      <4> QED BY <1>1, <2>2, <4>2
    <3> QED BY <3>1, <3>2
  <2> QED BY <1>1, <2>1, <2>2, <2>4
<1> QED BY <1>3, <1>4

(* Whose event it is: the positions of a peer's events, one more. *)
LEMMA OfGrows ==
  ASSUME LogInv, NEW e \in archive, IngestEvent(e), NEW p
  PROVE  /\ Of(p) \in SUBSET (1 .. Len(log))
         /\ Of(p)' = IF HasPeer(e) /\ e.peer = p THEN Of(p) \cup {Len(log) + 1} ELSE Of(p)
<1>1. /\ Len(log) \in Nat
      /\ DOMAIN log = 1 .. Len(log) /\ DOMAIN log' = 1 .. Len(log) + 1
      /\ log'[Len(log) + 1] = e
      /\ \A i \in DOMAIN log : i \in DOMAIN log' /\ log'[i] = log[i]
  BY LogGrows
<1>2. Of(p)' = {i \in DOMAIN log' : HasPeer(log'[i]) /\ log'[i].peer = p}
  BY DEF Of, HasPeer
<1> QED BY <1>1, <1>2 DEF Of

LEMMA PeersStep ==
  ASSUME LogInv, PeersInv, NEW e \in archive, IngestEvent(e)
  PROVE  /\ PeersInv'
         /\ \A i \in DOMAIN table.byIndex :
              i \in DOMAIN table'.byIndex /\ table'.byIndex[i] = table.byIndex[i]
         /\ HasPeer(e) => /\ table'.peers[e.peer].index \in DOMAIN table'.byIndex
                          /\ table'.byIndex[table'.peers[e.peer].index] = e.peer
<1> DEFINE id == KindId(Intern(kinds, KindOf(e)), KindOf(e))
<1>1. /\ e \in AllEvents
      /\ Len(log) \in Nat
      /\ DOMAIN log = 1 .. Len(log) /\ DOMAIN log' = 1 .. Len(log) + 1
      /\ log'[Len(log) + 1] = e
      /\ \A i \in DOMAIN log : i \in DOMAIN log' /\ log'[i] = log[i]
  BY LogGrows
<1>2. table' = TableAfter(table, e, id)
  BY DEF IngestEvent
<1> HIDE DEF id
<1>3. IsTable(table) /\ table.byIndex \in Seq(AllPeers) /\ IndexFits(table)
  BY DEF PeersInv
<1>4. /\ IsTable(table')
      /\ IF HasPeer(e) THEN HasEntry(table, e.peer, table')
         ELSE /\ table'.byIndex = table.byIndex /\ DOMAIN table'.peers = DOMAIN table.peers
              /\ \A q \in DOMAIN table.peers : table'.peers[q].index = table.peers[q].index
  BY <1>1, <1>2, <1>3, TableEntered
<1>5. /\ table'.byIndex \in Seq(AllPeers) /\ IndexFits(table')
      /\ \A i \in DOMAIN table.byIndex :
           i \in DOMAIN table'.byIndex /\ table'.byIndex[i] = table.byIndex[i]
      /\ HasPeer(e) => /\ table'.peers[e.peer].index \in DOMAIN table'.byIndex
                       /\ table'.byIndex[table'.peers[e.peer].index] = e.peer
  <2>1. CASE HasPeer(e)
    <3>1. e.peer \in AllPeers
      BY <1>1 DEF AllPeers
    <3> QED BY <1>3, <1>4, <2>1, <3>1, EntryFits
  <2>2. CASE ~HasPeer(e)
    BY <1>3, <1>4, <2>2 DEF IndexFits
  <2> QED BY <2>1, <2>2
<1>6. /\ DOMAIN table.peers \subseteq DOMAIN table'.peers
      /\ \A p \in DOMAIN table'.peers : p \in DOMAIN table.peers \/ (HasPeer(e) /\ e.peer = p)
      /\ HasPeer(e) => e.peer \in DOMAIN table'.peers
  BY <1>4 DEF HasEntry
<1>7. \A p \in DOMAIN table'.peers : Of(p)' # {}
  <2> TAKE p \in DOMAIN table'.peers
  <2>1. Of(p)' = IF HasPeer(e) /\ e.peer = p THEN Of(p) \cup {Len(log) + 1} ELSE Of(p)
    BY OfGrows
  <2>2. p \in DOMAIN table.peers => Of(p) # {}
    BY DEF PeersInv
  <2> QED BY <1>6, <2>1, <2>2
<1>8. \A i \in DOMAIN log' : HasPeer(log'[i]) => log'[i].peer \in DOMAIN table'.peers
  <2> TAKE i \in DOMAIN log'
  <2>1. CASE i = Len(log) + 1
    BY <1>1, <1>6, <2>1
  <2>2. CASE i # Len(log) + 1
    <3>1. i \in DOMAIN log /\ log'[i] = log[i]
      BY <1>1, <2>2
    <3> QED BY <1>6, <3>1 DEF PeersInv
  <2> QED BY <2>1, <2>2
<1> QED BY <1>4, <1>5, <1>7, <1>8 DEF PeersInv, HasPeer

LEMMA KindsGrow ==
  ASSUME LogInv, KindsInv, NEW e \in archive, IngestEvent(e)
  PROVE  LET id == KindId(Intern(kinds, KindOf(e)), KindOf(e))
         IN /\ \A i \in DOMAIN kinds : i \in DOMAIN kinds' /\ kinds'[i] = kinds[i]
            /\ id \in DOMAIN kinds' /\ kinds'[id] = KindOf(e) /\ id \in Nat
<1> DEFINE k == KindOf(e)
           id == KindId(kinds', k)
<1>1. k \in AllKinds
  BY LogGrows DEF AllKinds
<1>2. kinds' = Intern(kinds, k)
  BY DEF IngestEvent
<1> HIDE DEF k
<1>3. /\ kinds' \in Seq(AllKinds) /\ Len(kinds) \in Nat /\ Len(kinds) <= Len(kinds')
      /\ DOMAIN kinds = 1 .. Len(kinds) /\ DOMAIN kinds' = 1 .. Len(kinds')
      /\ \A i \in DOMAIN kinds : kinds'[i] = kinds[i]
      /\ id \in DOMAIN kinds' /\ kinds'[id] = k
  BY <1>1, <1>2, InternedKind
<1>4. Len(kinds') \in Nat
  BY <1>3, LenProperties
<1>5. id \in Nat /\ \A i \in 1 .. Len(kinds) : i \in 1 .. Len(kinds')
  BY <1>3, <1>4
<1> QED BY <1>2, <1>3, <1>5 DEF k

LEMMA RowsStep ==
  ASSUME TableInv, NEW e \in archive, IngestEvent(e)
  PROVE  RowsInv'
<1> DEFINE id == KindId(Intern(kinds, KindOf(e)), KindOf(e))
           row == RowOf(table', e, id)
           n == Len(store.rows)
<1>1. /\ e \in AllEvents
      /\ Len(log) \in Nat /\ Len(log') = Len(log) + 1
      /\ DOMAIN log = 1 .. Len(log) /\ DOMAIN log' = 1 .. Len(log) + 1
      /\ log'[Len(log) + 1] = e
      /\ \A i \in DOMAIN log : i \in DOMAIN log' /\ log'[i] = log[i]
  BY LogGrows DEF TableInv
<1>2. /\ \A i \in DOMAIN kinds : i \in DOMAIN kinds' /\ kinds'[i] = kinds[i]
      /\ id \in DOMAIN kinds' /\ kinds'[id] = KindOf(e) /\ id \in Nat
  BY KindsGrow DEF TableInv
<1>3. /\ \A i \in DOMAIN table.byIndex :
           i \in DOMAIN table'.byIndex /\ table'.byIndex[i] = table.byIndex[i]
      /\ HasPeer(e) => /\ table'.peers[e.peer].index \in DOMAIN table'.byIndex
                       /\ table'.byIndex[table'.peers[e.peer].index] = e.peer
      /\ table'.byIndex \in Seq(AllPeers)
  BY PeersStep DEF TableInv, PeersInv
<1>4. store' \in Pushed(store, row)
  BY DEF IngestEvent
<1>5. /\ store = [rows |-> store.rows, full |-> store.full] /\ store.full \in BOOLEAN
      /\ store.rows \in Seq(Rows) /\ n <= Len(log) /\ n \in Nat /\ DOMAIN store.rows = 1 .. n
      /\ ~store.full => n = Len(log)
      /\ \A i \in DOMAIN store.rows : RowMeans(store.rows[i], log[i], kinds, table.byIndex)
  BY LenProperties DEF TableInv, RowsInv
<1>6. row \in Rows
  <2>1. IndexOf(table', e) \in Nat \cup {NoPeer}
    <3>1. Len(table'.byIndex) \in Nat /\ DOMAIN table'.byIndex = 1 .. Len(table'.byIndex)
      BY <1>3, LenProperties
    <3>2. HasPeer(e) => table'.peers[e.peer].index \in Nat
      BY <1>3, <3>1
    <3> QED BY <3>2 DEF IndexOf, HasPeer
  <2>2. DirectionOf(e) \in Directions
    BY DEF DirectionOf, Directions
  <2>3. e.timestamp \in Nat /\ (e.class = "message" => e.size \in Nat)
    BY <1>1, EventIs
  <2> HIDE DEF id
  <2> QED BY <1>2, <2>1, <2>2, <2>3 DEF RowOf, Rows
<1>7. RowMeans(row, e, kinds', table'.byIndex)
  <2>1. row.timestamp = e.timestamp /\ row.kind = id /\ row.peer = IndexOf(table', e)
        /\ row.direction = DirectionOf(e)
    BY DEF RowOf
  <2>2. IF HasPeer(e) THEN IndexOf(table', e) = table'.peers[e.peer].index
        ELSE IndexOf(table', e) = NoPeer
    BY DEF IndexOf, HasPeer
  <2> HIDE DEF id, row
  <2> QED BY <1>2, <1>3, <2>1, <2>2 DEF RowMeans
<1> HIDE DEF row, id
<1>8. \A i \in 1 .. n : RowMeans(store.rows[i], log'[i], kinds', table'.byIndex)
  <2> SUFFICES ASSUME NEW i \in 1 .. n
               PROVE  RowMeans(store.rows[i], log'[i], kinds', table'.byIndex)
    OBVIOUS
  <2>1. i \in DOMAIN store.rows /\ log'[i] = log[i]
    BY <1>1, <1>5
  <2>2. RowMeans(store.rows[i], log[i], kinds, table.byIndex)
    BY <1>5, <2>1
  <2> QED BY <1>2, <1>3, <2>1, <2>2 DEF RowMeans
<1>9. CASE store.full /\ store' = store
  <2>2. store'.rows = store.rows /\ store'.full = store.full
    BY <1>9
  <2>3. n <= Len(log')
    BY <1>1, <1>5
  <2> QED BY <1>5, <1>8, <1>9, <2>2, <2>3 DEF RowsInv
<1>10. CASE ~store.full /\ store' = [store EXCEPT !.rows = Append(@, row)]
  <2>1. /\ store'.rows = Append(store.rows, row) /\ store'.full = store.full
        /\ store' = [rows |-> store'.rows, full |-> store'.full]
    BY <1>5, <1>10
  <2>2. /\ store'.rows \in Seq(Rows) /\ Len(store'.rows) = n + 1 /\ DOMAIN store'.rows = 1 .. n + 1
        /\ store'.rows[n + 1] = row /\ \A i \in 1 .. n : store'.rows[i] = store.rows[i]
    BY <1>5, <1>6, <2>1, AppendProperties, LenProperties
  <2>3. n + 1 = Len(log')
    BY <1>1, <1>5, <1>10
  <2>4. \A i \in DOMAIN store'.rows : RowMeans(store'.rows[i], log'[i], kinds', table'.byIndex)
    <3> TAKE i \in DOMAIN store'.rows
    <3>1. CASE i = n + 1
      BY <1>1, <1>7, <2>2, <2>3, <3>1
    <3>2. CASE i # n + 1
      <4>1. i \in 1 .. n
        BY <1>5, <2>2, <3>2
      <4> QED BY <1>8, <2>2, <4>1
    <3> QED BY <3>1, <3>2
  <2> HIDE DEF n
  <2>5. Len(store'.rows) <= Len(log') /\ Len(store'.rows) = Len(log')
    BY <1>1, <1>5, <2>2, <2>3
  <2> QED BY <1>5, <2>1, <2>2, <2>4, <2>5 DEF RowsInv
<1>11. CASE ~store.full /\ store' = [store EXCEPT !.full = TRUE]
  <2>1. /\ store'.rows = store.rows /\ store'.full = TRUE
        /\ store' = [rows |-> store'.rows, full |-> store'.full]
    BY <1>5, <1>11
  <2>2. n <= Len(log')
    BY <1>1, <1>5
  <2> QED BY <1>5, <1>8, <2>1, <2>2 DEF RowsInv
<1>12. \/ store.full /\ store' = store
       \/ ~store.full /\ store' = [store EXCEPT !.rows = Append(@, row)]
       \/ ~store.full /\ store' = [store EXCEPT !.full = TRUE]
  BY <1>4 DEF Pushed
<1> QED BY <1>9, <1>10, <1>11, <1>12

(* Everything the proofs know of the tables and the store holds throughout. *)
LEMMA TableInit == Init => TableInv
<1> SUFFICES ASSUME Init PROVE TableInv
  OBVIOUS
<1>1. /\ table = NewTable /\ kinds = <<>> /\ counts = <<>> /\ archive \in Archives /\ log = <<>>
      /\ store = [rows |-> <<>>, full |-> FALSE]
  BY DEF Init
<1>2. LogInv
  BY <1>1 DEF LogInv
<1>3. KindsInv
  BY <1>1 DEF KindsInv
<1>4. PeersInv
  <2>1. /\ NewTable.peers = <<>> /\ NewTable.byIndex = <<>>
        /\ NewTable = [peers |-> NewTable.peers, byIndex |-> NewTable.byIndex,
                        agents |-> NewTable.agents, durations |-> NewTable.durations]
    BY DEF NewTable
  <2>2. DOMAIN <<>> = {} /\ <<>> = [p \in {} |-> <<>>[p]]
    OBVIOUS
  <2>3. IsTable(NewTable)
    BY <2>1, <2>2 DEF IsTable
  <2> QED BY <1>1, <2>1, <2>2, <2>3 DEF PeersInv, IndexFits
<1>5. RowsInv
  BY <1>1 DEF RowsInv
<1> QED BY <1>2, <1>3, <1>4, <1>5 DEF TableInv

LEMMA TableStep == TableInv /\ [Next]_vars => TableInv'
<1> SUFFICES ASSUME TableInv, [Next]_vars PROVE TableInv'
  OBVIOUS
<1>1. CASE UNCHANGED vars
  <2>1. /\ table' = table /\ kinds' = kinds /\ counts' = counts /\ archive' = archive
        /\ log' = log /\ store' = store
    BY <1>1 DEF vars
  <2>2. \A p : Of(p)' = Of(p)
    BY <2>1 DEF Of
  <2> QED BY <2>1, <2>2 DEF TableInv, LogInv, KindsInv, PeersInv, RowsInv, HasPeer
<1>2. ASSUME NEW e \in archive, IngestEvent(e) PROVE TableInv'
  <2>1. LogInv /\ KindsInv /\ PeersInv
    BY DEF TableInv
  <2>2. LogInv' /\ KindsInv' /\ PeersInv' /\ RowsInv'
    BY <1>2, <2>1, LogGrows, KindsStep, PeersStep, RowsStep
  <2> QED BY <2>2 DEF TableInv
<1> QED BY <1>1, <1>2 DEF Next

(***************************************************************************)
(* The tables and the store hold together, in every state of every         *)
(* session.                                                                *)
(***************************************************************************)
THEOREM TablesHoldTogether == Spec => []TableInv
BY TableInit, TableStep, PTL DEF Spec

(***************************************************************************)
(* Every retained row still names its event's kind and peer in the tables  *)
(* of now (store.rs's columns, read back by view.rs), and each kind's      *)
(* count is that of the whole archive (analysis.rs).                       *)
(***************************************************************************)
THEOREM RowsMeanTheirEvents == Spec => []RowsKeepTheirMeaning
<1>1. TableInv => RowsKeepTheirMeaning
  <2> SUFFICES ASSUME TableInv PROVE RowsKeepTheirMeaning
    OBVIOUS
  <2>1. \A i \in DOMAIN store.rows : RowMeans(store.rows[i], log[i], kinds, table.byIndex)
    BY DEF TableInv, RowsInv
  <2>2. \A k \in DOMAIN kinds :
          counts[k] = Cardinality({i \in DOMAIN log : KindOf(log[i]) = kinds[k]})
    BY DEF TableInv, KindsInv, OfKind
  <2> QED BY <2>1, <2>2 DEF RowsKeepTheirMeaning, RowMeans
<1> QED BY <1>1, TablesHoldTogether, PTL

-----------------------------------------------------------------------------
(***************************************************************************)
(* The lives of the peers.                                                 *)
(***************************************************************************)
LifeEvents == [timestamp : Nat, kind : LifecycleKinds]

LifeEvent(e) == [timestamp |-> e.timestamp, kind |-> e.kind]

(* The j-th of the last so many events of a life is at one of its positions. *)
IsLifeEvent(kept, j, lived, events) ==
  \E i \in lived :
    kept[j] = LifeEvent(events[i]) /\ Cardinality({later \in lived : later > i}) = Len(kept) - j

LifeFits(peer, lived, events) ==
  /\ peer.lifecycle \in Seq(LifeEvents)
  /\ peer.lifecycleTotal = Cardinality(lived)
  /\ peer.lifecycleCounts = [kind \in LifecycleKinds |-> Cardinality({i \in lived : events[i].kind = kind})]
  /\ Len(peer.lifecycle) = Smaller(LifecycleCap, Cardinality(lived))
  /\ \A j \in 1 .. Len(peer.lifecycle) : IsLifeEvent(peer.lifecycle, j, lived, events)

LivesInv == \A p \in DOMAIN table.peers : LifeFits(table.peers[p], Lifecycle(p), log)

(* A longer log changes no life that is not added to. *)
LEMMA LifeStays ==
  ASSUME NEW old, NEW new, SameLife(new, old), NEW lived, NEW events, NEW more,
         \A i \in lived : more[i] = events[i], LifeFits(old, lived, events)
  PROVE  LifeFits(new, lived, more)
<1>1. \A kind \in LifecycleKinds : {i \in lived : more[i].kind = kind} = {i \in lived : events[i].kind = kind}
  OBVIOUS
<1>2. \A j \in 1 .. Len(old.lifecycle) :
        IsLifeEvent(old.lifecycle, j, lived, events) => IsLifeEvent(old.lifecycle, j, lived, more)
  BY DEF IsLifeEvent
<1>3. new.lifecycle = old.lifecycle /\ new.lifecycleTotal = old.lifecycleTotal
      /\ new.lifecycleCounts = old.lifecycleCounts
  BY DEF SameLife
<1> QED BY <1>1, <1>2, <1>3 DEF LifeFits

(* A peer that has not lived yet. *)
LEMMA NoLifeYet == ASSUME NEW peer, SameLife(peer, NewPeer(1, 0)), NEW events
                   PROVE  LifeFits(peer, {}, events)
<1>1. LifecycleCap \in Nat \ {0}
  BY PeerTableAssumption
<1>2. /\ peer.lifecycle = <<>> /\ peer.lifecycleTotal = 0
      /\ peer.lifecycleCounts = [kind \in LifecycleKinds |-> 0]
  BY DEF SameLife, NewPeer
<1>3. \A kind \in LifecycleKinds : {i \in {} : events[i].kind = kind} = {}
  OBVIOUS
<1>4. Cardinality({}) = 0
  BY FS_EmptySet
<1>5. Smaller(LifecycleCap, 0) = 0
  BY <1>1 DEF Smaller
<1> QED BY <1>2, <1>3, <1>4, <1>5 DEF LifeFits

(* One more event of a life: what came later is one more, ... *)
LEMMA LaterGrows ==
  ASSUME NEW n \in Nat, NEW lived \in SUBSET (1 .. n), NEW i \in lived
  PROVE  /\ Cardinality({later \in lived : later > i}) \in Nat
         /\ Cardinality({later \in lived \cup {n + 1} : later > i})
              = Cardinality({later \in lived : later > i}) + 1
<1> DEFINE S == {later \in lived : later > i}
<1>1. S \in SUBSET (1 .. n)
  OBVIOUS
<1>2. {later \in lived \cup {n + 1} : later > i} = S \cup {n + 1}
  OBVIOUS
<1> HIDE DEF S
<1>3. Cardinality(S) \in Nat /\ Cardinality(S \cup {n + 1}) = Cardinality(S) + 1
  BY <1>1, OneMoreCounted
<1> QED BY <1>2, <1>3 DEF S

(* ... and the list keeps the last of them. *)
LEMMA ListMovesOn ==
  ASSUME NEW n \in Nat, NEW lived \in SUBSET (1 .. n), NEW events, NEW more,
         \A i \in lived : more[i] = events[i],
         NEW kept \in Seq(LifeEvents), Len(kept) = Smaller(LifecycleCap, Cardinality(lived)),
         \A j \in 1 .. Len(kept) : IsLifeEvent(kept, j, lived, events),
         LifeEvent(more[n + 1]) \in LifeEvents
  PROVE  LET new == LastFew(Append(kept, LifeEvent(more[n + 1])))
         IN /\ new \in Seq(LifeEvents)
            /\ Len(new) = Smaller(LifecycleCap, Cardinality(lived) + 1)
            /\ \A j \in 1 .. Len(new) : IsLifeEvent(new, j, lived \cup {n + 1}, more)
<1> DEFINE last == LifeEvent(more[n + 1])
           long == Append(kept, last)
           new == LastFew(long)
           c == Cardinality(lived)
           all == lived \cup {n + 1}
<1>1. LifecycleCap \in Nat \ {0}
  BY PeerTableAssumption
<1>2. c \in Nat
  BY OneMoreCounted
<1>3. Len(kept) \in Nat /\ Len(kept) = IF LifecycleCap <= c THEN LifecycleCap ELSE c
  BY LenProperties DEF Smaller
<1>4. /\ long \in Seq(LifeEvents) /\ Len(long) = Len(kept) + 1
      /\ long[Len(kept) + 1] = last /\ \A j \in 1 .. Len(kept) : long[j] = kept[j]
  BY AppendProperties
<1>5. \A j \in 1 .. Len(kept) :
        \E i \in all : /\ kept[j] = LifeEvent(more[i])
                       /\ Cardinality({later \in all : later > i}) = (Len(kept) - j) + 1
  <2> TAKE j \in 1 .. Len(kept)
  <2>1. PICK i \in lived : /\ kept[j] = LifeEvent(events[i])
                           /\ Cardinality({later \in lived : later > i}) = Len(kept) - j
    BY DEF IsLifeEvent
  <2>2. Cardinality({later \in all : later > i}) = (Len(kept) - j) + 1
    BY <2>1, LaterGrows
  <2>3. kept[j] = LifeEvent(more[i]) /\ i \in all
    BY <2>1
  <2> QED BY <2>2, <2>3
<1>6. n + 1 \in all /\ Cardinality({later \in all : later > n + 1}) = 0
  <2>1. \A later \in all : later \in 1 .. n + 1 /\ ~(later > n + 1)
    OBVIOUS
  <2>2. {later \in all : later > n + 1} = {}
    BY <2>1
  <2> QED BY <2>2, FS_EmptySet
<1> HIDE DEF long, c
<1>7. CASE c < LifecycleCap
  <2>1. Len(kept) = c /\ Len(long) = c + 1 /\ new = long
    BY <1>1, <1>2, <1>3, <1>4, <1>7 DEF LastFew
  <2>2. Len(new) = Smaller(LifecycleCap, c + 1)
    BY <1>1, <1>2, <1>7, <2>1 DEF Smaller
  <2> HIDE DEF new, all
  <2>3. \A j \in 1 .. Len(new) : IsLifeEvent(new, j, all, more)
    <3> TAKE j \in 1 .. Len(new)
    <3>1. CASE j = c + 1
      <4>1. new[j] = last /\ Len(new) - j = 0
        BY <1>2, <1>4, <2>1, <3>1
      <4> QED BY <1>6, <4>1 DEF IsLifeEvent
    <3>2. CASE j # c + 1
      <4>1. j \in 1 .. Len(kept) /\ new[j] = kept[j] /\ Len(new) - j = (Len(kept) - j) + 1
        BY <1>2, <1>4, <2>1, <3>2
      <4> QED BY <1>5, <4>1 DEF IsLifeEvent
    <3> QED BY <3>1, <3>2
  <2> QED BY <1>4, <2>1, <2>2, <2>3 DEF new, all, c, long
<1>8. CASE ~(c < LifecycleCap)
  <2>1. Len(kept) = LifecycleCap /\ Len(long) = LifecycleCap + 1 /\ new = Tail(long)
    BY <1>1, <1>2, <1>3, <1>4, <1>8 DEF LastFew
  <2>2. /\ new \in Seq(LifeEvents) /\ Len(new) = LifecycleCap
        /\ \A j \in 1 .. LifecycleCap : new[j] = long[j + 1]
    <3>1. long # <<>>
      BY <1>1, <2>1
    <3> QED BY <1>1, <1>4, <2>1, <3>1, HeadTailProperties
  <2>3. Len(new) = Smaller(LifecycleCap, c + 1)
    BY <1>1, <1>2, <1>8, <2>2 DEF Smaller
  <2> HIDE DEF new, all
  <2>4. \A j \in 1 .. Len(new) : IsLifeEvent(new, j, all, more)
    <3> TAKE j \in 1 .. Len(new)
    <3>1. j \in 1 .. LifecycleCap /\ new[j] = long[j + 1]
      BY <2>2
    <3>2. CASE j = LifecycleCap
      <4>1. new[j] = last /\ Len(new) - j = 0
        BY <1>1, <1>4, <2>1, <2>2, <3>1, <3>2
      <4> QED BY <1>6, <4>1 DEF IsLifeEvent
    <3>3. CASE j # LifecycleCap
      <4>1. j + 1 \in 1 .. Len(kept) /\ Len(new) - j = (Len(kept) - (j + 1)) + 1
        BY <1>1, <2>1, <2>2, <3>1, <3>3
      <4>2. new[j] = kept[j + 1]
        BY <1>4, <3>1, <4>1
      <4> QED BY <1>5, <4>1, <4>2 DEF IsLifeEvent
    <3> QED BY <3>2, <3>3
  <2> QED BY <2>2, <2>3, <2>4 DEF new, all, c, long
<1> QED BY <1>1, <1>2, <1>7, <1>8

LEMMA LifeMovesOn ==
  ASSUME NEW n \in Nat, NEW lived \in SUBSET (1 .. n), NEW events, NEW more,
         \A i \in lived : more[i] = events[i],
         NEW e, more[n + 1] = e, e.timestamp \in Nat, e.kind \in LifecycleKinds,
         NEW old, LifeFits(old, lived, events), NEW new, LivesOn(old, e, new)
  PROVE  LifeFits(new, lived \cup {n + 1}, more)
<1> DEFINE all == lived \cup {n + 1}
<1>1. Cardinality(lived) \in Nat /\ Cardinality(all) = Cardinality(lived) + 1
  BY OneMoreCounted
<1>2. LifeEvent(more[n + 1]) \in LifeEvents
  BY DEF LifeEvent, LifeEvents
<1>3. /\ old.lifecycle \in Seq(LifeEvents)
      /\ Len(old.lifecycle) = Smaller(LifecycleCap, Cardinality(lived))
      /\ \A j \in 1 .. Len(old.lifecycle) : IsLifeEvent(old.lifecycle, j, lived, events)
  BY DEF LifeFits
<1>4. new.lifecycle = LastFew(Append(old.lifecycle, LifeEvent(more[n + 1])))
  BY DEF LivesOn, LifeEvent
<1>5. /\ new.lifecycle \in Seq(LifeEvents)
      /\ Len(new.lifecycle) = Smaller(LifecycleCap, Cardinality(lived) + 1)
      /\ \A j \in 1 .. Len(new.lifecycle) : IsLifeEvent(new.lifecycle, j, all, more)
  <2> DEFINE kept == old.lifecycle
  <2>1. kept \in Seq(LifeEvents) /\ Len(kept) = Smaller(LifecycleCap, Cardinality(lived))
    BY <1>3
  <2>2. \A j \in 1 .. Len(kept) : IsLifeEvent(kept, j, lived, events)
    BY <1>3
  <2> HIDE DEF kept
  <2> DEFINE few == LastFew(Append(kept, LifeEvent(more[n + 1])))
  <2>3. /\ few \in Seq(LifeEvents)
        /\ Len(few) = Smaller(LifecycleCap, Cardinality(lived) + 1)
        /\ \A j \in 1 .. Len(few) : IsLifeEvent(few, j, all, more)
    BY <1>2, <2>1, <2>2, ListMovesOn
  <2> QED BY <1>4, <2>3 DEF kept
<1>6. new.lifecycleTotal = Cardinality(all)
  BY <1>1 DEF LivesOn, LifeFits
<1>7. new.lifecycleCounts = [kind \in LifecycleKinds |-> Cardinality({i \in all : more[i].kind = kind})]
  <2> DEFINE S(kind) == {i \in lived : events[i].kind = kind}
             U(kind) == {i \in all : more[i].kind = kind}
  <2>1. old.lifecycleCounts = [kind \in LifecycleKinds |-> Cardinality(S(kind))]
    BY DEF LifeFits
  <2>2. \A kind \in LifecycleKinds :
          Cardinality(U(kind)) = IF kind = e.kind THEN Cardinality(S(kind)) + 1 ELSE Cardinality(S(kind))
    <3> TAKE kind \in LifecycleKinds
    <3>1. U(kind) = IF kind = e.kind THEN S(kind) \cup {n + 1} ELSE S(kind)
      OBVIOUS
    <3>2. S(kind) \in SUBSET (1 .. n)
      OBVIOUS
    <3>3. Cardinality(S(kind) \cup {n + 1}) = Cardinality(S(kind)) + 1
      BY <3>2, OneMoreCounted
    <3> QED BY <3>1, <3>3
  <2>3. new.lifecycleCounts = [old.lifecycleCounts EXCEPT ![e.kind] = @ + 1]
    BY DEF LivesOn
  <2> HIDE DEF S, U
  <2>4. new.lifecycleCounts = [kind \in LifecycleKinds |-> Cardinality(U(kind))]
    BY <2>1, <2>2, <2>3
  <2> QED BY <2>4 DEF U
<1> QED BY <1>1, <1>5, <1>6, <1>7 DEF LifeFits

(* What an event does to the lives in the table. *)
Lives(e) == e.class = "connection" /\ e.kind # "none"

LEMMA TableLived ==
  ASSUME NEW t, IsTable(t), NEW e \in AllEvents, NEW kind
  PROVE  LET u == TableAfter(t, e, kind)
         IN IF Lives(e)
            THEN KeepsLives(t, u, {e.peer}) /\ LivesOn(RecordBefore(t, e.peer), e, u.peers[e.peer])
            ELSE KeepsLives(t, u, {})
<1> DEFINE u == TableAfter(t, e, kind)
<1>1. CASE e.class = "message"
  <2>1. u = RecordMessage(t, e, kind) /\ ~Lives(e)
    BY <1>1 DEF TableAfter, Lives
  <2> QED BY <2>1, MessageRecorded
<1>2. CASE Lives(e)
  <2>1. u = RecordConnection(t, e) /\ e.kind # "none"
    BY <1>2 DEF TableAfter, Lives
  <2> QED BY <1>2, <2>1, ConnectionRecorded
<1>3. CASE (e.class = "connection" /\ e.kind = "none") \/ e.class = "other"
  <2>1. u = t /\ ~Lives(e)
    BY <1>3 DEF TableAfter, Lives, RecordConnection
  <2> QED BY <2>1 DEF KeepsLives, SameLife
<1>4. CASE e.class = "peer_infos"
  <2>1. u = NamePolled(t, e.infos) /\ ~Lives(e)
    BY <1>4 DEF TableAfter, Lives
  <2>2. Len(e.infos) \in Nat
    BY <1>4, EventIs
  <2>3. OnlyRenames(t, u)
    BY <2>1, <2>2, PollRenames
  <2> HIDE DEF u
  <2> QED BY <2>1, <2>3 DEF OnlyRenames, KeepsLives, u
<1> QED BY <1>1, <1>2, <1>3, <1>4, EventIs DEF Lives

(* The positions of a life, one more. *)
LEMMA LifecycleGrows ==
  ASSUME LogInv, NEW e \in archive, IngestEvent(e), NEW p
  PROVE  /\ Lifecycle(p) \in SUBSET (1 .. Len(log))
         /\ Lifecycle(p)' = IF Lives(e) /\ e.peer = p THEN Lifecycle(p) \cup {Len(log) + 1}
                            ELSE Lifecycle(p)
<1>1. /\ Len(log) \in Nat
      /\ DOMAIN log = 1 .. Len(log) /\ DOMAIN log' = 1 .. Len(log) + 1
      /\ log'[Len(log) + 1] = e
      /\ \A i \in DOMAIN log : i \in DOMAIN log' /\ log'[i] = log[i]
  BY LogGrows
<1>2. /\ Of(p) \in SUBSET (1 .. Len(log))
      /\ Of(p)' = IF HasPeer(e) /\ e.peer = p THEN Of(p) \cup {Len(log) + 1} ELSE Of(p)
  BY OfGrows
<1>3. Lifecycle(p)' = {i \in Of(p)' : log'[i].class = "connection"}
  BY DEF Lifecycle
<1>4. Lives(e) => HasPeer(e)
  BY DEF Lives, HasPeer
<1>5. HasPeer(e) /\ e.class = "connection" => Lives(e)
  BY DEF Lives, HasPeer
<1>6. Lives(e) => e.class = "connection"
  BY DEF Lives
<1>7. \A i \in Of(p) : i # Len(log) + 1 /\ log'[i] = log[i]
  BY <1>1, <1>2
<1>8. CASE Lives(e) /\ e.peer = p
  BY <1>1, <1>2, <1>3, <1>4, <1>6, <1>7, <1>8 DEF Lifecycle
<1>9. CASE ~(Lives(e) /\ e.peer = p)
  BY <1>1, <1>2, <1>3, <1>5, <1>7, <1>9 DEF Lifecycle
<1> QED BY <1>2, <1>8, <1>9 DEF Lifecycle

LEMMA LivesStep ==
  ASSUME TableInv, LivesInv, NEW e \in archive, IngestEvent(e)
  PROVE  LivesInv'
<1> DEFINE id == KindId(Intern(kinds, KindOf(e)), KindOf(e))
           n == Len(log)
<1>1. /\ e \in AllEvents /\ n \in Nat
      /\ DOMAIN log = 1 .. n /\ DOMAIN log' = 1 .. n + 1
      /\ log'[n + 1] = e
      /\ \A i \in DOMAIN log : i \in DOMAIN log' /\ log'[i] = log[i]
  BY LogGrows DEF TableInv
<1>2. table' = TableAfter(table, e, id)
  BY DEF IngestEvent
<1> HIDE DEF id
<1>3. IsTable(table)
  BY DEF TableInv, PeersInv
<1>4. IF Lives(e)
      THEN KeepsLives(table, table', {e.peer})
           /\ LivesOn(RecordBefore(table, e.peer), e, table'.peers[e.peer])
      ELSE KeepsLives(table, table', {})
  BY <1>1, <1>2, <1>3, TableLived
<1>5. \A p : p \notin DOMAIN table.peers => Lifecycle(p) = {}
  BY DEF TableInv, PeersInv, Lifecycle, Of
<1>6. \A p : LifeFits(RecordBefore(table, p), Lifecycle(p), log)
  <2> TAKE p
  <2>1. CASE p \in DOMAIN table.peers
    BY <2>1 DEF LivesInv, RecordBefore
  <2>2. CASE p \notin DOMAIN table.peers
    <3>1. SameLife(NewPeer(1, 0), NewPeer(1, 0))
      BY DEF SameLife
    <3>2. LifeFits(NewPeer(1, 0), {}, log)
      BY <3>1, NoLifeYet
    <3> QED BY <1>5, <2>2, <3>2 DEF RecordBefore
  <2> QED BY <2>1, <2>2
<1> SUFFICES ASSUME NEW p \in DOMAIN table'.peers PROVE LifeFits(table'.peers[p], Lifecycle(p)', log')
  BY DEF LivesInv
<1>7. /\ LogInv
      /\ Lifecycle(p) \in SUBSET (1 .. n)
      /\ Lifecycle(p)' = IF Lives(e) /\ e.peer = p THEN Lifecycle(p) \cup {n + 1} ELSE Lifecycle(p)
  BY LifecycleGrows DEF TableInv
<1>8. \A i \in Lifecycle(p) : log'[i] = log[i]
  BY <1>1, <1>7
<1> DEFINE old == RecordBefore(table, p)
           new == table'.peers[p]
           lived == Lifecycle(p)
<1>9. LifeFits(old, lived, log)
  BY <1>6
<1>10. CASE Lives(e) /\ e.peer = p
  <2>1. LivesOn(old, e, new)
    BY <1>4, <1>10
  <2>2. e.timestamp \in Nat /\ e.kind \in LifecycleKinds
    BY <1>1, <1>10, EventIs DEF Lives
  <2> HIDE DEF old, new, lived, n
  <2>3. LifeFits(new, lived \cup {n + 1}, log')
    BY <1>1, <1>7, <1>8, <1>9, <2>1, <2>2, LifeMovesOn DEF lived
  <2> QED BY <1>7, <1>10, <2>3 DEF lived, new
<1>11. CASE ~(Lives(e) /\ e.peer = p)
  <2>1. SameLife(new, old)
    BY <1>4, <1>11 DEF KeepsLives, RecordBefore
  <2> HIDE DEF old, new
  <2>2. LifeFits(new, lived, log')
    BY <1>8, <1>9, <2>1, LifeStays
  <2> QED BY <1>7, <1>11, <2>2 DEF new
<1> QED BY <1>10, <1>11

(***************************************************************************)
(* A peer's counters tell its whole lifecycle, and its list the last       *)
(* LifecycleCap events of it in order (peers.rs, PeerStat::lived), however *)
(* many were dropped and whoever's events came between.                    *)
(***************************************************************************)
THEOREM LivesAreExact == Spec => []LifecycleIsExact
<1>1. Init => LivesInv
  <2> SUFFICES ASSUME Init PROVE LivesInv
    OBVIOUS
  <2>1. DOMAIN table.peers = {}
    BY DEF Init, NewTable
  <2> QED BY <2>1 DEF LivesInv
<1>2. TableInv /\ LivesInv /\ [Next]_vars => LivesInv'
  <2> SUFFICES ASSUME TableInv, LivesInv, [Next]_vars PROVE LivesInv'
    OBVIOUS
  <2>1. CASE UNCHANGED vars
    <3>1. table' = table /\ log' = log
      BY <2>1 DEF vars
    <3>2. \A p : Lifecycle(p)' = Lifecycle(p)
      BY <3>1 DEF Lifecycle, Of
    <3> QED BY <3>1, <3>2 DEF LivesInv
  <2>2. ASSUME NEW e \in archive, IngestEvent(e) PROVE LivesInv'
    BY <2>2, LivesStep
  <2> QED BY <2>1, <2>2 DEF Next
<1>3. TableInv /\ LivesInv => LifecycleIsExact
  <2> SUFFICES ASSUME TableInv, LivesInv, NEW p \in DOMAIN table.peers
               PROVE  LET lived == Lifecycle(p)
                          kept == table.peers[p].lifecycle
                      IN /\ table.peers[p].lifecycleTotal = Cardinality(lived)
                         /\ \A kind \in LifecycleKinds :
                              table.peers[p].lifecycleCounts[kind]
                                = Cardinality({i \in lived : log[i].kind = kind})
                         /\ Len(kept) = Smaller(LifecycleCap, Cardinality(lived))
                         /\ \A j \in DOMAIN kept :
                              \E i \in lived :
                                /\ kept[j] = [timestamp |-> log[i].timestamp, kind |-> log[i].kind]
                                /\ Cardinality({later \in lived : later > i}) = Len(kept) - j
    BY DEF LifecycleIsExact, Known, PeerOf
  <2>1. LifeFits(table.peers[p], Lifecycle(p), log)
    BY DEF LivesInv
  <2>2. table.peers[p].lifecycle \in Seq(LifeEvents)
    BY <2>1 DEF LifeFits
  <2>3. DOMAIN table.peers[p].lifecycle = 1 .. Len(table.peers[p].lifecycle)
    BY <2>2, LenProperties
  <2> QED BY <2>1, <2>3 DEF LifeFits, IsLifeEvent, LifeEvent
<1> QED BY <1>1, <1>2, <1>3, TablesHoldTogether, PTL DEF Spec

-----------------------------------------------------------------------------
(***************************************************************************)
(* Distributions (latency.rs): what Add and Merge do to one, told of the   *)
(* samples that are in it.                                                 *)
(***************************************************************************)
IsSamples(f) ==
  /\ IsFiniteSet(DOMAIN f)
  /\ f = [s \in DOMAIN f |-> f[s]]
  /\ \A s \in DOMAIN f : f[s] \in Nat

InBucket(f, i) == {s \in DOMAIN f : BucketOf(f[s]) = i}

(* d tells of these samples: DistributionOf, without a choice. *)
Describes(d, f) ==
  /\ d = [buckets |-> d.buckets, count |-> d.count, total |-> d.total, min |-> d.min, max |-> d.max]
  /\ d.buckets = [i \in BucketIndices |-> Cardinality(InBucket(f, i))]
  /\ d.count = Cardinality(DOMAIN f)
  /\ d.total = SumFunctionOnSet(f, DOMAIN f)
  /\ DOMAIN f = {} => d.min = 0 /\ d.max = 0
  /\ DOMAIN f # {} => /\ \E s \in DOMAIN f : f[s] = d.min
                      /\ \E s \in DOMAIN f : f[s] = d.max
  /\ \A s \in DOMAIN f : d.min <= f[s] /\ f[s] <= d.max

LEMMA LeastIsMin ==
  ASSUME NEW S \in SUBSET Nat, NEW m \in S, \A y \in S : m <= y
  PROVE  Min(S) = m
<1>1. Min(S) \in S /\ \A y \in S : Min(S) <= y
  BY DEF Min
<1>2. Min(S) <= m /\ m <= Min(S) /\ m \in Nat /\ Min(S) \in Nat
  BY <1>1
<1> QED BY <1>2

LEMMA GreatestIsMax ==
  ASSUME NEW S \in SUBSET Nat, NEW m \in S, \A y \in S : y <= m
  PROVE  Max(S) = m
<1>1. Max(S) \in S /\ \A y \in S : y <= Max(S)
  BY DEF Max
<1>2. Max(S) <= m /\ m <= Max(S) /\ m \in Nat /\ Max(S) \in Nat
  BY <1>1
<1> QED BY <1>2

LEMMA DescribedIs ==
  ASSUME NEW f, IsSamples(f), NEW d, Describes(d, f)
  PROVE  d = DistributionOf(f)
<1> DEFINE ids == DOMAIN f
           values == {f[s] : s \in ids}
           least == IF ids = {} THEN 0 ELSE Min(values)
           most == IF ids = {} THEN 0 ELSE Max(values)
<1>1. values \in SUBSET Nat
  BY DEF IsSamples
<1>2. d.min = least /\ d.max = most
  <2>1. CASE ids = {}
    BY <2>1 DEF Describes
  <2>2. CASE ids # {}
    <3>1. d.min \in values /\ d.max \in values /\ \A y \in values : d.min <= y /\ y <= d.max
      BY <2>2 DEF Describes
    <3> HIDE DEF values
    <3> QED BY <1>1, <2>2, <3>1, LeastIsMin, GreatestIsMax
  <2> QED BY <2>1, <2>2
<1>3. DistributionOf(f) =
        [buckets |-> [i \in BucketIndices |-> Cardinality(InBucket(f, i))],
         count |-> Cardinality(ids), total |-> SumFunctionOnSet(f, ids), min |-> least, max |-> most]
  BY Zenon DEF DistributionOf, InBucket, SumFunction
<1> HIDE DEF least, most
<1> QED BY <1>2, <1>3, Zenon DEF Describes

LEMMA NoneDescribed == ASSUME NEW f, DOMAIN f = {} PROVE Describes(NoSamples, f)
<1>1. SumFunctionOnSet(f, {}) = 0
  BY SumEmpty
<1>2. \A i \in BucketIndices : Cardinality(InBucket(f, i)) = 0
  <2> TAKE i \in BucketIndices
  <2>1. InBucket(f, i) = {}
    BY DEF InBucket
  <2> QED BY <2>1, FS_EmptySet
<1>3. Cardinality({}) = 0
  BY FS_EmptySet
<1> QED BY <1>1, <1>2, <1>3 DEF Describes, NoSamples

LEMMA ExtremesAreNumbers ==
  ASSUME NEW f, IsSamples(f), NEW d, Describes(d, f)
  PROVE  d.min \in Nat /\ d.max \in Nat
<1>1. CASE DOMAIN f = {}
  BY <1>1 DEF Describes
<1>2. CASE DOMAIN f # {}
  <2>1. PICK s \in DOMAIN f : f[s] = d.min
    BY <1>2 DEF Describes
  <2>2. PICK r \in DOMAIN f : f[r] = d.max
    BY <1>2 DEF Describes
  <2> QED BY <2>1, <2>2 DEF IsSamples
<1> QED BY <1>1, <1>2

(* Two sets of samples put together. *)
LEMMA MergeDescribes ==
  ASSUME NEW f, IsSamples(f), NEW g, IsSamples(g), NEW h, IsSamples(h),
         DOMAIN f \cap DOMAIN g = {}, DOMAIN h = DOMAIN f \cup DOMAIN g,
         \A s \in DOMAIN f : h[s] = f[s], \A s \in DOMAIN g : h[s] = g[s],
         NEW d, Describes(d, f), NEW other, Describes(other, g)
  PROVE  Describes(Merge(d, other), h)
<1> DEFINE m == Merge(d, other)
<1>0. /\ IsFiniteSet(DOMAIN f) /\ IsFiniteSet(DOMAIN g)
      /\ Cardinality(DOMAIN f) \in Nat /\ Cardinality(DOMAIN g) \in Nat
  BY FS_CardinalityType DEF IsSamples
<1>1. CASE other.count = 0
  <2>1. DOMAIN g = {}
    BY <1>0, <1>1, FS_EmptySet DEF Describes
  <2>2. h = f
    BY <2>1 DEF IsSamples
  <2>3. m = d
    BY <1>1 DEF Merge
  <2> QED BY <2>2, <2>3
<1>2. CASE other.count # 0
  <2> DEFINE cells == [i \in BucketIndices |-> d.buckets[i] + other.buckets[i]]
             least == IF d.count = 0 THEN other.min ELSE Smaller(d.min, other.min)
             most == Larger(d.max, other.max)
  <2>1. m = [buckets |-> cells, count |-> d.count + other.count, total |-> d.total + other.total,
             min |-> least, max |-> most]
    BY <1>2 DEF Merge
  <2>2. DOMAIN g # {} /\ (d.count = 0 <=> DOMAIN f = {})
    BY <1>0, <1>2, FS_EmptySet DEF Describes
  <2>3. cells = [i \in BucketIndices |-> Cardinality(InBucket(h, i))]
    <3>1. \A i \in BucketIndices :
            Cardinality(InBucket(h, i)) = Cardinality(InBucket(f, i)) + Cardinality(InBucket(g, i))
      <4> TAKE i \in BucketIndices
      <4> DEFINE F == InBucket(f, i)
                 G == InBucket(g, i)
      <4>1. InBucket(h, i) = F \cup G /\ F \cap G = {}
        BY DEF InBucket
      <4>2. F \in SUBSET DOMAIN f /\ G \in SUBSET DOMAIN g
        BY DEF InBucket
      <4>3. IsFiniteSet(F) /\ IsFiniteSet(G)
        BY <1>0, <4>2, FS_Subset
      <4> HIDE DEF F, G
      <4>4. Cardinality(F \cup G) = Cardinality(F) + Cardinality(G) - Cardinality(F \cap G)
        BY <4>3, FS_Union
      <4>5. Cardinality(F \cap G) = 0 /\ Cardinality(F) \in Nat /\ Cardinality(G) \in Nat
        BY <4>1, <4>3, FS_EmptySet, FS_CardinalityType
      <4> QED BY <4>1, <4>4, <4>5 DEF F, G
    <3> QED BY <3>1 DEF Describes
  <2>4. d.count + other.count = Cardinality(DOMAIN h)
    <3>1. Cardinality(DOMAIN f \cup DOMAIN g)
            = Cardinality(DOMAIN f) + Cardinality(DOMAIN g) - Cardinality(DOMAIN f \cap DOMAIN g)
      BY <1>0, FS_Union
    <3>2. Cardinality(DOMAIN f \cap DOMAIN g) = 0
      BY FS_EmptySet
    <3> QED BY <1>0, <3>1, <3>2 DEF Describes
  <2>5. d.total + other.total = SumFunctionOnSet(h, DOMAIN h)
    <3>1. SumFunctionOnSet(h, DOMAIN h) = SumFunctionOnSet(h, DOMAIN f) + SumFunctionOnSet(h, DOMAIN g)
      <4>1. \A s \in DOMAIN f \cup DOMAIN g : h[s] \in Nat
        BY DEF IsSamples
      <4> QED BY <1>0, <4>1, SumUnion
    <3>2. SumFunctionOnSet(h, DOMAIN f) = SumFunctionOnSet(f, DOMAIN f)
      BY <1>0, SumSame
    <3>3. SumFunctionOnSet(h, DOMAIN g) = SumFunctionOnSet(g, DOMAIN g)
      BY <1>0, SumSame
    <3> QED BY <3>1, <3>2, <3>3 DEF Describes
  <2>6. \A s \in DOMAIN h : h[s] \in Nat
    BY DEF IsSamples
  <2>7. PICK a \in DOMAIN g : g[a] = other.min
    BY <2>2 DEF Describes
  <2>8. PICK b \in DOMAIN g : g[b] = other.max
    BY <2>2 DEF Describes
  <2>9. other.min \in Nat /\ other.max \in Nat
    BY <2>7, <2>8 DEF IsSamples
  <2>10. d.min \in Nat /\ d.max \in Nat
    BY ExtremesAreNumbers
  <2>11. \A s \in DOMAIN f : d.min <= h[s] /\ h[s] <= d.max
    BY DEF Describes
  <2>12. \A s \in DOMAIN g : other.min <= h[s] /\ h[s] <= other.max
    BY DEF Describes
  <2>13. \A s \in DOMAIN h : least <= h[s] /\ h[s] <= most
    BY <2>2, <2>6, <2>9, <2>10, <2>11, <2>12 DEF Smaller, Larger
  <2>14. \E s \in DOMAIN h : h[s] = least
    <3>1. CASE least = other.min
      BY <2>7, <3>1
    <3>2. CASE least # other.min
      <4>1. least = d.min /\ DOMAIN f # {}
        BY <2>2, <3>2 DEF Smaller
      <4>2. PICK s \in DOMAIN f : f[s] = d.min
        BY <4>1 DEF Describes
      <4> QED BY <4>1, <4>2
    <3> QED BY <3>1, <3>2
  <2>15. \E s \in DOMAIN h : h[s] = most
    <3>1. CASE most = other.max
      BY <2>8, <3>1
    <3>2. CASE most # other.max
      <4>1. most = d.max /\ d.max # other.max /\ other.max <= d.max
        BY <2>9, <2>10, <3>2 DEF Larger
      <4>2. DOMAIN f # {}
        <5> SUFFICES ASSUME DOMAIN f = {} PROVE FALSE
          OBVIOUS
        <5>1. d.max = 0
          BY DEF Describes
        <5> HIDE DEF most
        <5> QED BY <2>9, <4>1, <5>1
      <4>3. PICK s \in DOMAIN f : f[s] = d.max
        BY <4>2 DEF Describes
      <4> QED BY <4>1, <4>3
    <3> QED BY <3>1, <3>2
  <2>16. DOMAIN h # {}
    BY <2>2
  <2> HIDE DEF cells, least, most, m
  <2> QED BY <2>1, <2>3, <2>4, <2>5, <2>13, <2>14, <2>15, <2>16 DEF Describes, m
<1> QED BY <1>1, <1>2

(* One more sample. *)
LEMMA AddDescribes ==
  ASSUME NEW f, IsSamples(f), NEW x, x \notin DOMAIN f, NEW ms \in Nat,
         NEW d, Describes(d, f)
  PROVE  LET h == [s \in DOMAIN f \cup {x} |-> IF s = x THEN ms ELSE f[s]]
         IN IsSamples(h) /\ Describes(Add(d, ms), h)
<1> DEFINE h == [s \in DOMAIN f \cup {x} |-> IF s = x THEN ms ELSE f[s]]
           m == Add(d, ms)
<1>0. /\ IsFiniteSet(DOMAIN f) /\ Cardinality(DOMAIN f) \in Nat
      /\ IsFiniteSet(DOMAIN f \cup {x}) /\ Cardinality(DOMAIN f \cup {x}) = Cardinality(DOMAIN f) + 1
  BY FS_CardinalityType, FS_AddElement DEF IsSamples
<1>1. /\ DOMAIN h = DOMAIN f \cup {x} /\ h[x] = ms /\ h = [s \in DOMAIN h |-> h[s]]
      /\ \A s \in DOMAIN f : h[s] = f[s] /\ s # x
  OBVIOUS
<1> HIDE DEF h
<1>2. IsSamples(h)
  BY <1>0, <1>1 DEF IsSamples
<1> DEFINE cells == [d.buckets EXCEPT ![BucketOf(ms)] = @ + 1]
           least == IF d.count = 0 THEN ms ELSE Smaller(d.min, ms)
           most == Larger(d.max, ms)
<1>3. m = [buckets |-> cells, count |-> d.count + 1, total |-> d.total + ms, min |-> least, max |-> most]
  BY DEF Add
<1>4. d.count = 0 <=> DOMAIN f = {}
  BY <1>0, FS_EmptySet DEF Describes
<1>5. cells = [i \in BucketIndices |-> Cardinality(InBucket(h, i))]
  <2>1. \A i \in BucketIndices :
          Cardinality(InBucket(h, i)) =
            IF i = BucketOf(ms) THEN Cardinality(InBucket(f, i)) + 1 ELSE Cardinality(InBucket(f, i))
    <3> TAKE i \in BucketIndices
    <3> DEFINE F == InBucket(f, i)
    <3>1. F \in SUBSET DOMAIN f /\ x \notin F
      BY <1>1 DEF InBucket
    <3>2. InBucket(h, i) = IF i = BucketOf(ms) THEN F \cup {x} ELSE F
      BY <1>1 DEF InBucket
    <3>3. IsFiniteSet(F)
      BY <1>0, <3>1, FS_Subset
    <3> HIDE DEF F
    <3>4. Cardinality(F \cup {x}) = Cardinality(F) + 1
      BY <3>1, <3>3, FS_AddElement
    <3> QED BY <3>2, <3>4 DEF F
  <2>2. d.buckets = [i \in BucketIndices |-> Cardinality(InBucket(f, i))]
    BY DEF Describes
  <2> QED BY <2>1, <2>2
<1>6. d.count + 1 = Cardinality(DOMAIN h)
  BY <1>0, <1>1 DEF Describes
<1>7. d.total + ms = SumFunctionOnSet(h, DOMAIN h)
  <2>1. SumFunctionOnSet(h, DOMAIN f \cup {x}) = h[x] + SumFunctionOnSet(h, DOMAIN f)
    <3>1. \A y \in DOMAIN f \cup {x} : h[y] \in Nat
      BY <1>1, <1>2 DEF IsSamples
    <3> QED BY <1>0, <3>1, SumAdd
  <2>2. SumFunctionOnSet(h, DOMAIN f) = SumFunctionOnSet(f, DOMAIN f)
    BY <1>0, <1>1, SumSame
  <2>3. SumFunctionOnSet(f, DOMAIN f) \in Nat
    BY <1>0, SumType DEF IsSamples
  <2> QED BY <1>1, <2>1, <2>2, <2>3 DEF Describes
<1>8. d.min \in Nat /\ d.max \in Nat
  BY ExtremesAreNumbers
<1>9. \A s \in DOMAIN f : d.min <= h[s] /\ h[s] <= d.max
  BY <1>1 DEF Describes
<1>10. \A s \in DOMAIN h : h[s] \in Nat
  BY <1>2 DEF IsSamples
<1>11. \A s \in DOMAIN h : least <= h[s] /\ h[s] <= most
  BY <1>1, <1>4, <1>8, <1>9, <1>10 DEF Smaller, Larger
<1>12. \E s \in DOMAIN h : h[s] = least
  <2>1. CASE least = ms
    BY <1>1, <2>1
  <2>2. CASE least # ms
    <3>1. least = d.min /\ DOMAIN f # {}
      BY <1>4, <2>2 DEF Smaller
    <3>2. PICK s \in DOMAIN f : f[s] = d.min
      BY <3>1 DEF Describes
    <3> QED BY <1>1, <3>1, <3>2
  <2> QED BY <2>1, <2>2
<1>13. \E s \in DOMAIN h : h[s] = most
  <2>1. CASE most = ms
    BY <1>1, <2>1
  <2>2. CASE most # ms
    <3>1. most = d.max /\ d.max # ms /\ ms <= d.max
      BY <1>8, <2>2 DEF Larger
    <3>2. DOMAIN f # {}
      <4>1. DOMAIN f = {} => d.max = 0
        BY DEF Describes
      <4> QED BY <3>1, <4>1
    <3>3. PICK s \in DOMAIN f : f[s] = d.max
      BY <3>2 DEF Describes
    <3> QED BY <1>1, <3>1, <3>3
  <2> QED BY <2>1, <2>2
<1>14. DOMAIN h # {}
  BY <1>1
<1> HIDE DEF cells, least, most, m
<1>15. Describes(m, h)
  BY <1>3, <1>5, <1>6, <1>7, <1>11, <1>12, <1>13, <1>14 DEF Describes
<1> QED BY <1>2, <1>15 DEF h, m

-----------------------------------------------------------------------------
(***************************************************************************)
(* The distributions of the lifetimes.                                     *)
(***************************************************************************)
Ended(endings, slot) ==
  {j \in DOMAIN log : /\ log[j].class = "connection" /\ log[j].kind \in endings
                      /\ Slot(log[j].connType) = slot}

DurationsInv ==
  /\ DurationsShape(table.durations)
  /\ \A slot \in Slots : \A end \in Endings :
       Describes(table.durations[end][slot], Lifetimes({end}, slot))

LEMMA LifetimesOfLog ==
  ASSUME LogInv, NEW endings \in SUBSET LifecycleKinds, NEW slot
  PROVE  /\ Lifetimes(endings, slot) = [i \in Ended(endings, slot) |-> Lifetime(log[i])]
         /\ IsSamples(Lifetimes(endings, slot))
         /\ Ended(endings, slot) \in SUBSET (1 .. Len(log))
<1> DEFINE D == Ended(endings, slot)
           f == [i \in D |-> Lifetime(log[i])]
<1>1. Lifetimes(endings, slot) = f
  BY DEF Lifetimes, Ended
<1>2. Len(log) \in Nat /\ DOMAIN log = 1 .. Len(log) /\ \A i \in DOMAIN log : log[i] \in AllEvents
  BY LenProperties, ElementOfSeq DEF LogInv
<1>3. D \in SUBSET (1 .. Len(log))
  BY <1>2 DEF Ended
<1>4. IsFiniteSet(D)
  <2>1. IsFiniteSet(1 .. Len(log))
    BY <1>2, FS_Interval
  <2> HIDE DEF D
  <2> QED BY <1>3, <2>1, FS_Subset
<1>5. \A i \in D : Lifetime(log[i]) \in Nat
  <2> TAKE i \in D
  <2>1. log[i] \in AllEvents /\ log[i].class = "connection"
    BY <1>2, <1>3 DEF Ended
  <2>2. log[i].timestamp \in Nat /\ log[i].established \in Nat
    BY <2>1, EventIs
  <2>3. Second \in Nat
    BY PeerTableAssumption
  <2> DEFINE ago == log[i].established * Second
  <2>4. ago \in Nat
    BY <2>2, <2>3
  <2> HIDE DEF ago
  <2>5. Larger(0, log[i].timestamp - ago) \in Nat
    BY <2>2, <2>4 DEF Larger
  <2> QED BY <2>5 DEF Lifetime, ago
<1>6. IsSamples(f)
  <2> HIDE DEF D
  <2> QED BY <1>4, <1>5 DEF IsSamples
<1> QED BY <1>1, <1>3, <1>6

LEMMA LifetimesGrow ==
  ASSUME LogInv, NEW e \in archive, IngestEvent(e), NEW end \in Endings, NEW slot
  PROVE  LET old == Lifetimes({end}, slot)
         IN /\ Len(log) + 1 \notin DOMAIN old
            /\ Lifetimes({end}, slot)' =
                 IF Lives(e) /\ e.kind = end /\ Slot(e.connType) = slot
                 THEN [i \in DOMAIN old \cup {Len(log) + 1} |->
                         IF i = Len(log) + 1 THEN Lifetime(e) ELSE old[i]]
                 ELSE old
<1> DEFINE n == Len(log)
           D == Ended({end}, slot)
           added == Lives(e) /\ e.kind = end /\ Slot(e.connType) = slot
<1>1. /\ n \in Nat
      /\ DOMAIN log = 1 .. n /\ DOMAIN log' = 1 .. n + 1
      /\ log'[n + 1] = e
      /\ \A i \in DOMAIN log : i \in DOMAIN log' /\ log'[i] = log[i]
      /\ LogInv'
  BY LogGrows
<1>2. {end} \in SUBSET LifecycleKinds /\ "none" \notin {end}
  BY DEF Endings, LifecycleKinds
<1>3. Lifetimes({end}, slot) = [i \in D |-> Lifetime(log[i])] /\ D \in SUBSET (1 .. n)
  BY <1>2, LifetimesOfLog
<1>4. Lifetimes({end}, slot)' =
        [i \in {j \in DOMAIN log' : /\ log'[j].class = "connection" /\ log'[j].kind \in {end}
                                    /\ Slot(log'[j].connType) = slot} |-> Lifetime(log'[i])]
  BY DEF Lifetimes, Lifetime, Slot
<1>5. {j \in DOMAIN log' : /\ log'[j].class = "connection" /\ log'[j].kind \in {end}
                           /\ Slot(log'[j].connType) = slot}
        = IF added THEN D \cup {n + 1} ELSE D
  <2>1. added <=> e.class = "connection" /\ e.kind \in {end} /\ Slot(e.connType) = slot
    BY <1>2 DEF Lives
  <2> HIDE DEF added
  <2> QED BY <1>1, <2>1 DEF Ended
<1>6. n + 1 \notin D /\ \A i \in D : log'[i] = log[i]
  <2> HIDE DEF D, n
  <2>1. \A i \in D : i \in 1 .. n
    BY <1>3
  <2>2. n + 1 \notin 1 .. n
    BY <1>1
  <2> QED BY <1>1, <2>1, <2>2
<1> HIDE DEF D, n
<1>7. DOMAIN Lifetimes({end}, slot) = D /\ \A i \in D : Lifetimes({end}, slot)[i] = Lifetime(log[i])
  BY <1>3
<1>8. CASE added
  <2>1. Lifetimes({end}, slot)' = [i \in D \cup {n + 1} |-> Lifetime(log'[i])]
    BY <1>4, <1>5, <1>8
  <2>2. \A i \in D \cup {n + 1} :
          Lifetime(log'[i]) = IF i = n + 1 THEN Lifetime(e) ELSE Lifetimes({end}, slot)[i]
    BY <1>1, <1>6, <1>7
  <2> QED BY <1>6, <1>7, <1>8, <2>1, <2>2 DEF n
<1>9. CASE ~added
  <2>1. Lifetimes({end}, slot)' = [i \in D |-> Lifetime(log'[i])]
    BY <1>4, <1>5, <1>9
  <2> QED BY <1>3, <1>6, <1>7, <1>9, <2>1 DEF n
<1> QED BY <1>8, <1>9

(* What an event does to the distributions. *)
LEMMA TableTimed ==
  ASSUME NEW t, IsTable(t), NEW e \in AllEvents, NEW kind
  PROVE  TableAfter(t, e, kind).durations =
           IF Lives(e) THEN DurationsAfter(t.durations, e) ELSE t.durations
<1> DEFINE u == TableAfter(t, e, kind)
<1>1. CASE e.class = "message"
  <2>1. u = RecordMessage(t, e, kind) /\ ~Lives(e)
    BY <1>1 DEF TableAfter, Lives
  <2> QED BY <2>1, MessageRecorded
<1>2. CASE Lives(e)
  <2>1. u = RecordConnection(t, e) /\ e.kind # "none"
    BY <1>2 DEF TableAfter, Lives
  <2> QED BY <1>2, <2>1, ConnectionRecorded
<1>3. CASE (e.class = "connection" /\ e.kind = "none") \/ e.class = "other"
  <2>1. u = t /\ ~Lives(e)
    BY <1>3 DEF TableAfter, Lives, RecordConnection
  <2> QED BY <2>1
<1>4. CASE e.class = "peer_infos"
  <2>1. u = NamePolled(t, e.infos) /\ ~Lives(e)
    BY <1>4 DEF TableAfter, Lives
  <2>2. Len(e.infos) \in Nat
    BY <1>4, EventIs
  <2>3. OnlyRenames(t, u)
    BY <2>1, <2>2, PollRenames
  <2> HIDE DEF u
  <2> QED BY <2>1, <2>3 DEF OnlyRenames, u
<1> QED BY <1>1, <1>2, <1>3, <1>4, EventIs DEF Lives

LEMMA DurationsStep ==
  ASSUME TableInv, DurationsInv, NEW e \in archive, IngestEvent(e)
  PROVE  DurationsInv'
<1> DEFINE id == KindId(Intern(kinds, KindOf(e)), KindOf(e))
           before == table.durations
           after == table'.durations
           n == Len(log)
<1>1. e \in AllEvents /\ LogInv
  BY LogGrows DEF TableInv
<1>2. table' = TableAfter(table, e, id)
  BY DEF IngestEvent
<1> HIDE DEF id
<1>3. IsTable(table)
  BY DEF TableInv, PeersInv
<1>4. after = IF Lives(e) THEN DurationsAfter(before, e) ELSE before
  BY <1>1, <1>2, <1>3, TableTimed
<1>5. DurationsShape(before)
  BY DEF DurationsInv
<1>6. Lives(e) => e.connType \in Int /\ Slot(e.connType) \in Slots
  BY <1>1, EventIs, SlotInRange DEF Lives
<1> HIDE DEF before, after
<1>7. /\ DurationsShape(after)
      /\ \A end \in Endings : \A slot \in Slots :
           after[end][slot] = IF Lives(e) /\ e.kind = end /\ Slot(e.connType) = slot
                              THEN Add(before[end][slot], Lifetime(e)) ELSE before[end][slot]
  <2>1. CASE Lives(e) /\ e.kind \in Endings
    <3> DEFINE row == [before[e.kind] EXCEPT ![Slot(e.connType)] =
                         Add(before[e.kind][Slot(e.connType)], Lifetime(e))]
    <3>1. after = [before EXCEPT ![e.kind] = row]
      BY <1>4, <2>1, Zenon DEF DurationsAfter
    <3>2. /\ DOMAIN row = Slots
          /\ \A slot \in Slots : row[slot] = IF Slot(e.connType) = slot
                                             THEN Add(before[e.kind][slot], Lifetime(e))
                                             ELSE before[e.kind][slot]
      BY <1>5, <1>6, <2>1 DEF DurationsShape
    <3> HIDE DEF row
    <3>3. DOMAIN after = Endings
          /\ \A end \in Endings : after[end] = IF end = e.kind THEN row ELSE before[end]
      BY <1>5, <2>1, <3>1 DEF DurationsShape
    <3> QED BY <1>5, <2>1, <3>2, <3>3 DEF DurationsShape
  <2>2. CASE ~(Lives(e) /\ e.kind \in Endings)
    <3>1. after = before
      BY <1>4, <2>2 DEF DurationsAfter
    <3> QED BY <1>5, <2>2, <3>1
  <2> QED BY <2>1, <2>2
<1>8. \A slot \in Slots : \A end \in Endings : Describes(after[end][slot], Lifetimes({end}, slot)')
  <2> SUFFICES ASSUME NEW slot \in Slots, NEW end \in Endings
               PROVE  Describes(after[end][slot], Lifetimes({end}, slot)')
    OBVIOUS
  <2> DEFINE old == Lifetimes({end}, slot)
             d == before[end][slot]
             added == Lives(e) /\ e.kind = end /\ Slot(e.connType) = slot
  <2>1. Describes(d, old)
    BY DEF DurationsInv, before
  <2>2. IsSamples(old)
    <3>1. {end} \in SUBSET LifecycleKinds
      BY DEF Endings, LifecycleKinds
    <3> QED BY <1>1, <3>1, LifetimesOfLog
  <2>3. /\ n + 1 \notin DOMAIN old
        /\ Lifetimes({end}, slot)' =
             IF added
             THEN [i \in DOMAIN old \cup {n + 1} |-> IF i = n + 1 THEN Lifetime(e) ELSE old[i]]
             ELSE old
    BY <1>1, LifetimesGrow
  <2>4. after[end][slot] = IF added THEN Add(d, Lifetime(e)) ELSE d
    BY <1>7
  <2>5. CASE added
    <3>1. Lifetime(e) \in Nat
      <4>1. e.timestamp \in Nat /\ e.established \in Nat
        BY <1>1, <2>5, EventIs DEF Lives
      <4>2. Second \in Nat
        BY PeerTableAssumption
      <4> DEFINE ago == e.established * Second
      <4>3. ago \in Nat
        BY <4>1, <4>2
      <4> HIDE DEF ago
      <4>4. Larger(0, e.timestamp - ago) \in Nat
        BY <4>1, <4>3 DEF Larger
      <4> QED BY <4>4 DEF Lifetime, ago
    <3> HIDE DEF old, d, added, n
    <3> DEFINE x == n + 1
               ms == Lifetime(e)
               h == [i \in DOMAIN old \cup {x} |-> IF i = x THEN ms ELSE old[i]]
    <3>2. Describes(Add(d, ms), h)
      <4> HIDE DEF x, ms
      <4>1. x \notin DOMAIN old /\ ms \in Nat
        BY <2>3, <3>1 DEF x, ms
      <4> QED BY <2>1, <2>2, <4>1, AddDescribes
    <3> QED BY <2>3, <2>4, <2>5, <3>2
  <2>6. CASE ~added
    <3> HIDE DEF old, d, added
    <3> QED BY <2>1, <2>3, <2>4, <2>6
  <2> QED BY <2>5, <2>6
<1> QED BY <1>7, <1>8 DEF DurationsInv, after

(* At any time the distributions describe the lifetimes in the log. *)
LEMMA DurationsHold == Spec => []DurationsInv
<1>1. Init => DurationsInv
  <2> SUFFICES ASSUME Init PROVE DurationsInv
    OBVIOUS
  <2>1. table.durations = [end \in Endings |-> [slot \in Slots |-> NoSamples]] /\ log = <<>>
    BY DEF Init, NewTable
  <2>2. DurationsShape(table.durations)
    BY <2>1 DEF DurationsShape
  <2>3. \A slot \in Slots : \A end \in Endings : DOMAIN Lifetimes({end}, slot) = {}
    BY <2>1 DEF Lifetimes
  <2>4. \A slot \in Slots : \A end \in Endings : table.durations[end][slot] = NoSamples
    BY <2>1
  <2> QED BY <2>2, <2>3, <2>4, NoneDescribed DEF DurationsInv
<1>2. TableInv /\ DurationsInv /\ [Next]_vars => DurationsInv'
  <2> SUFFICES ASSUME TableInv, DurationsInv, [Next]_vars PROVE DurationsInv'
    OBVIOUS
  <2>1. CASE UNCHANGED vars
    <3>1. table' = table /\ log' = log
      BY <2>1 DEF vars
    <3>2. \A end, slot : Lifetimes({end}, slot)' = Lifetimes({end}, slot)
      BY <3>1 DEF Lifetimes
    <3> QED BY <3>1, <3>2 DEF DurationsInv
  <2>2. ASSUME NEW e \in archive, IngestEvent(e) PROVE DurationsInv'
    BY <2>2, DurationsStep
  <2> QED BY <2>1, <2>2 DEF Next
<1> QED BY <1>1, <1>2, TablesHoldTogether, PTL DEF Spec

(* What connection_durations merges for "all" tells of both endings' lifetimes. *)
LEMMA AllDescribed ==
  ASSUME LogInv, DurationsInv, NEW slot \in Slots
  PROVE  LET h == Lifetimes(Endings, slot)
             merged == AllDurations(table, slot)
         IN /\ IsSamples(h) /\ Describes(merged, h)
            /\ slot \in DOMAIN ConnectionDurations("all") <=> merged.count > 0
            /\ slot \in DOMAIN ConnectionDurations("all") => ConnectionDurations("all")[slot] = merged
<1> DEFINE f == Lifetimes({"closed"}, slot)
           g == Lifetimes({"inbound_evicted"}, slot)
           h == Lifetimes(Endings, slot)
           merged == AllDurations(table, slot)
<1>1. /\ IsSamples(f) /\ f = [i \in Ended({"closed"}, slot) |-> Lifetime(log[i])]
      /\ IsSamples(g) /\ g = [i \in Ended({"inbound_evicted"}, slot) |-> Lifetime(log[i])]
      /\ IsSamples(h) /\ h = [i \in Ended(Endings, slot) |-> Lifetime(log[i])]
  <2>1. /\ {"closed"} \in SUBSET LifecycleKinds /\ {"inbound_evicted"} \in SUBSET LifecycleKinds
        /\ Endings \in SUBSET LifecycleKinds
    BY DEF Endings, LifecycleKinds
  <2> QED BY <2>1, LifetimesOfLog
<1>2. Describes(merged, h)
  <2>1. /\ Describes(table.durations["closed"][slot], f)
        /\ Describes(table.durations["inbound_evicted"][slot], g)
    BY DEF DurationsInv, Endings
  <2>2. /\ Ended(Endings, slot) = Ended({"closed"}, slot) \cup Ended({"inbound_evicted"}, slot)
        /\ Ended({"closed"}, slot) \cap Ended({"inbound_evicted"}, slot) = {}
    BY DEF Ended, Endings
  <2> HIDE DEF f, g, h
  <2>3. /\ DOMAIN f \cap DOMAIN g = {} /\ DOMAIN h = DOMAIN f \cup DOMAIN g
        /\ \A s \in DOMAIN f : h[s] = f[s]
        /\ \A s \in DOMAIN g : h[s] = g[s]
    BY <1>1, <2>2
  <2> QED BY <1>1, <2>1, <2>3, MergeDescribes DEF AllDurations
<1>3. /\ slot \in DOMAIN ConnectionDurations("all") <=> merged.count > 0
      /\ slot \in DOMAIN ConnectionDurations("all") => ConnectionDurations("all")[slot] = merged
  <2>1. "all" \notin Endings
    BY DEF Endings
  <2>2. ConnectionDurations("all") =
          [s \in {r \in Slots : AllDurations(table, r).count > 0} |-> AllDurations(table, s)]
    BY <2>1 DEF ConnectionDurations
  <2> QED BY <2>2
<1> QED BY <1>1, <1>2, <1>3

(***************************************************************************)
(* Every connection that ended is timed once, under the way it ended and   *)
(* its type, and the charts over both ways (ConnectionDurations::all)      *)
(* hold exactly the two: peers.rs, read by view.rs.                        *)
(***************************************************************************)
THEOREM EndsAreTimed == Spec => []EveryEndIsTimedOnce
<1>1. TableInv /\ DurationsInv => EveryEndIsTimedOnce
  <2> SUFFICES ASSUME TableInv, DurationsInv, NEW slot \in Slots
               PROVE  /\ \A end \in Endings :
                           table.durations[end][slot] = DistributionOf(Lifetimes({end}, slot))
                      /\ LET both == Lifetimes(Endings, slot)
                         IN IF both = <<>> THEN slot \notin DOMAIN ConnectionDurations("all")
                            ELSE ConnectionDurations("all")[slot] = DistributionOf(both)
    BY DEF EveryEndIsTimedOnce
  <2>1. LogInv
    BY DEF TableInv
  <2> DEFINE h == Lifetimes(Endings, slot)
             merged == AllDurations(table, slot)
  <2>2. /\ IsSamples(h) /\ Describes(merged, h)
        /\ slot \in DOMAIN ConnectionDurations("all") <=> merged.count > 0
        /\ slot \in DOMAIN ConnectionDurations("all") => ConnectionDurations("all")[slot] = merged
    BY <2>1, AllDescribed
  <2>3. \A end \in Endings : table.durations[end][slot] = DistributionOf(Lifetimes({end}, slot))
    <3> TAKE end \in Endings
    <3>1. {end} \in SUBSET LifecycleKinds
      BY DEF Endings, LifecycleKinds
    <3>2. IsSamples(Lifetimes({end}, slot))
      BY <2>1, <3>1, LifetimesOfLog
    <3>3. Describes(table.durations[end][slot], Lifetimes({end}, slot))
      BY DEF DurationsInv
    <3> QED BY <3>2, <3>3, DescribedIs
  <2>5. merged = DistributionOf(h)
    BY <2>2, DescribedIs
  <2>6. merged.count = Cardinality(DOMAIN h)
    BY <2>2 DEF Describes
  <2> HIDE DEF h, merged
  <2>8. CASE h = <<>>
    <3>1. DOMAIN h = {}
      BY <2>8
    <3>2. merged.count = 0
      BY <2>6, <3>1, FS_EmptySet
    <3> QED BY <2>2, <2>3, <2>8, <3>2 DEF h
  <2>9. CASE h # <<>>
    <3>1. DOMAIN h # {}
      <4> SUFFICES ASSUME DOMAIN h = {} PROVE h = <<>>
        BY <2>9
      <4>1. h = [s \in {} |-> h[s]]
        BY <2>2 DEF IsSamples
      <4> QED BY <4>1
    <3>2. IsFiniteSet(DOMAIN h)
      BY <2>2 DEF IsSamples
    <3>3. merged.count # 0 /\ merged.count \in Nat
      BY <2>6, <3>1, <3>2, FS_EmptySet, FS_CardinalityType
    <3> QED BY <2>3, <2>2, <2>5, <2>9, <3>3 DEF h
  <2> QED BY <2>8, <2>9
<1> QED BY <1>1, DurationsHold, TablesHoldTogether, PTL

-----------------------------------------------------------------------------
(***************************************************************************)
(* Percentiles.  The powers of two are a recursive function, that is, a    *)
(* choice: they exist up to any bucket.                                    *)
(***************************************************************************)
PowersTo(m, f) == f = [i \in 0 .. m |-> IF i = 0 THEN 1 ELSE 2 * f[i - 1]]

LEMMA PowersExist == ASSUME NEW m \in Nat PROVE \E f : PowersTo(m, f)
<1> DEFINE T == {k \in 0 .. m : \E f : PowersTo(k, f)}
<1>1. 0 \in T
  <2>1. PowersTo(0, [i \in 0 .. 0 |-> 1])
    BY DEF PowersTo
  <2>2. 0 \in 0 .. m
    OBVIOUS
  <2> QED BY <2>1, <2>2, Zenon
<1>2. \A k \in 0 .. m : k \in T /\ k < m => k + 1 \in T
  <2> SUFFICES ASSUME NEW k \in 0 .. m, k \in T, k < m PROVE k + 1 \in T
    OBVIOUS
  <2>1. PICK f : PowersTo(k, f)
    OBVIOUS
  <2> DEFINE e == [i \in 0 .. k + 1 |-> IF i = 0 THEN 1 ELSE 2 * f[i - 1]]
  <2>2. \A i \in 0 .. k : e[i] = f[i]
    <3> TAKE i \in 0 .. k
    <3>1. f[i] = IF i = 0 THEN 1 ELSE 2 * f[i - 1]
      BY <2>1 DEF PowersTo
    <3> QED BY <3>1
  <2>3. \A i \in 0 .. k + 1 : i # 0 => i - 1 \in 0 .. k
    OBVIOUS
  <2>4. \A i \in 0 .. k + 1 : e[i] = IF i = 0 THEN 1 ELSE 2 * e[i - 1]
    <3> TAKE i \in 0 .. k + 1
    <3>1. e[i] = IF i = 0 THEN 1 ELSE 2 * f[i - 1]
      OBVIOUS
    <3> HIDE DEF e
    <3> QED BY <2>2, <2>3, <3>1
  <2>5. e = [i \in 0 .. k + 1 |-> e[i]]
    OBVIOUS
  <2> HIDE DEF e
  <2>6. PowersTo(k + 1, e)
    BY <2>4, <2>5 DEF PowersTo
  <2>7. k + 1 \in 0 .. m
    OBVIOUS
  <2> QED BY <2>6, <2>7, Zenon
<1>3. 0 .. m \subseteq T
  <2> HIDE DEF T
  <2> QED BY <1>1, <1>2, CountingUp
<1> QED BY <1>3

LEMMA PowersAre ==
  \A i \in BucketIndices :
    /\ PowerOfTwo[i] \in Nat \ {0}
    /\ i = 0 => PowerOfTwo[i] = 1
    /\ i > 0 => PowerOfTwo[i] = 2 * PowerOfTwo[i - 1]
<1> DEFINE m == Buckets - 1
           c == CHOOSE f : PowersTo(m, f)
<1>1. m \in Nat /\ BucketIndices = 0 .. m
  BY BucketsAssumption DEF BucketIndices
<1>2. PowerOfTwo = c
  BY Zenon DEF PowerOfTwo, PowersTo, BucketIndices
<1> HIDE DEF m
<1>3. PowersTo(m, c)
  BY <1>1, PowersExist
<1> HIDE DEF c
<1>4. \A i \in 0 .. m : PowerOfTwo[i] = IF i = 0 THEN 1 ELSE 2 * PowerOfTwo[i - 1]
  BY <1>2, <1>3 DEF PowersTo
<1> DEFINE T == {i \in 0 .. m : PowerOfTwo[i] \in Nat \ {0}}
<1>5. 0 \in T
  BY <1>1, <1>4
<1>6. \A i \in 0 .. m : i \in T /\ i < m => i + 1 \in T
  <2> SUFFICES ASSUME NEW i \in 0 .. m, i \in T, i < m PROVE i + 1 \in T
    OBVIOUS
  <2>1. i + 1 \in 0 .. m /\ i + 1 # 0 /\ (i + 1) - 1 = i
    BY <1>1
  <2>2. PowerOfTwo[i + 1] = 2 * PowerOfTwo[i]
    BY <1>4, <2>1
  <2> QED BY <2>1, <2>2
<1>7. 0 .. m \subseteq T
  <2> HIDE DEF T
  <2> QED BY <1>1, <1>5, <1>6, CountingUp
<1> QED BY <1>1, <1>4, <1>7

(* A bucket starts where the one before it ends. *)
LEMMA EdgesMeet ==
  /\ \A i \in BucketIndices : LowOf(i) \in Nat /\ PowerOfTwo[i] \in Nat /\ Width(i) \in Nat
  /\ 0 \in BucketIndices /\ LowOf(0) = 0
  /\ \A i \in BucketIndices :
       i + 1 \in BucketIndices => /\ LowOf(i + 1) = LowOf(i) + PowerOfTwo[i]
                                  /\ Width(i) = PowerOfTwo[i]
<1>1. Buckets \in Nat \ {0}
  BY BucketsAssumption
<1>2. 0 \in BucketIndices /\ LowOf(0) = 0
  <2>1. 0 \in BucketIndices
    BY <1>1 DEF BucketIndices
  <2> QED BY <2>1, PowersAre DEF LowOf
<1>3. \A i \in BucketIndices : LowOf(i) \in Nat /\ PowerOfTwo[i] \in Nat /\ Width(i) \in Nat
  BY PowersAre DEF LowOf, Width
<1>4. \A i \in BucketIndices :
        i + 1 \in BucketIndices => /\ LowOf(i + 1) = LowOf(i) + PowerOfTwo[i]
                                   /\ Width(i) = PowerOfTwo[i]
  <2> SUFFICES ASSUME NEW i \in BucketIndices, i + 1 \in BucketIndices
               PROVE  LowOf(i + 1) = LowOf(i) + PowerOfTwo[i] /\ Width(i) = PowerOfTwo[i]
    OBVIOUS
  <2>1. i \in Nat /\ i + 1 > 0 /\ (i + 1) - 1 = i /\ i # Buckets - 1
    BY <1>1 DEF BucketIndices
  <2>2. PowerOfTwo[i + 1] = 2 * PowerOfTwo[i] /\ PowerOfTwo[i] \in Nat
    BY <2>1, PowersAre
  <2> QED BY <2>1, <2>2 DEF LowOf, Width
<1> QED BY <1>2, <1>3, <1>4

LEMMA BucketHolds ==
  ASSUME NEW x \in Nat
  PROVE  LET b == BucketOf(x)
         IN /\ b \in BucketIndices /\ LowOf(b) <= x
            /\ b < Buckets - 1 => x < LowOf(b) + Width(b)
            /\ \A i \in BucketIndices : LowOf(i) <= x => i <= b
<1> DEFINE S == {i \in BucketIndices : LowOf(i) <= x}
           b == Max(S)
<1>1. Buckets - 1 \in Nat /\ S \subseteq 0 .. (Buckets - 1) /\ 0 \in S
  BY BucketsAssumption, EdgesMeet DEF BucketIndices
<1>2. b \in S /\ \A y \in S : y <= b
  <2> HIDE DEF S
  <2> QED BY <1>1, MaxNat
<1>3. BucketOf(x) = b
  BY DEF BucketOf
<1> HIDE DEF b
<1>4. ASSUME b < Buckets - 1 PROVE x < LowOf(b) + Width(b)
  <2>1. b \in BucketIndices /\ b \in Nat /\ b + 1 \in BucketIndices /\ ~(b + 1 <= b)
    BY <1>2, <1>4, BucketsAssumption DEF BucketIndices
  <2>2. ~(LowOf(b + 1) <= x)
    BY <1>2, <2>1
  <2>3. LowOf(b + 1) \in Nat /\ LowOf(b + 1) = LowOf(b) + Width(b)
    BY <2>1, EdgesMeet
  <2> QED BY <2>2, <2>3
<1> QED BY <1>2, <1>3, <1>4

LEMMA BucketsAscend ==
  ASSUME NEW x \in Nat, NEW y \in Nat, x <= y PROVE BucketOf(x) <= BucketOf(y)
<1>1. BucketOf(x) \in BucketIndices /\ LowOf(BucketOf(x)) <= x
  BY BucketHolds
<1>2. LowOf(BucketOf(x)) <= y
  BY <1>1, EdgesMeet
<1> QED BY <1>1, <1>2, BucketHolds

(* How many samples are in the buckets up to i, or are no greater than x. *)
InUpTo(f, i) == {s \in DOMAIN f : BucketOf(f[s]) <= i}
AtMost(f, x) == {s \in DOMAIN f : f[s] <= x}

LEMMA UpToCounts ==
  ASSUME NEW f, IsSamples(f), NEW d, Describes(d, f), NEW i \in BucketIndices
  PROVE  UpTo(d, i) = Cardinality(InUpTo(f, i))
<1> DEFINE K == InUpTo(f, i)
           a == [s \in K |-> BucketOf(f[s])]
           N == 0 .. i
           c == d.buckets
<1>1. IsFiniteSet(K)
  BY FS_Subset DEF IsSamples, InUpTo
<1>2. i \in Nat /\ N \subseteq BucketIndices
  BY BucketsAssumption DEF BucketIndices
<1>3. IsFiniteSet(N)
  BY <1>2, FS_Interval
<1>4. \A s \in K : a[s] \in N
  <2> TAKE s \in K
  <2>1. f[s] \in Nat /\ BucketOf(f[s]) <= i
    BY DEF IsSamples, InUpTo
  <2>2. BucketOf(f[s]) \in Nat
    BY <2>1, BucketHolds DEF BucketIndices
  <2> QED BY <1>2, <2>1, <2>2
<1>5. \A j \in N : c[j] = Cardinality({s \in K : a[s] = j})
  <2> TAKE j \in N
  <2>1. j \in BucketIndices /\ j <= i
    BY <1>2
  <2>2. {s \in K : a[s] = j} = InBucket(f, j)
    BY <2>1 DEF InBucket, InUpTo
  <2>3. c[j] = Cardinality(InBucket(f, j))
    BY <2>1 DEF Describes
  <2> QED BY <2>2, <2>3
<1>6. Sorts(K, a, N, c)
  <2> HIDE DEF K, a, N, c
  <2> QED BY <1>1, <1>3, <1>4, <1>5 DEF Sorts
<1>7. SumFunctionOnSet(c, N) = Cardinality(K)
  <2> HIDE DEF K, a, N, c
  <2> QED BY <1>6, CountedByValue
<1> QED BY <1>7 DEF UpTo

(* The sample that a percentile is about. *)
LEMMA StatisticIs ==
  ASSUME NEW f, IsSamples(f), NEW d, Describes(d, f), NEW target \in 1 .. d.count
  PROVE  LET x == OrderStatistic(f, target)
         IN /\ x \in Nat /\ d.min <= x /\ x <= d.max
            /\ Cardinality(AtMost(f, x)) >= target
            /\ \A s \in DOMAIN f : Cardinality(AtMost(f, f[s])) >= target => x <= f[s]
<1> DEFINE S == {y \in {f[s] : s \in DOMAIN f} : Cardinality(AtMost(f, y)) >= target}
           x == Min(S)
<1>1. d.count \in Nat /\ d.count = Cardinality(DOMAIN f) /\ IsFiniteSet(DOMAIN f)
  BY FS_CardinalityType DEF IsSamples, Describes
<1>2. DOMAIN f # {}
  BY <1>1, FS_EmptySet
<1>3. PICK s \in DOMAIN f : f[s] = d.max
  BY <1>2 DEF Describes
<1>4. AtMost(f, f[s]) = DOMAIN f
  BY <1>3 DEF AtMost, Describes
<1>5. f[s] \in S
  BY <1>1, <1>4
<1>6. S \in SUBSET Nat
  BY DEF IsSamples
<1>7. PICK y \in S : \A z \in S : y <= z
  BY <1>5, <1>6, LeastNat
<1>8. x = y
  <2> HIDE DEF S
  <2> QED BY <1>6, <1>7, LeastIsMin
<1>9. OrderStatistic(f, target) = x
  BY DEF OrderStatistic, AtMost
<1>10. d.min <= y /\ y <= d.max
  BY <1>7 DEF Describes
<1>11. \A r \in DOMAIN f : Cardinality(AtMost(f, f[r])) >= target => f[r] \in S
  OBVIOUS
<1> HIDE DEF x
<1>12. y \in Nat /\ Cardinality(AtMost(f, y)) >= target
  BY <1>6, <1>7
<1> HIDE DEF S
<1> QED BY <1>7, <1>8, <1>9, <1>10, <1>11, <1>12

(* percentile_ms finds the bucket of that sample. *)
LEMMA BucketFound ==
  ASSUME NEW f, IsSamples(f), NEW d, Describes(d, f), NEW target \in 1 .. d.count
  PROVE  LET b == BucketOf(OrderStatistic(f, target))
         IN /\ Min({j \in BucketIndices : UpTo(d, j) >= target}) = b
            /\ UpTo(d, b) >= target
            /\ \A j \in BucketIndices : UpTo(d, j) >= target => b <= j
<1> DEFINE x == OrderStatistic(f, target)
           b == BucketOf(x)
           S == {j \in BucketIndices : UpTo(d, j) >= target}
<1>1. /\ x \in Nat /\ Cardinality(AtMost(f, x)) >= target
      /\ \A s \in DOMAIN f : Cardinality(AtMost(f, f[s])) >= target => x <= f[s]
  BY StatisticIs
<1>2. IsFiniteSet(DOMAIN f) /\ \A s \in DOMAIN f : f[s] \in Nat
  BY DEF IsSamples
<1> HIDE DEF x
<1>3. b \in BucketIndices
  BY <1>1, BucketHolds
<1>4. UpTo(d, b) >= target
  <2>1. AtMost(f, x) \subseteq InUpTo(f, b)
    BY <1>1, <1>2, BucketsAscend DEF AtMost, InUpTo
  <2>2. IsFiniteSet(InUpTo(f, b)) /\ IsFiniteSet(AtMost(f, x))
    BY <1>2, FS_Subset DEF InUpTo, AtMost
  <2>3. /\ Cardinality(AtMost(f, x)) <= Cardinality(InUpTo(f, b))
        /\ Cardinality(AtMost(f, x)) \in Nat /\ Cardinality(InUpTo(f, b)) \in Nat
    BY <2>1, <2>2, FS_Subset, FS_CardinalityType
  <2>4. UpTo(d, b) = Cardinality(InUpTo(f, b))
    BY <1>3, UpToCounts
  <2>5. target \in Int
    OBVIOUS
  <2> HIDE DEF b
  <2> QED BY <1>1, <2>3, <2>4, <2>5
<1>5. ASSUME NEW j \in BucketIndices, UpTo(d, j) >= target PROVE b <= j
  <2> DEFINE K == InUpTo(f, j)
             V == {f[s] : s \in K}
             y == Max(V)
  <2>1. UpTo(d, j) = Cardinality(K)
    BY UpToCounts
  <2>2. IsFiniteSet(K) /\ K \subseteq DOMAIN f
    BY <1>2, FS_Subset DEF InUpTo
  <2>3. K # {}
    <3>1. target >= 1 /\ target \in Int
      OBVIOUS
    <3> HIDE DEF K
    <3>2. Cardinality(K) # 0
      BY <1>5, <2>1, <3>1
    <3> QED BY <3>2, FS_EmptySet
  <2>4. d.max \in Nat /\ V \subseteq 0 .. d.max /\ V # {}
    <3>1. d.max \in Nat
      BY ExtremesAreNumbers
    <3>2. \A s \in K : f[s] \in Nat /\ f[s] <= d.max
      BY <1>2, <2>2 DEF Describes
    <3> HIDE DEF K
    <3> QED BY <2>3, <3>1, <3>2
  <2>5. y \in V /\ \A z \in V : z <= y
    <3> HIDE DEF V
    <3> QED BY <2>4, MaxNat
  <2> HIDE DEF y
  <2>6. PICK s \in K : y = f[s]
    BY <2>5
  <2>7. s \in DOMAIN f /\ y \in Nat /\ BucketOf(y) <= j
    BY <1>2, <2>2, <2>6 DEF InUpTo
  <2>8. K \subseteq AtMost(f, y)
    BY <2>2, <2>5 DEF AtMost
  <2>9. Cardinality(AtMost(f, y)) >= target
    <3>1. IsFiniteSet(AtMost(f, y))
      BY <1>2, FS_Subset DEF AtMost
    <3>2. /\ Cardinality(K) <= Cardinality(AtMost(f, y))
          /\ Cardinality(K) \in Nat /\ Cardinality(AtMost(f, y)) \in Nat
      BY <2>2, <2>8, <3>1, FS_Subset, FS_CardinalityType
    <3>3. target \in Int
      OBVIOUS
    <3> HIDE DEF K
    <3> QED BY <1>5, <2>1, <3>2, <3>3
  <2>10. x <= y
    BY <1>1, <2>6, <2>7, <2>9
  <2>11. b <= BucketOf(y)
    BY <1>1, <2>7, <2>10, BucketsAscend
  <2>12. b \in Int /\ BucketOf(y) \in Int /\ j \in Int
    BY <1>3, <2>7, BucketHolds DEF BucketIndices
  <2> HIDE DEF b
  <2> QED BY <2>7, <2>11, <2>12
<1>6. Min(S) = b
  <2>1. S \in SUBSET Nat
    BY BucketsAssumption DEF BucketIndices
  <2>2. b \in S /\ \A j \in S : b <= j
    BY <1>3, <1>4, <1>5
  <2> HIDE DEF S, b
  <2> QED BY <2>1, <2>2, LeastIsMin
<1> QED BY <1>4, <1>5, <1>6 DEF x

(* It then goes no further than to the bucket's end. *)
LEMMA PositionInBucket ==
  ASSUME NEW f, IsSamples(f), NEW d, Describes(d, f), NEW target \in 1 .. d.count
  PROVE  LET b == BucketOf(OrderStatistic(f, target))
             position == target - (UpTo(d, b) - d.buckets[b])
         IN d.buckets[b] \in Nat /\ position \in 1 .. d.buckets[b]
<1> DEFINE b == BucketOf(OrderStatistic(f, target))
           n == d.buckets
           below == SumFunctionOnSet(n, 0 .. (b - 1))
<1>1. /\ UpTo(d, b) >= target
      /\ \A j \in BucketIndices : UpTo(d, j) >= target => b <= j
  BY BucketFound
<1>2. b \in BucketIndices
  BY StatisticIs, BucketHolds
<1>3. \A i \in BucketIndices : n[i] \in Nat
  <2> TAKE i \in BucketIndices
  <2>1. n[i] = Cardinality(InBucket(f, i))
    BY DEF Describes
  <2> QED BY <2>1, FS_Subset, FS_CardinalityType DEF IsSamples, InBucket
<1>4. target \in Int /\ target >= 1
  OBVIOUS
<1> HIDE DEF b, n
<1>5. b \in Nat /\ 0 .. b \subseteq BucketIndices /\ (b > 0 => b - 1 \in BucketIndices)
  BY <1>2, BucketsAssumption DEF BucketIndices
<1>6. UpTo(d, b) = n[b] + below
  <2>1. IsFiniteSet(0 .. b) /\ b \in 0 .. b /\ (0 .. b) \ {b} = 0 .. (b - 1)
    BY <1>5, FS_Interval
  <2>2. \A i \in 0 .. b : n[i] \in Nat
    BY <1>3, <1>5
  <2>3. SumFunctionOnSet(n, 0 .. b) = n[b] + SumFunctionOnSet(n, (0 .. b) \ {b})
    BY <2>1, <2>2, SumRemove
  <2> QED BY <2>1, <2>3 DEF UpTo, n
<1>7. below \in Nat /\ below < target
  <2>1. CASE b = 0
    <3>1. 0 .. (b - 1) = {}
      BY <2>1
    <3>2. below = 0
      BY <3>1, SumEmpty
    <3> QED BY <1>4, <3>2
  <2>2. CASE b > 0
    <3>1. below = UpTo(d, b - 1)
      BY DEF UpTo, n
    <3>2. UpTo(d, b - 1) = Cardinality(InUpTo(f, b - 1))
      BY <1>5, <2>2, UpToCounts
    <3>3. UpTo(d, b - 1) \in Nat
      BY <3>2, FS_Subset, FS_CardinalityType DEF IsSamples, InUpTo
    <3>4. ~(UpTo(d, b - 1) >= target)
      <4>1. ~(b <= b - 1)
        BY <1>5
      <4> QED BY <1>1, <1>5, <2>2, <4>1
    <3> QED BY <1>4, <3>1, <3>3, <3>4
  <2> QED BY <1>5, <2>1, <2>2
<1> HIDE DEF below
<1>8. n[b] \in Nat
  BY <1>2, <1>3
<1>9. target - (UpTo(d, b) - n[b]) \in 1 .. n[b]
  BY <1>1, <1>4, <1>6, <1>7, <1>8
<1> QED BY <1>8, <1>9 DEF b, n

LEMMA PartOfWidth ==
  ASSUME NEW width \in Nat, NEW n \in Nat, NEW position \in 1 .. n
  PROVE  (width * position) \div n \in 0 .. width
<1> DEFINE q == (width * position) \div n
<1>1. position \in Nat /\ n \in Nat \ {0} /\ position <= n
  OBVIOUS
<1>2. width * position \in Nat /\ width * position <= width * n
  BY <1>1
<1>3. q \in Nat /\ q * n <= width * position
  BY <1>1, <1>2
<1>4. q * n <= width * n
  BY <1>1, <1>2, <1>3
<1>5. q <= width
  BY <1>1, <1>3, <1>4
<1> QED BY <1>3, <1>5

(* Clamping to what was observed brings the estimate no further away. *)
LEMMA EstimateIsClose ==
  ASSUME NEW f, IsSamples(f), NEW d, Describes(d, f), NEW num, NEW den,
         Target(d, num, den) \in 1 .. d.count
  PROVE  CloseTo(d, f, num, den)
<1> DEFINE target == Target(d, num, den)
           x == OrderStatistic(f, target)
           b == BucketOf(x)
           position == target - (UpTo(d, b) - d.buckets[b])
           estimate == LowOf(b) + (Width(b) * position) \div d.buckets[b]
           clamped == Larger(d.min, Smaller(d.max, estimate))
<1>1. x \in Nat /\ d.min <= x /\ x <= d.max
  BY StatisticIs
<1>2. d.min \in Nat /\ d.max \in Nat
  BY ExtremesAreNumbers
<1>3. Min({j \in BucketIndices : UpTo(d, j) >= target}) = b
  BY BucketFound
<1>4. d.buckets[b] \in Nat /\ position \in 1 .. d.buckets[b]
  BY PositionInBucket
<1>5. Percentile(d, num, den) = clamped
  BY <1>3, Zenon DEF Percentile
<1> HIDE DEF position
<1>6. /\ b \in BucketIndices /\ LowOf(b) <= x
      /\ b < Buckets - 1 => x < LowOf(b) + Width(b)
  BY <1>1, BucketHolds
<1>7. LowOf(b) \in Nat /\ Width(b) \in Nat
  BY <1>6, EdgesMeet
<1> DEFINE part == (Width(b) * position) \div d.buckets[b]
<1>8. part \in 0 .. Width(b)
  BY <1>4, <1>7, PartOfWidth
<1>9. estimate = LowOf(b) + part
  OBVIOUS
<1> HIDE DEF x, target, b, part, estimate
<1>10. /\ d.min <= clamped /\ clamped <= d.max
       /\ b < Buckets - 1 => clamped - x <= Width(b) /\ x - clamped <= Width(b)
  BY <1>1, <1>2, <1>6, <1>7, <1>8, <1>9 DEF Larger, Smaller
<1> HIDE DEF clamped
<1> QED BY <1>5, <1>10 DEF CloseTo, b, x, target

(***************************************************************************)
(* percentile_ms (latency.rs): a percentile shown of the lifetimes of a    *)
(* type is within its bucket's width of the lifetime it estimates, unless  *)
(* that is in the open-ended bucket, and never outside those observed.     *)
(***************************************************************************)
THEOREM PercentilesClose == Spec => []PercentilesAreClose
<1>1. TableInv /\ DurationsInv => PercentilesAreClose
  <2> SUFFICES ASSUME TableInv, DurationsInv,
                      NEW slot \in DOMAIN ConnectionDurations("all"), NEW tenths \in {0, 5, 9, 10}
               PROVE  CloseTo(ConnectionDurations("all")[slot], Lifetimes(Endings, slot), tenths, 10)
    BY DEF PercentilesAreClose
  <2> DEFINE h == Lifetimes(Endings, slot)
             d == AllDurations(table, slot)
  <2>1. LogInv
    BY DEF TableInv
  <2>2. slot \in Slots
    BY DEF ConnectionDurations
  <2>3. /\ IsSamples(h) /\ Describes(d, h) /\ d.count > 0
        /\ ConnectionDurations("all")[slot] = d
    BY <2>1, <2>2, AllDescribed
  <2> HIDE DEF h, d
  <2>4. d.count \in Nat /\ d.count >= 1
    <3>1. d.count \in Nat
      BY <2>3, FS_CardinalityType DEF Describes, IsSamples
    <3> QED BY <2>3, <3>1
  <2>5. Target(d, tenths, 10) \in 1 .. d.count
    <3> DEFINE n == d.count
    <3> HIDE DEF n
    <3>1. n \in Nat /\ n >= 1
      BY <2>4 DEF n
    <3>2. Larger(1, (n * tenths + 10 - 1) \div 10) \in 1 .. n
      <4>1. CASE tenths = 0
        BY <3>1, <4>1 DEF Larger
      <4>2. CASE tenths = 5
        BY <3>1, <4>2 DEF Larger
      <4>3. CASE tenths = 9
        BY <3>1, <4>3 DEF Larger
      <4>4. CASE tenths = 10
        BY <3>1, <4>4 DEF Larger
      <4> QED BY <4>1, <4>2, <4>3, <4>4
    <3> QED BY <3>2 DEF Target, n
  <2>6. CloseTo(d, h, tenths, 10)
    BY <2>3, <2>5, EstimateIsClose
  <2> QED BY <2>3, <2>6 DEF h
<1> QED BY <1>1, DurationsHold, TablesHoldTogether, PTL

-----------------------------------------------------------------------------
(***************************************************************************)
(* Names.  A table names its peers soundly, from a set S of names, if each *)
(* id it gives is that of a name in S, and the other way round.            *)
(***************************************************************************)
NameSound(peer, agents) ==
  peer.agent \in 0 .. Len(agents) /\ (peer.agent = 0 <=> peer.source = "none")

NamesSound(t, S) ==
  /\ t.agents \in Seq(S)
  /\ \A i, j \in 1 .. Len(t.agents) : t.agents[i] = t.agents[j] => i = j
  /\ \A p \in DOMAIN t.peers : NameSound(t.peers[p], t.agents)

(* There is an id for every name of S. *)
EnoughIds(S) == IsFiniteSet(S) /\ Cardinality(S) <= MaxAgents

Extends(agents, more) ==
  Len(agents) <= Len(more) /\ \A i \in 1 .. Len(agents) : more[i] = agents[i]

Calls(peer, agents, source, name) == peer.source = source /\ agents[peer.agent] = name

LEMMA RoomForName ==
  ASSUME NEW S, EnoughIds(S), NEW agents \in Seq(S), NEW agent \in S,
         \A i, j \in 1 .. Len(agents) : agents[i] = agents[j] => i = j
  PROVE  Contains(Interned(agents, agent), agent)
<1>1. Len(agents) \in Nat /\ agents \in [1 .. Len(agents) -> S]
  BY LenProperties
<1>2. CASE Contains(agents, agent)
  BY <1>2 DEF Interned
<1>3. CASE ~Contains(agents, agent)
  <2>1. agents \in Injection(1 .. Len(agents), S)
    BY <1>1 DEF Injection, IsInjective
  <2>2. agents \notin Surjection(1 .. Len(agents), S)
    BY <1>3 DEF Surjection, Contains
  <2>3. /\ Cardinality(1 .. Len(agents)) <= Cardinality(S)
        /\ Cardinality(1 .. Len(agents)) # Cardinality(S)
    BY <2>1, <2>2, FS_Injection DEF EnoughIds
  <2>4. Cardinality(1 .. Len(agents)) = Len(agents)
    BY <1>1, FS_Interval
  <2>5. Cardinality(S) \in Nat /\ MaxAgents \in Nat /\ Cardinality(S) <= MaxAgents
    BY FS_CardinalityType, PeerTableAssumption DEF EnoughIds
  <2>6. ~(Len(agents) >= MaxAgents)
    BY <1>1, <2>3, <2>4, <2>5
  <2>7. Interned(agents, agent) = Append(agents, agent)
    BY <1>3, <2>6 DEF Interned
  <2>8. LET more == Append(agents, agent)
        IN Len(more) = Len(agents) + 1 /\ more[Len(agents) + 1] = agent
    BY AppendProperties
  <2> QED BY <1>1, <2>7, <2>8 DEF Contains
<1> QED BY <1>2, <1>3

(* The table of names with one more, or as it was. *)
LEMMA InternedNames ==
  ASSUME NEW S, NEW agents \in Seq(S), NEW agent \in S,
         \A i, j \in 1 .. Len(agents) : agents[i] = agents[j] => i = j
  PROVE  LET more == Interned(agents, agent)
         IN /\ more \in Seq(S)
            /\ \A i, j \in 1 .. Len(more) : more[i] = more[j] => i = j
            /\ Extends(agents, more)
            /\ Len(agents) \in Nat /\ Len(more) \in Nat
<1> DEFINE more == Interned(agents, agent)
<1>1. Len(agents) \in Nat
  BY LenProperties
<1>2. CASE more = agents
  BY <1>1, <1>2 DEF Extends
<1>3. CASE more # agents
  <2>1. more = Append(agents, agent) /\ ~Contains(agents, agent)
    BY <1>3 DEF Interned
  <2> HIDE DEF more
  <2>2. /\ more \in Seq(S) /\ Len(more) = Len(agents) + 1 /\ more[Len(agents) + 1] = agent
        /\ \A i \in 1 .. Len(agents) : more[i] = agents[i]
    BY <2>1, AppendProperties
  <2>3. \A i \in 1 .. Len(agents) : agents[i] # agent
    BY <2>1 DEF Contains
  <2>4. \A i, j \in 1 .. Len(more) : more[i] = more[j] => i = j
    <3> TAKE i, j \in 1 .. Len(more)
    <3>1. i = Len(agents) + 1 \/ i \in 1 .. Len(agents)
      BY <1>1, <2>2
    <3>2. j = Len(agents) + 1 \/ j \in 1 .. Len(agents)
      BY <1>1, <2>2
    <3> QED BY <2>2, <2>3, <3>1, <3>2
  <2>5. Extends(agents, more)
    BY <1>1, <2>2 DEF Extends
  <2> QED BY <1>1, <2>2, <2>4, <2>5 DEF more
<1> QED BY <1>2, <1>3

(* When record_user_agent would take a name, if there is an id for it. *)
Wants(t, p, agent, source) == agent # NoAgent /\ p \in DOMAIN t.peers /\ MayName(t.peers[p], source)

LEMMA NamingSound ==
  ASSUME NEW t, IsTable(t), NEW S, NamesSound(t, S), NEW p,
         NEW agent, agent # NoAgent => agent \in S, NEW source, source # "none"
  PROVE  LET u == RecordUserAgent(t, p, agent, source)
         IN /\ NamesSound(u, S)
            /\ Extends(t.agents, u.agents)
            /\ Wants(t, p, agent, source) /\ EnoughIds(S) => Calls(u.peers[p], u.agents, source, agent)
            /\ ~Wants(t, p, agent, source) => u = t
            /\ \A q \in DOMAIN t.peers \ {p} : SameName(u.peers[q], t.peers[q])
<1> DEFINE u == RecordUserAgent(t, p, agent, source)
           more == Interned(t.agents, agent)
<1>1. /\ IsTable(u) /\ OnlyRenames(t, u)
      /\ IF Takes(t, p, agent, source) THEN IsNamed(t, p, agent, source, u) ELSE u = t
  BY UserAgentRecorded
<1>2. /\ t.agents \in Seq(S) /\ Len(t.agents) \in Nat
      /\ \A i, j \in 1 .. Len(t.agents) : t.agents[i] = t.agents[j] => i = j
      /\ \A q \in DOMAIN t.peers : NameSound(t.peers[q], t.agents)
  BY LenProperties DEF NamesSound
<1> HIDE DEF u
<1>3. Takes(t, p, agent, source) => Wants(t, p, agent, source)
  BY DEF Takes, Wants
<1>4. Wants(t, p, agent, source) /\ EnoughIds(S) => Takes(t, p, agent, source)
  <2> SUFFICES ASSUME Wants(t, p, agent, source), EnoughIds(S) PROVE Takes(t, p, agent, source)
    OBVIOUS
  <2>1. agent \in S
    BY DEF Wants
  <2>2. Contains(Interned(t.agents, agent), agent)
    BY <1>2, <2>1, RoomForName
  <2> QED BY <2>2 DEF Takes, Wants
<1>5. CASE ~Takes(t, p, agent, source)
  <2>1. u = t
    BY <1>1, <1>5
  <2>2. Extends(t.agents, t.agents)
    BY <1>2 DEF Extends
  <2> QED BY <1>4, <1>5, <2>1, <2>2 DEF SameName, u
<1>6. CASE Takes(t, p, agent, source)
  <2>1. agent \in S /\ p \in DOMAIN t.peers /\ Contains(more, agent)
    BY <1>6 DEF Takes
  <2>2. /\ u.agents = more
        /\ u.peers[p].agent = CHOOSE i \in DOMAIN more : more[i] = agent
        /\ u.peers[p].source = source
        /\ \A q \in DOMAIN t.peers \ {p} : SameName(u.peers[q], t.peers[q])
    BY <1>1, <1>6 DEF IsNamed
  <2>3. /\ more \in Seq(S)
        /\ \A i, j \in 1 .. Len(more) : more[i] = more[j] => i = j
        /\ Extends(t.agents, more)
        /\ Len(more) \in Nat
    BY <1>2, <2>1, InternedNames
  <2> HIDE DEF more
  <2>4. DOMAIN more = 1 .. Len(more)
    BY <2>3, LenProperties
  <2>5. \E i \in DOMAIN more : more[i] = agent
    BY <2>1, <2>4 DEF Contains
  <2>6. u.peers[p].agent \in 1 .. Len(more) /\ more[u.peers[p].agent] = agent
    BY <2>2, <2>4, <2>5
  <2>7. DOMAIN u.peers = DOMAIN t.peers
    BY <1>1 DEF OnlyRenames
  <2>8. \A q \in DOMAIN u.peers : NameSound(u.peers[q], u.agents)
    <3> TAKE q \in DOMAIN u.peers
    <3>1. CASE q = p
      <4>1. u.peers[q].agent \in 0 .. Len(more) /\ u.peers[q].agent # 0
        BY <2>3, <2>6, <3>1
      <4> QED BY <2>2, <3>1, <4>1 DEF NameSound
    <3>2. CASE q # p
      <4>1. NameSound(t.peers[q], t.agents) /\ SameName(u.peers[q], t.peers[q])
        BY <1>2, <2>2, <2>7, <3>2
      <4>2. Len(t.agents) <= Len(more)
        BY <2>3 DEF Extends
      <4> QED BY <1>2, <2>2, <2>3, <4>1, <4>2 DEF NameSound, SameName
    <3> QED BY <3>1, <3>2
  <2>9. NamesSound(u, S)
    BY <2>2, <2>3, <2>8 DEF NamesSound
  <2>10. Calls(u.peers[p], u.agents, source, agent)
    BY <2>2, <2>6 DEF Calls
  <2> QED BY <1>3, <1>6, <2>2, <2>3, <2>9, <2>10 DEF u
<1> QED BY <1>5, <1>6

(* A name given stays, as the table of names grows. *)
LEMMA NameStays ==
  ASSUME NEW agents, Len(agents) \in Nat, NEW more, Extends(agents, more),
         NEW x, NameSound(x, agents), NEW y, SameName(y, x)
  PROVE  /\ x.source # "none" => x.agent \in 1 .. Len(agents)
         /\ \A source, name :
              source # "none" /\ Calls(x, agents, source, name) => Calls(y, more, source, name)
<1>1. x.source # "none" => x.agent \in 1 .. Len(agents)
  BY DEF NameSound
<1> QED BY <1>1 DEF Extends, SameName, Calls

LEMMA ExtendsTwice ==
  ASSUME NEW a, NEW b, NEW c, Len(a) \in Nat, Len(b) \in Nat, Len(c) \in Nat,
         Extends(a, b), Extends(b, c)
  PROVE  Extends(a, c)
BY DEF Extends

HeardOf(infos, k, q) == \E j \in 1 .. k : infos[j].peer = q /\ infos[j].agent # NoAgent

CalledAsHeard(infos, k, q, u) ==
  \E j \in 1 .. k : /\ infos[j].peer = q /\ infos[j].agent # NoAgent
                    /\ Calls(u.peers[q], u.agents, "getpeerinfo", infos[j].agent)

NamedByPoll(t, u, infos, k, S, q) ==
  IF t.peers[q].agent # 0 \/ ~HeardOf(infos, k, q) THEN SameName(u.peers[q], t.peers[q])
  ELSE EnoughIds(S) => CalledAsHeard(infos, k, q, u)

(* One more of the infos of a poll. *)
LEMMA PollStep ==
  ASSUME NEW t, NEW infos, NEW k \in Nat, NEW S,
         NEW v, IsTable(v), NamesSound(v, S), DOMAIN v.peers = DOMAIN t.peers,
         \A q \in DOMAIN t.peers : NamedByPoll(t, v, infos, k, S, q),
         infos[k + 1].agent # NoAgent => infos[k + 1].agent \in S
  PROVE  LET w == RecordUserAgent(v, infos[k + 1].peer, infos[k + 1].agent, "getpeerinfo")
         IN /\ NamesSound(w, S) /\ Extends(v.agents, w.agents)
            /\ \A q \in DOMAIN t.peers : NamedByPoll(t, w, infos, k + 1, S, q)
<1> DEFINE p == infos[k + 1].peer
           a == infos[k + 1].agent
           w == RecordUserAgent(v, p, a, "getpeerinfo")
<1>1. /\ NamesSound(w, S) /\ Extends(v.agents, w.agents)
      /\ Wants(v, p, a, "getpeerinfo") /\ EnoughIds(S) => Calls(w.peers[p], w.agents, "getpeerinfo", a)
      /\ ~Wants(v, p, a, "getpeerinfo") => w = v
      /\ \A q \in DOMAIN v.peers \ {p} : SameName(w.peers[q], v.peers[q])
  BY NamingSound
<1> HIDE DEF w
<1>2. /\ v.agents \in Seq(S) /\ Len(v.agents) \in Nat
      /\ \A q \in DOMAIN v.peers : NameSound(v.peers[q], v.agents)
  BY LenProperties DEF NamesSound
<1>3. \A q : HeardOf(infos, k + 1, q) <=> HeardOf(infos, k, q) \/ (p = q /\ a # NoAgent)
  <2> TAKE q
  <2>1. 1 .. k + 1 = 1 .. k \cup {k + 1}
    OBVIOUS
  <2> QED BY <2>1 DEF HeardOf
<1>4. \A q : CalledAsHeard(infos, k, q, w) => CalledAsHeard(infos, k + 1, q, w)
  BY DEF CalledAsHeard
<1>5. p = p /\ k + 1 \in 1 .. k + 1
  OBVIOUS
<1> SUFFICES ASSUME NEW q \in DOMAIN t.peers PROVE NamedByPoll(t, w, infos, k + 1, S, q)
  BY <1>1 DEF w
<1>6. NamedByPoll(t, v, infos, k, S, q) /\ NameSound(v.peers[q], v.agents)
  BY <1>2
<1>7. CASE SameName(w.peers[q], v.peers[q]) /\ (HeardOf(infos, k + 1, q) <=> HeardOf(infos, k, q))
  <2>1. CASE t.peers[q].agent # 0 \/ ~HeardOf(infos, k, q)
    BY <1>6, <1>7, <2>1 DEF NamedByPoll, SameName
  <2>2. CASE ~(t.peers[q].agent # 0 \/ ~HeardOf(infos, k, q))
    <3>1. EnoughIds(S) => CalledAsHeard(infos, k, q, w)
      <4> SUFFICES ASSUME EnoughIds(S) PROVE CalledAsHeard(infos, k, q, w)
        OBVIOUS
      <4>1. PICK j \in 1 .. k : /\ infos[j].peer = q /\ infos[j].agent # NoAgent
                                /\ Calls(v.peers[q], v.agents, "getpeerinfo", infos[j].agent)
        BY <1>6, <2>2 DEF NamedByPoll, CalledAsHeard
      <4>2. Calls(w.peers[q], w.agents, "getpeerinfo", infos[j].agent)
        BY <1>1, <1>2, <1>6, <1>7, <4>1, NameStays
      <4> QED BY <4>1, <4>2 DEF CalledAsHeard
    <3> QED BY <1>4, <1>7, <2>2, <3>1 DEF NamedByPoll
  <2> QED BY <2>1, <2>2
<1>8. CASE q # p
  <2>1. SameName(w.peers[q], v.peers[q])
    BY <1>1, <1>8
  <2> QED BY <1>3, <1>7, <1>8, <2>1
<1>9. CASE q = p /\ a = NoAgent
  <2>1. ~Wants(v, p, a, "getpeerinfo")
    BY <1>9 DEF Wants
  <2>2. SameName(w.peers[q], v.peers[q])
    BY <1>1, <2>1 DEF SameName
  <2> QED BY <1>3, <1>7, <1>9, <2>2
<1>10. CASE q = p /\ a # NoAgent /\ v.peers[q].agent # 0
  <2>1. ~Wants(v, p, a, "getpeerinfo")
    BY <1>10 DEF Wants, MayName
  <2>2. SameName(w.peers[q], v.peers[q])
    BY <1>1, <2>1 DEF SameName
  <2>3. CASE t.peers[q].agent # 0
    BY <1>6, <2>2, <2>3 DEF NamedByPoll, SameName
  <2>4. CASE t.peers[q].agent = 0 /\ HeardOf(infos, k, q)
    BY <1>3, <1>7, <2>2, <2>4
  <2>5. CASE t.peers[q].agent = 0 /\ ~HeardOf(infos, k, q)
    BY <1>6, <1>10, <2>5 DEF NamedByPoll, SameName
  <2> QED BY <2>3, <2>4, <2>5
<1>11. CASE q = p /\ a # NoAgent /\ v.peers[q].agent = 0
  <2>1. Wants(v, p, a, "getpeerinfo")
    BY <1>11 DEF Wants, MayName
  <2>2. HeardOf(infos, k + 1, q)
    BY <1>3, <1>11
  <2>3. EnoughIds(S) => CalledAsHeard(infos, k + 1, q, w)
    BY <1>1, <1>5, <1>11, <2>1 DEF CalledAsHeard
  <2>4. t.peers[q].agent = 0
    <3>1. SameName(v.peers[q], t.peers[q]) \/ t.peers[q].agent = 0
      BY <1>6 DEF NamedByPoll
    <3> QED BY <1>11, <3>1 DEF SameName
  <2> QED BY <2>2, <2>3, <2>4 DEF NamedByPoll
<1> QED BY <1>8, <1>9, <1>10, <1>11

(* A whole poll. *)
LEMMA PollNames ==
  ASSUME NEW t, IsTable(t), NEW S, NamesSound(t, S), NEW infos, Len(infos) \in Nat,
         \A j \in 1 .. Len(infos) : infos[j].agent # NoAgent => infos[j].agent \in S
  PROVE  LET u == NamePolled(t, infos)
         IN /\ NamesSound(u, S) /\ Extends(t.agents, u.agents)
            /\ \A q \in DOMAIN t.peers : NamedByPoll(t, u, infos, Len(infos), S, q)
<1> DEFINE n == Len(infos)
<1>1. PICK f : PolledUpTo(t, infos, n, f) /\ NamePolled(t, infos) = f[n]
  BY PolledOneByOne
<1> DEFINE Good(u, k) == /\ IsTable(u) /\ OnlyRenames(t, u)
                         /\ NamesSound(u, S) /\ Extends(t.agents, u.agents)
                         /\ \A q \in DOMAIN t.peers : NamedByPoll(t, u, infos, k, S, q)
           T == {k \in 0 .. n : Good(f[k], k)}
<1> HIDE DEF n
<1>2. n \in Nat
  BY DEF n
<1>3. t.agents \in Seq(S) /\ Len(t.agents) \in Nat
  BY LenProperties DEF NamesSound
<1>4. f[0] = t
  BY <1>1, <1>2 DEF PolledUpTo
<1>5. 0 \in T
  <2>1. OnlyRenames(t, t) /\ Extends(t.agents, t.agents)
    BY <1>3 DEF OnlyRenames, SameIndex, SameLife, Extends
  <2>2. \A q \in DOMAIN t.peers : NamedByPoll(t, t, infos, 0, S, q)
    BY DEF NamedByPoll, HeardOf, SameName
  <2>3. 0 \in 0 .. n
    BY <1>2
  <2> QED BY <1>4, <2>1, <2>2, <2>3
<1>6. \A k \in 0 .. n : k \in T /\ k < n => k + 1 \in T
  <2> SUFFICES ASSUME NEW k \in 0 .. n, k \in T, k < n PROVE k + 1 \in T
    OBVIOUS
  <2>1. k + 1 \in 0 .. n /\ k + 1 # 0 /\ (k + 1) - 1 = k /\ k \in Nat /\ k + 1 \in 1 .. n
    BY <1>2
  <2>2. f[k + 1] = RecordUserAgent(f[k], infos[k + 1].peer, infos[k + 1].agent, "getpeerinfo")
    BY <1>1, <2>1 DEF PolledUpTo
  <2> DEFINE v == f[k]
             w == f[k + 1]
  <2>3. Good(v, k)
    OBVIOUS
  <2>4. w = RecordUserAgent(v, infos[k + 1].peer, infos[k + 1].agent, "getpeerinfo")
    BY <2>2
  <2>5. infos[k + 1].agent # NoAgent => infos[k + 1].agent \in S
    BY <2>1 DEF n
  <2> HIDE DEF v, w
  <2>6. IsTable(w) /\ OnlyRenames(v, w)
    BY <2>3, <2>4, UserAgentRecorded
  <2>7. OnlyRenames(t, w)
    BY <2>3, <2>6, RenamesTwice
  <2>8. /\ IsTable(v) /\ NamesSound(v, S) /\ DOMAIN v.peers = DOMAIN t.peers
        /\ \A q \in DOMAIN t.peers : NamedByPoll(t, v, infos, k, S, q)
    BY <2>3 DEF OnlyRenames
  <2>9. /\ NamesSound(w, S) /\ Extends(v.agents, w.agents)
        /\ \A q \in DOMAIN t.peers : NamedByPoll(t, w, infos, k + 1, S, q)
    BY <2>1, <2>4, <2>5, <2>8, PollStep
  <2>10. Len(v.agents) \in Nat /\ Len(w.agents) \in Nat
    <3>1. v.agents \in Seq(S) /\ w.agents \in Seq(S)
      BY <2>8, <2>9 DEF NamesSound
    <3> QED BY <3>1, LenProperties
  <2>11. Extends(t.agents, w.agents)
    BY <1>3, <2>3, <2>9, <2>10, ExtendsTwice
  <2>12. Good(w, k + 1)
    BY <2>6, <2>7, <2>9, <2>11
  <2> HIDE DEF Good
  <2> QED BY <2>1, <2>12 DEF w
<1>7. 0 .. n \subseteq T
  <2> HIDE DEF T
  <2> QED BY <1>2, <1>5, <1>6, CountingUp
<1>8. Good(f[n], n)
  BY <1>2, <1>7
<1> QED BY <1>1, <1>8 DEF n

-----------------------------------------------------------------------------
(***************************************************************************)
(* The names an event offers, and whom it names.                           *)
(***************************************************************************)
IntroducesItself(e) ==
  e.class = "message" /\ e.inbound /\ e.message.command = "version" /\ e.agent # NoAgent

PollsOf(e) == IF e.class = "peer_infos" THEN Range(e.infos) ELSE {}

PollNamesIt(e, p) == \E info \in PollsOf(e) : info.peer = p /\ info.agent # NoAgent

OfferedBy(e) ==
  (IF IntroducesItself(e) THEN {e.agent} ELSE {}) \cup {info.agent : info \in PollsOf(e)}

Offered(events) == UNION {OfferedBy(events[i]) : i \in DOMAIN events}
NamesOffered(events) == Offered(events) \ {NoAgent}

(* The infos of a poll by number. *)
LEMMA InfosByNumber ==
  ASSUME NEW e \in AllEvents, e.class = "peer_infos"
  PROVE  /\ Len(e.infos) \in Nat
         /\ PollsOf(e) = {e.infos[j] : j \in 1 .. Len(e.infos)}
         /\ \A j \in 1 .. Len(e.infos) : e.infos[j].agent \in OfferedBy(e)
         /\ \A p : PollNamesIt(e, p) <=> HeardOf(e.infos, Len(e.infos), p)
         /\ IsFiniteSet({info.agent : info \in PollsOf(e)})
<1> DEFINE infos == e.infos
           m == Len(infos)
<1>1. infos \in Seq(Range(infos)) /\ m \in Nat
  BY EventIs
<1>2. DOMAIN infos = 1 .. m
  BY <1>1, LenProperties
<1>3. PollsOf(e) = {infos[j] : j \in 1 .. m}
  BY <1>2 DEF PollsOf, Range
<1>4. \A j \in 1 .. m : infos[j].agent \in OfferedBy(e)
  BY <1>3 DEF OfferedBy
<1>5. \A p : PollNamesIt(e, p) <=> HeardOf(infos, m, p)
  BY <1>3 DEF PollNamesIt, HeardOf
<1>6. IsFiniteSet({info.agent : info \in PollsOf(e)})
  <2> DEFINE A == {info.agent : info \in PollsOf(e)}
             f == [j \in 1 .. m |-> infos[j].agent]
  <2>1. f \in Surjection(1 .. m, A)
    BY <1>3 DEF Surjection
  <2>2. IsFiniteSet(1 .. m)
    BY <1>1, FS_Interval
  <2> HIDE DEF A, f
  <2>3. IsFiniteSet(A)
    BY <2>1, <2>2, FS_Surjection
  <2> QED BY <2>3 DEF A
<1> QED BY <1>1, <1>3, <1>4, <1>5, <1>6

LEMMA OfferIsFinite == ASSUME NEW e \in AllEvents PROVE IsFiniteSet(OfferedBy(e))
<1> DEFINE A == {info.agent : info \in PollsOf(e)}
<1>1. IsFiniteSet(A)
  <2>1. CASE e.class = "peer_infos"
    BY <2>1, InfosByNumber
  <2>2. CASE e.class # "peer_infos"
    <3>1. A = {}
      BY <2>2 DEF PollsOf
    <3> QED BY <3>1, FS_EmptySet
  <2> QED BY <2>1, <2>2
<1> HIDE DEF A
<1>2. IsFiniteSet(IF IntroducesItself(e) THEN {e.agent} ELSE {})
  BY FS_Singleton, FS_EmptySet
<1>3. IsFiniteSet((IF IntroducesItself(e) THEN {e.agent} ELSE {}) \cup A)
  BY <1>1, <1>2, FS_Union
<1> QED BY <1>3 DEF OfferedBy, A

LEMMA OfferedGrows ==
  ASSUME LogInv, NEW e \in archive, IngestEvent(e), IsFiniteSet(Offered(log))
  PROVE  /\ IsFiniteSet(Offered(log'))
         /\ NamesOffered(log) \subseteq NamesOffered(log')
         /\ \A agent \in OfferedBy(e) : agent # NoAgent => agent \in NamesOffered(log')
<1>1. /\ e \in AllEvents /\ Len(log) \in Nat
      /\ DOMAIN log = 1 .. Len(log) /\ DOMAIN log' = 1 .. Len(log) + 1
      /\ log'[Len(log) + 1] = e
      /\ \A i \in DOMAIN log : i \in DOMAIN log' /\ log'[i] = log[i]
  BY LogGrows
<1>2. Offered(log') = Offered(log) \cup OfferedBy(e)
  <2>1. \A i \in DOMAIN log' : i \in DOMAIN log \/ i = Len(log) + 1
    BY <1>1
  <2>2. Len(log) + 1 \in DOMAIN log'
    BY <1>1
  <2>3. \A x : x \in Offered(log') => x \in Offered(log) \/ x \in OfferedBy(e)
    BY <1>1, <2>1 DEF Offered
  <2>4. \A x : x \in Offered(log) \/ x \in OfferedBy(e) => x \in Offered(log')
    BY <1>1, <2>2 DEF Offered
  <2> QED BY <2>3, <2>4
<1>3. IsFiniteSet(OfferedBy(e))
  BY <1>1, OfferIsFinite
<1>4. IsFiniteSet(Offered(log'))
  BY <1>2, <1>3, FS_Union
<1> QED BY <1>2, <1>4 DEF NamesOffered

(* The least of some positions stays the least as one more comes. *)
LEMMA FirstStays ==
  ASSUME NEW n \in Nat, NEW S \in SUBSET (1 .. n)
  PROVE  /\ S # {} => Min(S) \in S /\ Min(S \cup {n + 1}) = Min(S)
         /\ Min({n + 1}) = n + 1
<1>1. Min({n + 1}) = n + 1
  BY LeastIsMin
<1>2. ASSUME S # {} PROVE Min(S) \in S /\ Min(S \cup {n + 1}) = Min(S)
  <2>1. S \in SUBSET Nat
    OBVIOUS
  <2>2. PICK m \in S : \A y \in S : m <= y
    BY <1>2, <2>1, LeastNat
  <2>3. Min(S) = m
    BY <2>1, <2>2, LeastIsMin
  <2>4. S \cup {n + 1} \in SUBSET Nat /\ m \in S \cup {n + 1} /\ m <= n + 1
    BY <2>1
  <2>5. \A y \in S \cup {n + 1} : m <= y
    BY <2>2, <2>4
  <2>6. Min(S \cup {n + 1}) = m
    BY <2>4, <2>5, LeastIsMin
  <2> QED BY <2>3, <2>6
<1> QED BY <1>1, <1>2

LEMMA IntroductionsGrow ==
  ASSUME LogInv, NEW e \in archive, IngestEvent(e), NEW p
  PROVE  /\ Introductions(p) \in SUBSET (1 .. Len(log))
         /\ Introductions(p)' = IF IntroducesItself(e) /\ e.peer = p
                                THEN Introductions(p) \cup {Len(log) + 1} ELSE Introductions(p)
<1>1. /\ Len(log) \in Nat
      /\ DOMAIN log = 1 .. Len(log) /\ DOMAIN log' = 1 .. Len(log) + 1
      /\ log'[Len(log) + 1] = e
      /\ \A i \in DOMAIN log : i \in DOMAIN log' /\ log'[i] = log[i]
  BY LogGrows
<1>2. /\ Of(p) \in SUBSET (1 .. Len(log))
      /\ Of(p)' = IF HasPeer(e) /\ e.peer = p THEN Of(p) \cup {Len(log) + 1} ELSE Of(p)
  BY OfGrows
<1>3. Introductions(p)' = {i \in Of(p)' : IntroducesItself(log'[i])}
  BY DEF Introductions, IntroducesItself
<1>4. Introductions(p) = {i \in Of(p) : IntroducesItself(log[i])}
  BY DEF Introductions, IntroducesItself
<1>5. \A i \in Of(p) : i # Len(log) + 1 /\ log'[i] = log[i]
  BY <1>1, <1>2
<1>6. IntroducesItself(e) => HasPeer(e)
  BY DEF IntroducesItself, HasPeer
<1>7. CASE IntroducesItself(e) /\ e.peer = p
  BY <1>1, <1>2, <1>3, <1>4, <1>5, <1>6, <1>7
<1>8. CASE ~(IntroducesItself(e) /\ e.peer = p)
  <2>1. \A i \in Of(p)' : IntroducesItself(log'[i]) => i \in Of(p)
    BY <1>1, <1>2, <1>8
  <2> QED BY <1>2, <1>3, <1>4, <1>5, <1>8, <2>1
<1> QED BY <1>2, <1>4, <1>7, <1>8

LEMMA PolledGrows ==
  ASSUME LogInv, NEW e \in archive, IngestEvent(e), NEW p
  PROVE  /\ Polled(p) \in SUBSET (1 .. Len(log))
         /\ Of(p) # {} => Polled(p)' = IF PollNamesIt(e, p) THEN Polled(p) \cup {Len(log) + 1}
                                       ELSE Polled(p)
         /\ Of(p) = {} /\ Of(p)' # {} => Polled(p)' = {} /\ Introductions(p) = {}
<1> DEFINE n == Len(log)
<1>1. /\ n \in Nat
      /\ DOMAIN log = 1 .. n /\ DOMAIN log' = 1 .. n + 1
      /\ log'[n + 1] = e
      /\ \A i \in DOMAIN log : i \in DOMAIN log' /\ log'[i] = log[i]
  BY LogGrows
<1>2. /\ Of(p) \in SUBSET (1 .. n)
      /\ Of(p)' = IF HasPeer(e) /\ e.peer = p THEN Of(p) \cup {n + 1} ELSE Of(p)
  BY OfGrows
<1>3. Polled(p)' = {i \in DOMAIN log' : i > Min(Of(p)') /\ PollNamesIt(log'[i], p)}
  BY DEF Polled, Polls, PollNamesIt, PollsOf, Min
<1>4. Polled(p) = {i \in DOMAIN log : i > Min(Of(p)) /\ PollNamesIt(log[i], p)}
  BY DEF Polled, Polls, PollNamesIt, PollsOf
<1>5. Polled(p) \in SUBSET (1 .. n)
  BY <1>1, <1>4
<1> HIDE DEF n
<1>6. ASSUME Of(p) # {} PROVE Polled(p)' = IF PollNamesIt(e, p) THEN Polled(p) \cup {n + 1} ELSE Polled(p)
  <2> DEFINE m == Min(Of(p))
  <2>1. m \in Of(p) /\ Min(Of(p) \cup {n + 1}) = m /\ m \in 1 .. n
    BY <1>1, <1>2, <1>6, FirstStays
  <2>2. Min(Of(p)') = m
    BY <1>2, <2>1
  <2> HIDE DEF m
  <2>3. Polled(p)' = {i \in 1 .. n + 1 : i > m /\ PollNamesIt(log'[i], p)}
    BY <1>1, <1>3, <2>2
  <2>4. Polled(p) = {i \in 1 .. n : i > m /\ PollNamesIt(log[i], p)}
    BY <1>1, <1>4 DEF m
  <2>5. n + 1 > m /\ 1 .. n + 1 = 1 .. n \cup {n + 1} /\ n + 1 \notin 1 .. n
    BY <1>1, <2>1
  <2>6. \A i \in 1 .. n : log'[i] = log[i]
    BY <1>1
  <2> QED BY <1>1, <2>3, <2>4, <2>5, <2>6
<1>7. ASSUME Of(p) = {}, Of(p)' # {} PROVE Polled(p)' = {} /\ Introductions(p) = {}
  <2>1. Of(p)' = {n + 1}
    BY <1>2, <1>7
  <2>2. Min(Of(p)') = n + 1
    BY <1>1, <1>2, <2>1, FirstStays
  <2>3. Polled(p)' = {}
    BY <1>1, <1>3, <2>2
  <2> QED BY <1>7, <2>3 DEF Introductions
<1> QED BY <1>5, <1>6, <1>7 DEF n

-----------------------------------------------------------------------------
(***************************************************************************)
(* What an event does to the names of the table.                           *)
(***************************************************************************)
Renamed(t, u, e, S, p) ==
  LET old == RecordBefore(t, p)
  IN IF IntroducesItself(e) /\ e.peer = p /\ old.source # "version"
     THEN EnoughIds(S) => Calls(u.peers[p], u.agents, "version", e.agent)
     ELSE IF PollNamesIt(e, p) /\ old.agent = 0 /\ p \in DOMAIN t.peers
     THEN EnoughIds(S) => \E info \in PollsOf(e) :
                            info.peer = p /\ Calls(u.peers[p], u.agents, "getpeerinfo", info.agent)
     ELSE SameName(u.peers[p], old)

LEMMA SoundInMore ==
  ASSUME NEW t, NEW S, NEW U, S \subseteq U, NamesSound(t, S)
  PROVE  NamesSound(t, U)
<1>1. t.agents \in Seq(S)
  BY DEF NamesSound
<1>2. t.agents \in Seq(U)
  <2>1. Len(t.agents) \in Nat /\ t.agents \in [1 .. Len(t.agents) -> S]
    BY <1>1, LenProperties
  <2>2. t.agents \in [1 .. Len(t.agents) -> U]
    BY <2>1
  <2> QED BY <2>1, <2>2, SeqDef
<1> QED BY <1>2 DEF NamesSound

(* Nothing was renamed. *)
LEMMA KeptNamesSound ==
  ASSUME NEW t, NEW u, NEW S, NamesSound(t, S), KeepsNames(t, u)
  PROVE  /\ NamesSound(u, S) /\ Extends(t.agents, u.agents)
         /\ \A p \in DOMAIN u.peers : SameName(u.peers[p], RecordBefore(t, p))
<1>1. t.agents \in Seq(S) /\ Len(t.agents) \in Nat /\ u.agents = t.agents
  BY LenProperties DEF NamesSound, KeepsNames
<1>2. \A p \in DOMAIN u.peers : SameName(u.peers[p], RecordBefore(t, p))
  BY DEF KeepsNames, RecordBefore
<1>3. \A p : NameSound(RecordBefore(t, p), t.agents)
  <2> TAKE p
  <2>1. CASE p \in DOMAIN t.peers
    BY <2>1 DEF RecordBefore, NamesSound
  <2>2. CASE p \notin DOMAIN t.peers
    <3>1. RecordBefore(t, p).agent = 0 /\ RecordBefore(t, p).source = "none"
      BY <2>2 DEF RecordBefore, NewPeer
    <3> QED BY <1>1, <3>1 DEF NameSound
  <2> QED BY <2>1, <2>2
<1>4. \A p \in DOMAIN u.peers : NameSound(u.peers[p], u.agents)
  BY <1>1, <1>2, <1>3 DEF NameSound, SameName
<1>5. Extends(t.agents, u.agents)
  BY <1>1 DEF Extends
<1> QED BY <1>1, <1>2, <1>4, <1>5 DEF NamesSound

LEMMA TableNamed ==
  ASSUME NEW t, IsTable(t), NEW e \in AllEvents, NEW kind, NEW S, NamesSound(t, S),
         \A agent \in OfferedBy(e) : agent # NoAgent => agent \in S
  PROVE  LET u == TableAfter(t, e, kind)
         IN /\ NamesSound(u, S) /\ Extends(t.agents, u.agents)
            /\ \A p \in DOMAIN u.peers : Renamed(t, u, e, S, p)
<1> DEFINE u == TableAfter(t, e, kind)
<1>1. CASE e.class = "message"
  <2> DEFINE x == Entered(t, e)
  <2>1. u = RecordMessage(t, e, kind)
    BY <1>1 DEF TableAfter
  <2>2. IsTable(u) /\ HasEntry(t, e.peer, u) /\ MessageNames(t, e, u)
    BY <2>1, MessageRecorded
  <2>3. IsTable(x) /\ HasEntry(t, e.peer, x) /\ KeepsNames(t, x)
    BY EntryMade DEF Entered
  <2> HIDE DEF u, x
  <2>4. /\ NamesSound(x, S) /\ Extends(t.agents, x.agents)
        /\ \A p \in DOMAIN x.peers : SameName(x.peers[p], RecordBefore(t, p))
    BY <2>3, KeptNamesSound
  <2>5. e.peer \in DOMAIN x.peers
    BY <2>3 DEF HasEntry
  <2>6. \A p : ~PollNamesIt(e, p)
    BY <1>1 DEF PollNamesIt, PollsOf
  <2>7. CASE Introduces(e) /\ Takes(x, e.peer, e.agent, "version")
    <3>1. IsNamed(x, e.peer, e.agent, "version", u)
      BY <2>2, <2>7 DEF MessageNames, x
    <3>2. e.agent # NoAgent /\ MayName(x.peers[e.peer], "version")
          /\ Contains(Interned(x.agents, e.agent), e.agent)
      BY <2>7 DEF Takes
    <3>3. IntroducesItself(e)
      BY <1>1, <2>7, <3>2 DEF Introduces, IntroducesItself
    <3>4. e.agent \in S
      BY <3>2, <3>3 DEF OfferedBy
    <3> DEFINE v == RecordUserAgent(x, e.peer, e.agent, "version")
    <3>5. /\ NamesSound(v, S) /\ Extends(x.agents, v.agents)
          /\ OnlyRenames(x, v) /\ IsNamed(x, e.peer, e.agent, "version", v)
      BY <2>3, <2>4, <2>7, <3>4, NamingSound, UserAgentRecorded
    <3> HIDE DEF v
    <3>6. DOMAIN u.peers = DOMAIN x.peers /\ DOMAIN v.peers = DOMAIN x.peers
      BY <2>2, <2>3, <3>5 DEF HasEntry, OnlyRenames
    <3>7. u.agents = v.agents /\ \A p \in DOMAIN u.peers : SameName(u.peers[p], v.peers[p])
      <4>1. u.agents = v.agents
        BY <3>1, <3>5 DEF IsNamed
      <4>2. SameName(u.peers[e.peer], v.peers[e.peer])
        <5>1. /\ u.peers[e.peer].agent = CHOOSE i \in DOMAIN u.agents : u.agents[i] = e.agent
              /\ u.peers[e.peer].source = "version"
          BY <3>1 DEF IsNamed
        <5>2. /\ v.peers[e.peer].agent = CHOOSE i \in DOMAIN v.agents : v.agents[i] = e.agent
              /\ v.peers[e.peer].source = "version"
          BY <3>5 DEF IsNamed
        <5>3. u.peers[e.peer].agent = CHOOSE i \in DOMAIN v.agents : v.agents[i] = e.agent
          BY <4>1, <5>1
        <5> QED BY <5>1, <5>2, <5>3 DEF SameName
      <4>3. \A p \in DOMAIN x.peers \ {e.peer} :
              SameName(u.peers[p], x.peers[p]) /\ SameName(v.peers[p], x.peers[p])
        BY <3>1, <3>5 DEF IsNamed
      <4> QED BY <3>6, <4>1, <4>2, <4>3 DEF SameName
    <3>8. NamesSound(u, S)
      BY <3>5, <3>6, <3>7 DEF NamesSound, NameSound, SameName
    <3>9. Extends(t.agents, u.agents)
      <4>1. t.agents = x.agents
        BY <2>3 DEF KeepsNames
      <4> QED BY <3>5, <3>7, <4>1
    <3>10. Calls(u.peers[e.peer], u.agents, "version", e.agent)
      <4>1. u.agents = Interned(x.agents, e.agent)
        BY <3>1 DEF IsNamed
      <4>2. u.agents \in Seq(S)
        BY <3>8 DEF NamesSound
      <4>3. \E i \in DOMAIN u.agents : u.agents[i] = e.agent
        <5>1. DOMAIN u.agents = 1 .. Len(u.agents)
          BY <4>2, LenProperties
        <5> QED BY <3>2, <4>1, <5>1 DEF Contains
      <4> DEFINE i == CHOOSE i \in DOMAIN u.agents : u.agents[i] = e.agent
      <4>4. u.agents[i] = e.agent
        BY <4>3
      <4>5. u.peers[e.peer].agent = i /\ u.peers[e.peer].source = "version"
        BY <3>1 DEF IsNamed
      <4> HIDE DEF i
      <4> QED BY <4>4, <4>5 DEF Calls
    <3>11. MayName(x.peers[e.peer], "version") => RecordBefore(t, e.peer).source # "version"
      <4>1. NameSound(x.peers[e.peer], x.agents)
        BY <2>4, <2>5 DEF NamesSound
      <4>2. SameName(x.peers[e.peer], RecordBefore(t, e.peer))
        BY <2>4, <2>5
      <4> QED BY <4>1, <4>2 DEF MayName, NameSound, SameName
    <3>12. \A p \in DOMAIN u.peers : Renamed(t, u, e, S, p)
      <4> TAKE p \in DOMAIN u.peers
      <4>1. CASE p = e.peer
        BY <3>2, <3>3, <3>10, <3>11, <4>1 DEF Renamed
      <4>2. CASE p # e.peer
        <5>1. SameName(u.peers[p], x.peers[p])
          BY <3>1, <3>6, <4>2 DEF IsNamed
        <5>2. SameName(u.peers[p], RecordBefore(t, p))
          BY <2>4, <3>6, <5>1 DEF SameName
        <5> QED BY <2>6, <4>2, <5>2 DEF Renamed
      <4> QED BY <4>1, <4>2
    <3> QED BY <3>8, <3>9, <3>12 DEF u
  <2>8. CASE ~(Introduces(e) /\ Takes(x, e.peer, e.agent, "version"))
    <3>1. KeepsNames(t, u)
      BY <2>2, <2>8 DEF MessageNames, x
    <3>2. /\ NamesSound(u, S) /\ Extends(t.agents, u.agents)
          /\ \A p \in DOMAIN u.peers : SameName(u.peers[p], RecordBefore(t, p))
      BY <3>1, KeptNamesSound
    <3>3. ~(IntroducesItself(e) /\ RecordBefore(t, e.peer).source # "version" /\ EnoughIds(S))
      <4> SUFFICES ASSUME IntroducesItself(e), RecordBefore(t, e.peer).source # "version", EnoughIds(S)
                   PROVE  FALSE
        OBVIOUS
      <4>1. Introduces(e) /\ e.agent # NoAgent /\ e.agent \in S
        BY DEF IntroducesItself, Introduces, OfferedBy
      <4>2. x.peers[e.peer].source # "version"
        BY <2>4, <2>5 DEF SameName
      <4>3. MayName(x.peers[e.peer], "version")
        BY <4>2 DEF MayName
      <4>4. Contains(Interned(x.agents, e.agent), e.agent)
        <5>1. /\ x.agents \in Seq(S)
              /\ \A i, j \in 1 .. Len(x.agents) : x.agents[i] = x.agents[j] => i = j
          BY <2>4 DEF NamesSound
        <5> QED BY <4>1, <5>1, RoomForName
      <4> QED BY <2>5, <2>8, <4>1, <4>3, <4>4 DEF Takes
    <3>4. \A p \in DOMAIN u.peers : Renamed(t, u, e, S, p)
      BY <2>6, <3>2, <3>3 DEF Renamed
    <3> QED BY <3>2, <3>4 DEF u
  <2> QED BY <2>7, <2>8
<1>2. CASE e.class = "connection" \/ e.class = "other"
  <2>1. KeepsNames(t, u)
    <3>1. CASE e.class = "connection" /\ e.kind # "none"
      <4>1. u = RecordConnection(t, e)
        BY <3>1 DEF TableAfter
      <4> QED BY <3>1, <4>1, ConnectionRecorded
    <3>2. CASE ~(e.class = "connection" /\ e.kind # "none")
      <4>1. u = t
        BY <1>2, <3>2 DEF TableAfter, RecordConnection
      <4> QED BY <4>1 DEF KeepsNames, SameName
    <3> QED BY <3>1, <3>2
  <2>2. ~IntroducesItself(e) /\ \A p : ~PollNamesIt(e, p)
    BY <1>2 DEF IntroducesItself, PollNamesIt, PollsOf
  <2> HIDE DEF u
  <2>3. /\ NamesSound(u, S) /\ Extends(t.agents, u.agents)
        /\ \A p \in DOMAIN u.peers : SameName(u.peers[p], RecordBefore(t, p))
    BY <2>1, KeptNamesSound
  <2>4. \A p \in DOMAIN u.peers : Renamed(t, u, e, S, p)
    BY <2>2, <2>3 DEF Renamed
  <2> QED BY <2>3, <2>4 DEF u
<1>3. CASE e.class = "peer_infos"
  <2> DEFINE infos == e.infos
  <2>1. u = NamePolled(t, infos)
    BY <1>3 DEF TableAfter
  <2>2. /\ Len(infos) \in Nat
        /\ PollsOf(e) = {infos[j] : j \in 1 .. Len(infos)}
        /\ \A j \in 1 .. Len(infos) : infos[j].agent \in OfferedBy(e)
        /\ \A p : PollNamesIt(e, p) <=> HeardOf(infos, Len(infos), p)
    BY <1>3, InfosByNumber
  <2>3. \A j \in 1 .. Len(infos) : infos[j].agent # NoAgent => infos[j].agent \in S
    BY <2>2
  <2> HIDE DEF infos, u
  <2>4. /\ NamesSound(u, S) /\ Extends(t.agents, u.agents)
        /\ \A q \in DOMAIN t.peers : NamedByPoll(t, u, infos, Len(infos), S, q)
    BY <2>1, <2>2, <2>3, PollNames
  <2>5. DOMAIN u.peers = DOMAIN t.peers
    BY <2>1, <2>2, PollRenames DEF OnlyRenames
  <2>6. ~IntroducesItself(e)
    BY <1>3 DEF IntroducesItself
  <2>7. \A p \in DOMAIN u.peers : Renamed(t, u, e, S, p)
    <3> TAKE p \in DOMAIN u.peers
    <3>1. p \in DOMAIN t.peers /\ RecordBefore(t, p) = t.peers[p]
      BY <2>5 DEF RecordBefore
    <3>2. NamedByPoll(t, u, infos, Len(infos), S, p)
      BY <2>4, <3>1
    <3>3. CASE PollNamesIt(e, p) /\ t.peers[p].agent = 0
      <4>1. EnoughIds(S) => CalledAsHeard(infos, Len(infos), p, u)
        BY <2>2, <3>2, <3>3 DEF NamedByPoll
      <4>2. EnoughIds(S) => \E info \in PollsOf(e) :
                              info.peer = p /\ Calls(u.peers[p], u.agents, "getpeerinfo", info.agent)
        BY <2>2, <4>1 DEF CalledAsHeard
      <4> QED BY <2>6, <3>1, <3>3, <4>2 DEF Renamed
    <3>4. CASE ~(PollNamesIt(e, p) /\ t.peers[p].agent = 0)
      <4>1. SameName(u.peers[p], t.peers[p])
        BY <2>2, <3>2, <3>4 DEF NamedByPoll
      <4> QED BY <2>6, <3>1, <3>4, <4>1 DEF Renamed
    <3> QED BY <3>3, <3>4
  <2> QED BY <2>4, <2>7 DEF u
<1> QED BY <1>1, <1>2, <1>3, EventIs

-----------------------------------------------------------------------------
(***************************************************************************)
(* A peer's name is the right one: that of its first introduction, or else *)
(* of the first poll to name it once known, or else none.  The             *)
(* introductions and the polls are given by their places in the log.       *)
(***************************************************************************)
NameRight(peer, p, agents, intro, polled, events) ==
  IF intro # {} THEN Calls(peer, agents, "version", events[Min(intro)].agent)
  ELSE IF polled # {}
  THEN \E info \in PollsOf(events[Min(polled)]) :
         info.peer = p /\ Calls(peer, agents, "getpeerinfo", info.agent)
  ELSE peer.agent = 0

(* It is the right one after every event. *)
LEMMA NameStaysRight ==
  ASSUME NEW t, NEW u, NEW e, NEW S, EnoughIds(S), NEW p,
         Renamed(t, u, e, S, p),
         NameSound(RecordBefore(t, p), t.agents),
         Len(t.agents) \in Nat, Extends(t.agents, u.agents),
         NEW n \in Nat, NEW old, NEW new,
         new[n + 1] = e, \A i \in 1 .. n : new[i] = old[i],
         NEW I \in SUBSET (1 .. n), NEW P \in SUBSET (1 .. n),
         NEW I2, I2 = (IF IntroducesItself(e) /\ e.peer = p THEN I \cup {n + 1} ELSE I),
         NEW P2, P2 = (IF PollNamesIt(e, p) /\ p \in DOMAIN t.peers THEN P \cup {n + 1} ELSE P),
         NameRight(RecordBefore(t, p), p, t.agents, I, P, old)
  PROVE  NameRight(u.peers[p], p, u.agents, I2, P2, new)
<1> DEFINE r == RecordBefore(t, p)
           s == u.peers[p]
<1>1. NameSound(r, t.agents)
  OBVIOUS
<1>2. NameRight(r, p, t.agents, I, P, old)
  OBVIOUS
<1>3. /\ I # {} => Min(I) \in 1 .. n /\ Min(I \cup {n + 1}) = Min(I)
      /\ P # {} => Min(P) \in 1 .. n /\ Min(P \cup {n + 1}) = Min(P)
      /\ Min({n + 1}) = n + 1
  BY FirstStays
<1>4. ~(IntroducesItself(e) /\ PollNamesIt(e, p))
  BY DEF IntroducesItself, PollNamesIt, PollsOf
<1> HIDE DEF r, s
<1>5. /\ I # {} => r.source = "version"
      /\ I = {} /\ P # {} => r.source = "getpeerinfo"
      /\ I = {} /\ P = {} => r.agent = 0
      /\ r.agent = 0 <=> r.source = "none"
  BY <1>1, <1>2 DEF NameRight, Calls, NameSound
<1>6. ASSUME SameName(s, r),
             IntroducesItself(e) /\ e.peer = p => I # {},
             PollNamesIt(e, p) /\ p \in DOMAIN t.peers => I # {} \/ P # {}
      PROVE  NameRight(s, p, u.agents, I2, P2, new)
  <2>1. \A source, name : source # "none" /\ Calls(r, t.agents, source, name)
                            => Calls(s, u.agents, source, name)
    BY <1>1, <1>6, NameStays
  <2>2. CASE I # {}
    <3>1. I2 # {} /\ Min(I2) = Min(I) /\ Min(I) \in 1 .. n
      BY <1>3, <2>2
    <3>2. Calls(r, t.agents, "version", old[Min(I)].agent)
      BY <1>2, <2>2 DEF NameRight
    <3>3. new[Min(I2)] = old[Min(I)]
      BY <3>1
    <3>4. Calls(s, u.agents, "version", new[Min(I2)].agent)
      BY <2>1, <3>2, <3>3
    <3> QED BY <3>1, <3>4 DEF NameRight
  <2>3. CASE I = {} /\ P # {}
    <3>1. I2 = {} /\ P2 # {} /\ Min(P2) = Min(P) /\ Min(P) \in 1 .. n
      BY <1>3, <1>6, <2>3
    <3>2. PICK info \in PollsOf(old[Min(P)]) :
            info.peer = p /\ Calls(r, t.agents, "getpeerinfo", info.agent)
      BY <1>2, <2>3 DEF NameRight
    <3>3. new[Min(P2)] = old[Min(P)]
      BY <3>1
    <3>4. info \in PollsOf(new[Min(P2)]) /\ Calls(s, u.agents, "getpeerinfo", info.agent)
      BY <2>1, <3>2, <3>3
    <3> QED BY <3>1, <3>2, <3>4 DEF NameRight
  <2>4. CASE I = {} /\ P = {}
    <3>1. I2 = {} /\ P2 = {}
      BY <1>6, <2>4
    <3>2. s.agent = 0
      BY <1>5, <1>6, <2>4 DEF SameName
    <3> QED BY <3>1, <3>2 DEF NameRight
  <2> QED BY <2>2, <2>3, <2>4
<1>7. CASE IntroducesItself(e) /\ e.peer = p /\ r.source # "version"
  <2>1. Calls(s, u.agents, "version", e.agent)
    BY <1>7 DEF Renamed, r, s
  <2>2. I2 = {n + 1}
    BY <1>5, <1>7
  <2>3. Min(I2) = n + 1
    BY <1>3, <2>2
  <2>4. new[Min(I2)] = e
    BY <2>3
  <2> QED BY <2>1, <2>2, <2>4 DEF NameRight, s
<1>8. CASE PollNamesIt(e, p) /\ r.agent = 0 /\ p \in DOMAIN t.peers
  <2>1. ~(IntroducesItself(e) /\ e.peer = p)
    BY <1>4, <1>8
  <2>2. PICK info \in PollsOf(e) : info.peer = p /\ Calls(s, u.agents, "getpeerinfo", info.agent)
    BY <1>8, <2>1 DEF Renamed, r, s
  <2>3. I2 = {} /\ P2 = {n + 1}
    BY <1>5, <1>8, <2>1
  <2>4. Min(P2) = n + 1
    BY <1>3, <2>3
  <2>5. new[Min(P2)] = e
    BY <2>4
  <2> QED BY <2>2, <2>3, <2>5 DEF NameRight, s
<1>9. CASE /\ ~(IntroducesItself(e) /\ e.peer = p /\ r.source # "version")
           /\ ~(PollNamesIt(e, p) /\ r.agent = 0 /\ p \in DOMAIN t.peers)
  <2>1. SameName(s, r)
    BY <1>9 DEF Renamed, r, s
  <2>2. IntroducesItself(e) /\ e.peer = p => I # {}
    BY <1>5, <1>9
  <2>3. PollNamesIt(e, p) /\ p \in DOMAIN t.peers => I # {} \/ P # {}
    BY <1>5, <1>9
  <2> QED BY <1>6, <2>1, <2>2, <2>3 DEF s
<1> QED BY <1>7, <1>8, <1>9

(***************************************************************************)
(* The inductive invariant: as long as there is an id for every name ever  *)
(* offered, every peer's name is the right one.                            *)
(***************************************************************************)
NamesInv ==
  /\ IsFiniteSet(DOMAIN table.peers) /\ IsFiniteSet(Offered(log))
  /\ NamesSound(table, NamesOffered(log))
  /\ EnoughIds(NamesOffered(log)) =>
       \A p \in DOMAIN table.peers :
         NameRight(table.peers[p], p, table.agents, Introductions(p), Polled(p), log)

LEMMA NamesStep ==
  ASSUME TableInv, NamesInv, NEW e \in archive, IngestEvent(e)
  PROVE  NamesInv'
<1> DEFINE id == KindId(Intern(kinds, KindOf(e)), KindOf(e))
           t == table
           u == table'
           n == Len(log)
           S == NamesOffered(log)
           S2 == NamesOffered(log')
<1>1. LogInv /\ PeersInv
  BY DEF TableInv
<1>2. /\ e \in AllEvents
      /\ n \in Nat
      /\ DOMAIN log = 1 .. n /\ DOMAIN log' = 1 .. n + 1
      /\ log'[n + 1] = e
      /\ \A i \in DOMAIN log : i \in DOMAIN log' /\ log'[i] = log[i]
  BY <1>1, LogGrows
<1>3. u = TableAfter(t, e, id) /\ IsTable(t)
  BY <1>1 DEF IngestEvent, PeersInv
<1>4. /\ IsFiniteSet(Offered(log')) /\ S \subseteq S2
      /\ \A agent \in OfferedBy(e) : agent # NoAgent => agent \in S2
  BY <1>1, OfferedGrows DEF NamesInv
<1>5. NamesSound(t, S) /\ NamesSound(t, S2)
  BY <1>4, SoundInMore DEF NamesInv
<1>6. DOMAIN u.peers = IF HasPeer(e) THEN DOMAIN t.peers \cup {e.peer} ELSE DOMAIN t.peers
  <2> DEFINE v == TableAfter(t, e, id)
  <2> HIDE DEF id
  <2>1. IF HasPeer(e) THEN HasEntry(t, e.peer, v) ELSE DOMAIN v.peers = DOMAIN t.peers
    BY <1>2, <1>3, TableEntered
  <2> HIDE DEF v
  <2>2. DOMAIN v.peers = IF HasPeer(e) THEN DOMAIN t.peers \cup {e.peer} ELSE DOMAIN t.peers
    BY <2>1 DEF HasEntry
  <2> QED BY <1>3, <2>2 DEF v
<1>7. IsFiniteSet(DOMAIN u.peers)
  <2>1. IsFiniteSet(DOMAIN t.peers)
    BY DEF NamesInv
  <2>2. IsFiniteSet(DOMAIN t.peers \cup {e.peer})
    BY <2>1, FS_AddElement
  <2> QED BY <1>6, <2>1, <2>2
<1>8. /\ NamesSound(u, S2) /\ Extends(t.agents, u.agents)
      /\ \A p \in DOMAIN u.peers : Renamed(t, u, e, S2, p)
  <2> HIDE DEF id, S2
  <2> QED BY <1>2, <1>3, <1>4, <1>5, TableNamed
<1>9. ASSUME EnoughIds(S2), NEW p \in DOMAIN u.peers
      PROVE  NameRight(u.peers[p], p, u.agents, Introductions(p)', Polled(p)', log')
  <2> DEFINE r == RecordBefore(t, p)
             I == Introductions(p)
             P == IF p \in DOMAIN t.peers THEN Polled(p) ELSE {}
             I2 == Introductions(p)'
             P2 == Polled(p)'
  <2>1. p \in DOMAIN t.peers <=> Of(p) # {}
    BY <1>1 DEF PeersInv, Of
  <2>2. p \notin DOMAIN t.peers => Of(p)' # {}
    <3>1. Of(p)' = IF HasPeer(e) /\ e.peer = p THEN Of(p) \cup {n + 1} ELSE Of(p)
      BY <1>1, OfGrows
    <3> QED BY <1>6, <1>9, <3>1
  <2>3. /\ I \in SUBSET (1 .. n)
        /\ I2 = IF IntroducesItself(e) /\ e.peer = p THEN I \cup {n + 1} ELSE I
    BY <1>1, IntroductionsGrow
  <2>4. /\ P \in SUBSET (1 .. n)
        /\ P2 = IF PollNamesIt(e, p) /\ p \in DOMAIN t.peers THEN P \cup {n + 1} ELSE P
        /\ p \notin DOMAIN t.peers => I = {}
    <3>1. /\ Polled(p) \in SUBSET (1 .. n)
          /\ Of(p) # {} => P2 = IF PollNamesIt(e, p) THEN Polled(p) \cup {n + 1} ELSE Polled(p)
          /\ Of(p) = {} /\ Of(p)' # {} => P2 = {} /\ I = {}
      BY <1>1, PolledGrows
    <3> HIDE DEF I, P2
    <3>2. CASE p \in DOMAIN t.peers
      BY <2>1, <3>1, <3>2
    <3>3. CASE p \notin DOMAIN t.peers
      BY <2>1, <2>2, <3>1, <3>3
    <3> QED BY <3>2, <3>3
  <2>5. EnoughIds(S)
    <3> HIDE DEF S, S2
    <3>1. IsFiniteSet(S2) /\ Cardinality(S2) <= MaxAgents
      BY <1>9 DEF EnoughIds
    <3>2. IsFiniteSet(S) /\ Cardinality(S) <= Cardinality(S2)
      BY <1>4, <3>1, FS_Subset
    <3>3. Cardinality(S) \in Nat /\ Cardinality(S2) \in Nat /\ MaxAgents \in Nat
      BY <3>1, <3>2, FS_CardinalityType, PeerTableAssumption
    <3> QED BY <3>1, <3>2, <3>3 DEF EnoughIds
  <2>6. NameRight(r, p, t.agents, I, P, log)
    <3> HIDE DEF I
    <3>1. CASE p \in DOMAIN t.peers
      <4>1. NameRight(t.peers[p], p, t.agents, I, Polled(p), log)
        BY <2>5, <3>1 DEF NamesInv, I
      <4>2. r = t.peers[p]
        BY <3>1 DEF RecordBefore
      <4> QED BY <3>1, <4>1, <4>2
    <3>2. CASE p \notin DOMAIN t.peers
      <4>1. r.agent = 0
        BY <3>2 DEF RecordBefore, NewPeer
      <4>2. I = {} /\ P = {}
        BY <2>4, <3>2
      <4> QED BY <4>1, <4>2 DEF NameRight
    <3> QED BY <3>1, <3>2
  <2>7. Len(t.agents) \in Nat
    <3>1. t.agents \in Seq(S)
      BY <1>5 DEF NamesSound
    <3> QED BY <3>1, LenProperties
  <2>8. NameSound(r, t.agents)
    <3>1. CASE p \in DOMAIN t.peers
      BY <1>5, <3>1 DEF RecordBefore, NamesSound
    <3>2. CASE p \notin DOMAIN t.peers
      <4>1. r.agent = 0 /\ r.source = "none"
        BY <3>2 DEF RecordBefore, NewPeer
      <4> QED BY <2>7, <4>1 DEF NameSound
    <3> QED BY <3>1, <3>2
  <2>9. Renamed(t, u, e, S2, p) /\ Extends(t.agents, u.agents)
    BY <1>8
  <2>10. log'[n + 1] = e /\ \A i \in 1 .. n : log'[i] = log[i]
    BY <1>2
  <2> DEFINE new == log'
  <2>11. new[n + 1] = e /\ \A i \in 1 .. n : new[i] = log[i]
    BY <2>10
  <2> HIDE DEF I, P, I2, P2, S2, S, r, new
  <2>12. NameRight(u.peers[p], p, u.agents, I2, P2, new)
    BY <1>2, <1>9, <2>3, <2>4, <2>6, <2>7, <2>8, <2>9, <2>11, NameStaysRight DEF r
  <2> QED BY <2>12 DEF I2, P2, new
<1>10. EnoughIds(S2) =>
         \A p \in DOMAIN u.peers :
           NameRight(u.peers[p], p, u.agents, Introductions(p)', Polled(p)', log')
  <2> HIDE DEF S2
  <2> QED BY <1>9
<1>11. NamesInv' = (/\ IsFiniteSet(DOMAIN u.peers) /\ IsFiniteSet(Offered(log'))
                    /\ NamesSound(u, S2)
                    /\ EnoughIds(S2) =>
                         \A p \in DOMAIN u.peers :
                           NameRight(u.peers[p], p, u.agents, Introductions(p)', Polled(p)', log'))
  BY DEF NamesInv, NamesOffered, Offered, OfferedBy, IntroducesItself, PollsOf, NamesSound, NameSound,
         EnoughIds, NameRight, Calls
<1> QED BY <1>4, <1>7, <1>8, <1>10, <1>11

-----------------------------------------------------------------------------
(* The chart of names shows every peer once. *)
LEMMA EveryPeerCharted ==
  ASSUME NamesInv
  PROVE  SumFunction(UserAgents.counts) + UserAgents.unknown = Cardinality(Known)
<1> DEFINE named == {p \in Known : PeerOf(p).agent # 0}
           n == Len(table.agents)
           a == [p \in named |-> PeerOf(p).agent]
           c == [i \in 1 .. n |-> Cardinality({p \in named : a[p] = i})]
<1>1. IsFiniteSet(Known) /\ IsFiniteSet(named) /\ Cardinality(Known) \in Nat
  BY FS_Subset, FS_CardinalityType DEF NamesInv, Known
<1>2. n \in Nat /\ DOMAIN table.agents = 1 .. n
  <2>1. table.agents \in Seq(NamesOffered(log))
    BY DEF NamesInv, NamesSound
  <2> QED BY <2>1, LenProperties
<1>3. \A p \in named : a[p] \in 1 .. n
  BY <1>2 DEF NamesInv, NamesSound, NameSound, Known, PeerOf
<1>4. UserAgents.unknown = Cardinality(Known) - Cardinality(named)
  BY DEF UserAgents
<1>5. UserAgents.counts = c
  <2>1. UserAgents.counts
          = [i \in DOMAIN table.agents |-> Cardinality({p \in named : PeerOf(p).agent = i})]
    BY DEF UserAgents
  <2>2. \A i : {p \in named : PeerOf(p).agent = i} = {p \in named : a[p] = i}
    OBVIOUS
  <2> HIDE DEF named, a
  <2> QED BY <1>2, <2>1, <2>2
<1>6. Cardinality(named) \in Nat
  BY <1>1, FS_CardinalityType
<1> HIDE DEF named, a
<1>7. SumFunctionOnSet(c, 1 .. n) = Cardinality(named)
  <2>1. IsFiniteSet(1 .. n)
    BY <1>2, FS_Interval
  <2>2. \A i \in 1 .. n : c[i] = Cardinality({p \in named : a[p] = i})
    OBVIOUS
  <2>3. Sorts(named, a, 1 .. n, c)
    BY <1>1, <1>3, <2>1, <2>2 DEF Sorts
  <2> QED BY <2>3, CountedByValue
<1>8. DOMAIN c = 1 .. n
  OBVIOUS
<1> HIDE DEF c
<1> QED BY <1>1, <1>4, <1>5, <1>6, <1>7, <1>8 DEF SumFunction

(* The names offered, told by the introductions of the peers known. *)
LEMMA OfferedAre ==
  ASSUME PeersInv
  PROVE  AgentsOffered = Offered(log)
<1>1. \A i \in DOMAIN log :
        IntroducesItself(log[i]) =>
          log[i].peer \in Known /\ i \in Introductions(log[i].peer)
  BY DEF PeersInv, Known, Introductions, IntroducesItself, Of, HasPeer
<1>2. \A p : \A i \in Introductions(p) : i \in DOMAIN log /\ IntroducesItself(log[i])
  BY DEF Introductions, IntroducesItself, Of
<1>3. \A i : Polls(i) = PollsOf(log[i])
  BY DEF Polls, PollsOf
<1>4. ASSUME NEW x \in AgentsOffered PROVE x \in Offered(log)
  <2>1. CASE x \in {log[i].agent : i \in UNION {Introductions(p) : p \in Known}}
    <3>1. PICK p \in Known : \E i \in Introductions(p) : x = log[i].agent
      BY <2>1
    <3>2. PICK i \in Introductions(p) : x = log[i].agent
      BY <3>1
    <3>3. i \in DOMAIN log /\ x \in OfferedBy(log[i])
      BY <1>2, <3>2 DEF OfferedBy
    <3> QED BY <3>3 DEF Offered
  <2>2. CASE x \in UNION {{info.agent : info \in Polls(i)} : i \in DOMAIN log}
    <3>1. PICK i \in DOMAIN log : x \in {info.agent : info \in Polls(i)}
      BY <2>2
    <3>2. x \in OfferedBy(log[i])
      BY <1>3, <3>1 DEF OfferedBy
    <3> QED BY <3>2 DEF Offered
  <2> QED BY <2>1, <2>2 DEF AgentsOffered
<1>5. ASSUME NEW x \in Offered(log) PROVE x \in AgentsOffered
  <2>1. PICK i \in DOMAIN log : x \in OfferedBy(log[i])
    BY DEF Offered
  <2>2. CASE IntroducesItself(log[i]) /\ x = log[i].agent
    <3>1. i \in UNION {Introductions(p) : p \in Known}
      BY <1>1, <2>2
    <3> QED BY <2>2, <3>1 DEF AgentsOffered
  <2>3. CASE x \in {info.agent : info \in PollsOf(log[i])}
    <3>1. x \in {info.agent : info \in Polls(i)}
      BY <1>3, <2>3
    <3> QED BY <3>1 DEF AgentsOffered
  <2> QED BY <2>1, <2>2, <2>3 DEF OfferedBy
<1> QED BY <1>4, <1>5

(***************************************************************************)
(* In every state of every session a peer goes by the name of its first    *)
(* inbound version, or else of the first poll to name it once known        *)
(* (peers.rs, record_user_agent), so long as there are ids for the names;  *)
(* only its own events make a peer known; and the chart of names shows     *)
(* every peer once (view.rs, user_agents).                                 *)
(***************************************************************************)
THEOREM NamesAreFirstHand == Spec => []FirstHandAgentWins
<1>1. Init => NamesInv
  <2> SUFFICES ASSUME Init PROVE NamesInv
    OBVIOUS
  <2>1. DOMAIN table.peers = {} /\ table.agents = <<>> /\ log = <<>>
    BY DEF Init, NewTable
  <2>2. Offered(log) = {}
    BY <2>1 DEF Offered
  <2>3. NamesSound(table, NamesOffered(log))
    BY <2>1 DEF NamesSound
  <2> QED BY <2>1, <2>2, <2>3, FS_EmptySet DEF NamesInv
<1>2. TableInv /\ NamesInv /\ [Next]_vars => NamesInv'
  <2> SUFFICES ASSUME TableInv, NamesInv, [Next]_vars PROVE NamesInv'
    OBVIOUS
  <2>1. CASE UNCHANGED vars
    <3>1. table' = table /\ log' = log
      BY <2>1 DEF vars
    <3>2. \A p : Introductions(p)' = Introductions(p) /\ Polled(p)' = Polled(p)
      BY <3>1 DEF Introductions, Polled, Polls, Of, Min
    <3>3. NamesInv' = (/\ IsFiniteSet(DOMAIN table.peers) /\ IsFiniteSet(Offered(log))
                       /\ NamesSound(table, NamesOffered(log))
                       /\ EnoughIds(NamesOffered(log)) =>
                            \A p \in DOMAIN table.peers :
                              NameRight(table.peers[p], p, table.agents, Introductions(p)', Polled(p)', log))
      BY <3>1 DEF NamesInv, NamesOffered, Offered, OfferedBy, IntroducesItself, PollsOf, NamesSound,
                  NameSound, EnoughIds, NameRight, Calls
    <3> QED BY <3>2, <3>3 DEF NamesInv
  <2>2. ASSUME NEW e \in archive, IngestEvent(e) PROVE NamesInv'
    BY <2>2, NamesStep
  <2> QED BY <2>1, <2>2 DEF Next
<1>3. TableInv /\ NamesInv => FirstHandAgentWins
  <2> SUFFICES ASSUME TableInv, NamesInv PROVE FirstHandAgentWins
    OBVIOUS
  <2>1. PeersInv
    BY DEF TableInv
  <2>2. Known = {log[i].peer : i \in {j \in DOMAIN log : HasPeer(log[j])}}
    BY <2>1 DEF PeersInv, Known, Of
  <2>3. SumFunction(UserAgents.counts) + UserAgents.unknown = Cardinality(Known)
    BY EveryPeerCharted
  <2>4. ASSUME Cardinality(AgentsOffered \ {NoAgent}) <= MaxAgents, NEW p \in Known
        PROVE  NameRight(PeerOf(p), p, table.agents, Introductions(p), Polled(p), log)
    <3>1. AgentsOffered \ {NoAgent} = NamesOffered(log)
      BY <2>1, OfferedAre DEF NamesOffered
    <3>2. IsFiniteSet(NamesOffered(log))
      BY FS_Subset DEF NamesInv, NamesOffered
    <3>3. EnoughIds(NamesOffered(log))
      BY <2>4, <3>1, <3>2 DEF EnoughIds
    <3> QED BY <3>3 DEF NamesInv, Known, PeerOf
  <2>5. \A i : Polls(i) = PollsOf(log[i])
    BY DEF Polls, PollsOf
  <2>6. ASSUME Cardinality(AgentsOffered \ {NoAgent}) <= MaxAgents, NEW p \in Known
        PROVE  LET peer == PeerOf(p)
               IN IF Introductions(p) # {}
                  THEN /\ peer.source = "version"
                       /\ table.agents[peer.agent] = log[Min(Introductions(p))].agent
                  ELSE IF Polled(p) # {}
                  THEN /\ peer.source = "getpeerinfo"
                       /\ \E info \in Polls(Min(Polled(p))) :
                            info.peer = p /\ table.agents[peer.agent] = info.agent
                  ELSE peer.agent = 0
    BY <2>4, <2>5, <2>6 DEF NameRight, Calls
  <2> QED BY <2>2, <2>3, <2>6 DEF FirstHandAgentWins
<1> QED BY <1>1, <1>2, <1>3, TableInit, TableStep, PTL DEF Spec

-----------------------------------------------------------------------------
(***************************************************************************)
(* A field of the scorecards, summed over the peers.                       *)
(***************************************************************************)
FieldSum(peers, f) == SumFunctionOnSet([p \in DOMAIN peers |-> peers[p][f]], DOMAIN peers)

FieldOf(peers, p, f) == IF p \in DOMAIN peers THEN peers[p][f] ELSE 0

(* One scorecard replaced, or added. *)
LEMMA FieldSumWith ==
  ASSUME NEW peers, IsFiniteSet(DOMAIN peers), NEW f, \A q \in DOMAIN peers : peers[q][f] \in Nat,
         NEW p, NEW card, card[f] \in Nat
  PROVE  /\ IsFiniteSet(DOMAIN With(peers, p, card))
         /\ FieldSum(peers, f) \in Nat /\ FieldSum(With(peers, p, card), f) \in Nat
         /\ FieldOf(peers, p, f) \in Nat
         /\ FieldSum(With(peers, p, card), f) + FieldOf(peers, p, f)
              = FieldSum(peers, f) + card[f]
<1> DEFINE D == DOMAIN peers
           more == With(peers, p, card)
           a == [q \in D |-> peers[q][f]]
           b == [q \in D \cup {p} |-> more[q][f]]
           rest == D \ {p}
<1>1. DOMAIN more = D \cup {p} /\ more[p] = card /\ \A q \in rest : more[q] = peers[q]
  BY DEF With
<1>2. IsFiniteSet(D \cup {p}) /\ IsFiniteSet(rest)
  BY FS_AddElement, FS_RemoveElement
<1>3. \A q \in D : a[q] \in Nat
  OBVIOUS
<1>4. b[p] = card[f] /\ \A q \in rest : b[q] = a[q]
  <2> HIDE DEF more
  <2> QED BY <1>1
<1>5. \A q \in D \cup {p} : b[q] \in Nat
  <2> HIDE DEF a, b
  <2> QED BY <1>3, <1>4
<1>6. FieldSum(peers, f) = SumFunctionOnSet(a, D)
  BY DEF FieldSum
<1>7. FieldSum(more, f) = SumFunctionOnSet(b, D \cup {p})
  <2> HIDE DEF more
  <2> QED BY <1>1 DEF FieldSum
<1> HIDE DEF a, b, more
<1>8. SumFunctionOnSet(b, D \cup {p}) = card[f] + SumFunctionOnSet(a, rest)
  <2>1. (D \cup {p}) \ {p} = rest
    OBVIOUS
  <2>2. SumFunctionOnSet(b, D \cup {p}) = b[p] + SumFunctionOnSet(b, rest)
    BY <1>2, <1>5, <2>1, SumRemove
  <2>3. SumFunctionOnSet(b, rest) = SumFunctionOnSet(a, rest)
    BY <1>2, <1>4, SumSame
  <2> QED BY <1>4, <2>2, <2>3
<1>9. SumFunctionOnSet(a, D) = FieldOf(peers, p, f) + SumFunctionOnSet(a, rest) /\ FieldOf(peers, p, f) \in Nat
  <2>1. CASE p \in D
    <3>1. SumFunctionOnSet(a, D) = a[p] + SumFunctionOnSet(a, rest)
      BY <1>3, <2>1, SumRemove
    <3>2. a[p] = FieldOf(peers, p, f)
      BY <2>1 DEF a, FieldOf
    <3> QED BY <1>3, <2>1, <3>1, <3>2
  <2>2. CASE p \notin D
    <3>1. rest = D /\ FieldOf(peers, p, f) = 0
      BY <2>2 DEF FieldOf
    <3>2. SumFunctionOnSet(a, D) \in Nat
      BY <1>3, SumType
    <3> QED BY <3>1, <3>2
  <2> QED BY <2>1, <2>2
<1>10. SumFunctionOnSet(a, rest) \in Nat
  BY <1>2, <1>3, SumType
<1>11. SumFunctionOnSet(a, D) \in Nat /\ SumFunctionOnSet(b, D \cup {p}) \in Nat
  BY <1>8, <1>9, <1>10
<1>12. SumFunctionOnSet(b, D \cup {p}) + FieldOf(peers, p, f) = SumFunctionOnSet(a, D) + card[f]
  BY <1>8, <1>9, <1>10
<1> QED BY <1>1, <1>2, <1>6, <1>7, <1>9, <1>11, <1>12 DEF more

-----------------------------------------------------------------------------
(***************************************************************************)
(* A distribution and its parts: each sample of it is of one part.  Whose  *)
(* sample each is, no variable tells; that there is a way to deal them out *)
(* is all that is needed.                                                  *)
(***************************************************************************)
Dealt(samples, owner, p) == [i \in {j \in DOMAIN samples : owner[j] = p} |-> samples[i]]

Deals(d, parts, samples, owner) ==
  /\ IsSamples(samples) /\ Describes(d, samples)
  /\ \A i \in DOMAIN samples : owner[i] \in DOMAIN parts
  /\ \A p \in DOMAIN parts : Describes(parts[p], Dealt(samples, owner, p))

Shared(d, parts) ==
  \E n \in Nat : \E samples, owner : DOMAIN samples = 1 .. n /\ Deals(d, parts, samples, owner)

PartOf(parts, p) == IF p \in DOMAIN parts THEN parts[p] ELSE NoSamples

LEMMA DealtSamples ==
  ASSUME NEW samples, IsSamples(samples), NEW owner, NEW p
  PROVE  IsSamples(Dealt(samples, owner, p))
<1> DEFINE f == Dealt(samples, owner, p)
<1>1. DOMAIN f \in SUBSET DOMAIN samples /\ f = [i \in DOMAIN f |-> f[i]]
      /\ \A i \in DOMAIN f : f[i] = samples[i]
  BY DEF Dealt
<1>2. IsFiniteSet(DOMAIN f)
  BY <1>1, FS_Subset DEF IsSamples
<1> QED BY <1>1, <1>2 DEF IsSamples

LEMMA SharedNone == ASSUME NEW parts, DOMAIN parts = {} PROVE Shared(NoSamples, parts)
<1> DEFINE none == [i \in {} |-> 0]
<1>1. DOMAIN none = 1 .. 0 /\ DOMAIN none = {} /\ none = [s \in DOMAIN none |-> none[s]]
  OBVIOUS
<1> HIDE DEF none
<1>2. IsSamples(none)
  BY <1>1, FS_EmptySet DEF IsSamples
<1>3. Describes(NoSamples, none)
  BY <1>1, NoneDescribed
<1>4. Deals(NoSamples, parts, none, none)
  BY <1>1, <1>2, <1>3 DEF Deals
<1> QED BY <1>1, <1>4 DEF Shared

(* One of the parts is there anew, or was before: nothing is added. *)
LEMMA SharedKept ==
  ASSUME NEW d, NEW parts, Shared(d, parts), NEW p, NEW more,
         DOMAIN more = DOMAIN parts \cup {p}, \A q \in DOMAIN more : more[q] = PartOf(parts, q)
  PROVE  Shared(d, more)
<1>1. PICK n \in Nat : \E samples, owner : DOMAIN samples = 1 .. n /\ Deals(d, parts, samples, owner)
  BY DEF Shared
<1>2. PICK samples, owner : DOMAIN samples = 1 .. n /\ Deals(d, parts, samples, owner)
  BY <1>1
<1>3. ASSUME NEW q \in DOMAIN more PROVE Describes(more[q], Dealt(samples, owner, q))
  <2>1. CASE q \in DOMAIN parts
    BY <1>2, <2>1 DEF Deals, PartOf
  <2>2. CASE q \notin DOMAIN parts
    <3>1. DOMAIN Dealt(samples, owner, q) = {}
      BY <1>2, <2>2 DEF Deals, Dealt
    <3>2. more[q] = NoSamples
      BY <2>2 DEF PartOf
    <3> QED BY <3>1, <3>2, NoneDescribed
  <2> QED BY <2>1, <2>2
<1>4. Deals(d, more, samples, owner)
  BY <1>2, <1>3 DEF Deals
<1> QED BY <1>2, <1>4 DEF Shared

(* One more sample, of one part. *)
LEMMA SharedMore ==
  ASSUME NEW d, NEW parts, Shared(d, parts), NEW p, NEW ms \in Nat, NEW more,
         DOMAIN more = DOMAIN parts \cup {p},
         \A q \in DOMAIN more : more[q] = IF q = p THEN Add(PartOf(parts, p), ms) ELSE parts[q]
  PROVE  Shared(Add(d, ms), more)
<1> DEFINE new == Add(d, ms)
<1>1. PICK n \in Nat : \E samples, owner : DOMAIN samples = 1 .. n /\ Deals(d, parts, samples, owner)
  BY DEF Shared
<1>2. PICK samples, owner : DOMAIN samples = 1 .. n /\ Deals(d, parts, samples, owner)
  BY <1>1
<1> DEFINE x == n + 1
           samples2 == [i \in DOMAIN samples \cup {x} |-> IF i = x THEN ms ELSE samples[i]]
           owner2 == [i \in DOMAIN samples \cup {x} |-> IF i = x THEN p ELSE owner[i]]
<1>3. x \notin DOMAIN samples /\ DOMAIN samples \cup {x} = 1 .. n + 1 /\ n + 1 \in Nat
  BY <1>2
<1> HIDE DEF x, new
<1>4. IsSamples(samples2) /\ Describes(new, samples2)
  <2>1. IsSamples(samples) /\ Describes(d, samples)
    BY <1>2 DEF Deals
  <2>2. IsSamples(samples2) /\ Describes(Add(d, ms), samples2)
    BY <1>3, <2>1, AddDescribes
  <2> QED BY <2>2 DEF new
<1>5. \A i \in DOMAIN samples2 : owner2[i] \in DOMAIN more
  BY <1>2 DEF Deals
<1>6. ASSUME NEW q \in DOMAIN more PROVE Describes(more[q], Dealt(samples2, owner2, q))
  <2>1. CASE q = p
    <3> DEFINE f == Dealt(samples, owner, p)
               h == [s \in DOMAIN f \cup {x} |-> IF s = x THEN ms ELSE f[s]]
    <3>1. Describes(PartOf(parts, p), f)
      <4>1. CASE p \in DOMAIN parts
        BY <1>2, <4>1 DEF Deals, PartOf
      <4>2. CASE p \notin DOMAIN parts
        <5>1. DOMAIN f = {}
          BY <1>2, <4>2 DEF Deals, Dealt
        <5>2. PartOf(parts, p) = NoSamples
          BY <4>2 DEF PartOf
        <5> HIDE DEF f
        <5> QED BY <5>1, <5>2, NoneDescribed
      <4> QED BY <4>1, <4>2
    <3>2. IsSamples(f)
      BY <1>2, DealtSamples DEF Deals
    <3>3. x \notin DOMAIN f
      BY <1>3 DEF Dealt
    <3>4. Dealt(samples2, owner2, p) = h
      BY <1>3 DEF Dealt
    <3> HIDE DEF f, samples2, owner2
    <3>5. Describes(Add(PartOf(parts, p), ms), h)
      BY <3>1, <3>2, <3>3, AddDescribes
    <3> QED BY <2>1, <3>4, <3>5
  <2>2. CASE q # p
    <3>1. q \in DOMAIN parts /\ more[q] = parts[q]
      BY <2>2
    <3>2. Dealt(samples2, owner2, q) = Dealt(samples, owner, q)
      BY <1>3, <2>2 DEF Dealt
    <3> HIDE DEF samples2, owner2
    <3> QED BY <1>2, <3>1, <3>2 DEF Deals
  <2> QED BY <2>1, <2>2
<1>7. DOMAIN samples2 = 1 .. n + 1
  BY <1>3
<1> HIDE DEF samples2, owner2
<1>8. Deals(new, more, samples2, owner2)
  BY <1>4, <1>5, <1>6 DEF Deals
<1>9. Shared(new, more)
  BY <1>3, <1>7, <1>8 DEF Shared
<1> QED BY <1>9 DEF new

-----------------------------------------------------------------------------
(***************************************************************************)
(* The totals, put together peer by peer in some order.                    *)
(***************************************************************************)
Totalled(peers, D, g) ==
  g = [s \in D |-> IF s = {} THEN NoRelay ELSE MergeRelay(g[s \ {AnyOf(s)}], peers[AnyOf(s)])]

LEMMA TotalsExist ==
  ASSUME NEW peers, NEW S, IsFiniteSet(S)
  PROVE  \E g : Totalled(peers, SUBSET S, g)
<1> DEFINE n == Cardinality(S)
           Level(k) == {s \in SUBSET S : Cardinality(s) <= k}
           T == {k \in 0 .. n : \E g : Totalled(peers, Level(k), g)}
<1>1. n \in Nat
  BY FS_CardinalityType
<1>2. 0 \in T
  <2>1. \A s \in Level(0) : s = {}
    <3> SUFFICES ASSUME NEW s \in Level(0), s # {} PROVE FALSE
      OBVIOUS
    <3>1. PICK x \in s : TRUE
      OBVIOUS
    <3>2. Cardinality(s) <= 0 /\ s \in SUBSET S
      OBVIOUS
    <3>3. /\ Cardinality(s \ {x}) \in Nat /\ Cardinality(s) \in Nat
          /\ Cardinality(s \ {x}) = Cardinality(s) - 1
      BY <3>1, <3>2, OneLess
    <3> QED BY <3>2, <3>3
  <2>2. Totalled(peers, Level(0), [s \in Level(0) |-> NoRelay])
    <3> HIDE DEF Level
    <3> QED BY <2>1 DEF Totalled
  <2>3. 0 \in 0 .. n
    BY <1>1
  <2> QED BY <2>2, <2>3, Zenon
<1>3. \A k \in 0 .. n : k \in T /\ k < n => k + 1 \in T
  <2> SUFFICES ASSUME NEW k \in 0 .. n, k \in T, k < n PROVE k + 1 \in T
    OBVIOUS
  <2>1. PICK g : Totalled(peers, Level(k), g)
    OBVIOUS
  <2> DEFINE h == [s \in Level(k + 1) |-> IF s = {} THEN NoRelay ELSE MergeRelay(g[s \ {AnyOf(s)}], peers[AnyOf(s)])]
  <2>2. \A s \in Level(k + 1) :
          s # {} => s \ {AnyOf(s)} \in Level(k) /\ s \ {AnyOf(s)} \in Level(k + 1)
    <3> SUFFICES ASSUME NEW s \in Level(k + 1), s # {}
                 PROVE  s \ {AnyOf(s)} \in Level(k) /\ s \ {AnyOf(s)} \in Level(k + 1)
      OBVIOUS
    <3>2. s \in SUBSET S /\ Cardinality(s) <= k + 1
      OBVIOUS
    <3>1. AnyOf(s) \in s
      BY <3>2, AnyOfIn
    <3> DEFINE u == s \ {AnyOf(s)}
    <3>3. u \in SUBSET S /\ Cardinality(s) \in Nat /\ Cardinality(u) \in Nat
          /\ Cardinality(u) = Cardinality(s) - 1
      BY <3>1, <3>2, OneLess
    <3> HIDE DEF u
    <3>4. Cardinality(u) <= k /\ Cardinality(u) <= k + 1
      BY <3>2, <3>3
    <3>5. u \in Level(k) /\ u \in Level(k + 1)
      BY <3>3, <3>4
    <3> QED BY <3>5 DEF u
  <2>3. \A u \in Level(k) : u \in Level(k + 1)
    <3> TAKE u \in Level(k)
    <3>1. IsFiniteSet(u)
      BY FS_Subset
    <3>2. Cardinality(u) \in Nat /\ Cardinality(u) <= k
      BY <3>1, FS_CardinalityType
    <3>3. Cardinality(u) <= k + 1
      BY <3>2
    <3> QED BY <3>3
  <2>4. \A u \in Level(k) : h[u] = g[u]
    <3> TAKE u \in Level(k)
    <3>1. g[u] = IF u = {} THEN NoRelay ELSE MergeRelay(g[u \ {AnyOf(u)}], peers[AnyOf(u)])
      <4> HIDE DEF Level
      <4> QED BY <2>1 DEF Totalled
    <3>2. h[u] = IF u = {} THEN NoRelay ELSE MergeRelay(g[u \ {AnyOf(u)}], peers[AnyOf(u)])
      <4> HIDE DEF Level
      <4> QED BY <2>3
    <3> QED BY <3>1, <3>2
  <2> HIDE DEF Level
  <2>5. \A s \in Level(k + 1) : h[s] = IF s = {} THEN NoRelay ELSE MergeRelay(h[s \ {AnyOf(s)}], peers[AnyOf(s)])
    <3> TAKE s \in Level(k + 1)
    <3>1. h[s] = IF s = {} THEN NoRelay ELSE MergeRelay(g[s \ {AnyOf(s)}], peers[AnyOf(s)])
      OBVIOUS
    <3> HIDE DEF h
    <3> QED BY <2>2, <2>4, <3>1
  <2>6. h = [s \in Level(k + 1) |-> h[s]]
    OBVIOUS
  <2> HIDE DEF h
  <2>7. Totalled(peers, Level(k + 1), h)
    BY <2>5, <2>6 DEF Totalled
  <2>8. k + 1 \in 0 .. n
    BY <1>1
  <2> QED BY <2>7, <2>8, Zenon
<1>4. n \in T
  <2> HIDE DEF T, n
  <2>1. 0 .. n \subseteq T
    BY <1>1, <1>2, <1>3, CountingUp
  <2> QED BY <1>1, <2>1
<1>5. Level(n) = SUBSET S
  BY FS_Subset
<1> HIDE DEF Level
<1> QED BY <1>4, <1>5

LEMMA TotalsAreChosen ==
  ASSUME NEW r
  PROVE  Totals(r) = (CHOOSE g : Totalled(r.peers, SUBSET DOMAIN r.peers, g))[DOMAIN r.peers]
BY DEF Totals, FoldSet, MapThenFoldSet, AnyOf, Totalled

CountFields == {"first", "late", "delivered", "duplicate", "duplicateBytes"}
SampleFields == {"lag", "heardToHeld"}

OnCards(peers, f) == [p \in DOMAIN peers |-> peers[p][f]]

LEMMA MergedFields ==
  ASSUME NEW x, NEW y
  PROVE  /\ \A f \in CountFields : MergeRelay(x, y)[f] = x[f] + y[f] /\ NoRelay[f] = 0
         /\ \A f \in SampleFields : MergeRelay(x, y)[f] = Merge(x[f], y[f]) /\ NoRelay[f] = NoSamples
BY DEF CountFields, SampleFields, MergeRelay, NoRelay

(* A counter of the totals is the sum of the scorecards', ... *)
LEMMA TotalCounts ==
  ASSUME NEW peers, IsFiniteSet(DOMAIN peers), NEW f \in CountFields,
         \A q \in DOMAIN peers : peers[q][f] \in Nat,
         NEW g, Totalled(peers, SUBSET DOMAIN peers, g)
  PROVE  g[DOMAIN peers][f] = FieldSum(peers, f)
<1> DEFINE D == DOMAIN peers
           T == {s \in SUBSET D : g[s][f] = SumFunctionOnSet(OnCards(peers, f), s)}
<1>1. \A s \in SUBSET D :
        (\A u \in SUBSET D : Cardinality(u) < Cardinality(s) => u \in T) => s \in T
  <2> SUFFICES ASSUME NEW s \in SUBSET D,
                      \A u \in SUBSET D : Cardinality(u) < Cardinality(s) => u \in T
               PROVE  g[s][f] = SumFunctionOnSet(OnCards(peers, f), s)
    OBVIOUS
  <2>1. g[s] = IF s = {} THEN NoRelay ELSE MergeRelay(g[s \ {AnyOf(s)}], peers[AnyOf(s)])
    BY DEF Totalled
  <2>2. CASE s = {}
    <3>1. g[s][f] = 0
      BY <2>1, <2>2, MergedFields
    <3> QED BY <2>2, <3>1, SumEmpty
  <2>3. CASE s # {}
    <3> DEFINE c == AnyOf(s)
               u == s \ {c}
    <3>1. c \in s
      BY <2>3, AnyOfIn
    <3>2. u \in SUBSET D /\ Cardinality(u) < Cardinality(s)
      <4>1. IsFiniteSet(s)
        BY FS_Subset
      <4>2. /\ u \in SUBSET D
            /\ Cardinality(s) \in Nat /\ Cardinality(u) = Cardinality(s) - 1
        BY <3>1, <4>1, OneLess
      <4> HIDE DEF u
      <4> QED BY <4>2
    <3>3. g[s][f] = g[u][f] + peers[c][f]
      <4>1. g[s] = MergeRelay(g[u], peers[c])
        BY <2>1, <2>3
      <4> HIDE DEF u, c
      <4> QED BY <4>1, MergedFields
    <3>4. g[u][f] = SumFunctionOnSet(OnCards(peers, f), u)
      BY <3>2
    <3>5. SumFunctionOnSet(OnCards(peers, f), s) = OnCards(peers, f)[c] + SumFunctionOnSet(OnCards(peers, f), u)
      <4>1. IsFiniteSet(s)
        BY FS_Subset
      <4> QED BY <2>3, <4>1, SumStep
    <3>6. SumFunctionOnSet(OnCards(peers, f), u) \in Nat
      <4>1. IsFiniteSet(u) /\ \A q \in u : OnCards(peers, f)[q] \in Nat
        BY <3>2, FS_Subset DEF OnCards
      <4> HIDE DEF u
      <4> QED BY <4>1, SumType
    <3>7. OnCards(peers, f)[c] = peers[c][f] /\ peers[c][f] \in Nat
      BY <3>1 DEF OnCards
    <3> HIDE DEF u, c
    <3> QED BY <3>3, <3>4, <3>5, <3>6, <3>7
  <2> QED BY <2>2, <2>3
<1>2. D \in T
  <2>1. IsFiniteSet(D)
    OBVIOUS
  <2> HIDE DEF T, D
  <2> QED BY <1>1, <2>1, SmallerFirst
<1> QED BY <1>2 DEF FieldSum, OnCards

(* ... and a distribution of theirs is what the scorecards' are the parts of. *)
DealtTo(samples, owner, s) == [i \in {j \in DOMAIN samples : owner[j] \in s} |-> samples[i]]

LEMMA DealtToSamples ==
  ASSUME NEW samples, IsSamples(samples), NEW owner, NEW s
  PROVE  IsSamples(DealtTo(samples, owner, s))
<1> DEFINE f == DealtTo(samples, owner, s)
<1>1. DOMAIN f \in SUBSET DOMAIN samples /\ f = [i \in DOMAIN f |-> f[i]]
      /\ \A i \in DOMAIN f : f[i] = samples[i]
  BY DEF DealtTo
<1>2. IsFiniteSet(DOMAIN f)
  BY <1>1, FS_Subset DEF IsSamples
<1> QED BY <1>1, <1>2 DEF IsSamples

LEMMA TotalShares ==
  ASSUME NEW peers, IsFiniteSet(DOMAIN peers), NEW f \in SampleFields,
         NEW d, Shared(d, OnCards(peers, f)),
         NEW g, Totalled(peers, SUBSET DOMAIN peers, g)
  PROVE  g[DOMAIN peers][f] = d
<1> DEFINE D == DOMAIN peers
<1>1. PICK n \in Nat : \E samples, owner : DOMAIN samples = 1 .. n /\ Deals(d, OnCards(peers, f), samples, owner)
  BY DEF Shared
<1>2. PICK samples, owner : DOMAIN samples = 1 .. n /\ Deals(d, OnCards(peers, f), samples, owner)
  BY <1>1
<1>3. /\ IsSamples(samples) /\ Describes(d, samples)
      /\ \A i \in DOMAIN samples : owner[i] \in D
      /\ \A p \in D : Describes(peers[p][f], Dealt(samples, owner, p))
  BY <1>2 DEF Deals, OnCards
<1> DEFINE T == {s \in SUBSET D : Describes(g[s][f], DealtTo(samples, owner, s))}
<1>4. \A s \in SUBSET D :
        (\A u \in SUBSET D : Cardinality(u) < Cardinality(s) => u \in T) => s \in T
  <2> SUFFICES ASSUME NEW s \in SUBSET D,
                      \A u \in SUBSET D : Cardinality(u) < Cardinality(s) => u \in T
               PROVE  Describes(g[s][f], DealtTo(samples, owner, s))
    OBVIOUS
  <2>1. g[s] = IF s = {} THEN NoRelay ELSE MergeRelay(g[s \ {AnyOf(s)}], peers[AnyOf(s)])
    BY DEF Totalled
  <2>2. CASE s = {}
    <3>1. g[s][f] = NoSamples
      BY <2>1, <2>2, MergedFields
    <3>2. DOMAIN DealtTo(samples, owner, s) = {}
      BY <2>2 DEF DealtTo
    <3> QED BY <3>1, <3>2, NoneDescribed
  <2>3. CASE s # {}
    <3> DEFINE c == AnyOf(s)
               u == s \ {c}
    <3>1. c \in s
      BY <2>3, AnyOfIn
    <3>2. u \in SUBSET D /\ Cardinality(u) < Cardinality(s)
      <4>1. IsFiniteSet(s)
        BY FS_Subset
      <4>2. /\ u \in SUBSET D
            /\ Cardinality(s) \in Nat /\ Cardinality(u) = Cardinality(s) - 1
        BY <3>1, <4>1, OneLess
      <4> HIDE DEF u
      <4> QED BY <4>2
    <3>3. g[s][f] = Merge(g[u][f], peers[c][f])
      <4>1. g[s] = MergeRelay(g[u], peers[c])
        BY <2>1, <2>3
      <4> HIDE DEF u, c
      <4> QED BY <4>1, MergedFields
    <3>4. Describes(g[u][f], DealtTo(samples, owner, u))
      BY <3>2
    <3>5. Describes(peers[c][f], Dealt(samples, owner, c))
      BY <1>3, <3>1
    <3>6. s = u \cup {c} /\ c \notin u
      BY <3>1
    <3> HIDE DEF u, c
    <3> DEFINE some == DealtTo(samples, owner, u)
               one == Dealt(samples, owner, c)
               all == DealtTo(samples, owner, s)
    <3>7. IsSamples(some) /\ IsSamples(one) /\ IsSamples(all)
      BY <1>3, DealtSamples, DealtToSamples
    <3>8. /\ DOMAIN some \cap DOMAIN one = {} /\ DOMAIN all = DOMAIN some \cup DOMAIN one
          /\ \A i \in DOMAIN some : all[i] = some[i]
          /\ \A i \in DOMAIN one : all[i] = one[i]
      BY <3>6 DEF Dealt, DealtTo
    <3> HIDE DEF some, one, all
    <3>9. Describes(Merge(g[u][f], peers[c][f]), all)
      <4>1. Describes(g[u][f], some) /\ Describes(peers[c][f], one)
        BY <3>4, <3>5 DEF some, one
      <4> QED BY <3>7, <3>8, <4>1, MergeDescribes
    <3> QED BY <3>3, <3>9 DEF all
  <2> QED BY <2>2, <2>3
<1>5. SUBSET D \subseteq T
  <2> HIDE DEF T
  <2> QED BY <1>4, SmallerFirst
<1>6. Describes(g[D][f], DealtTo(samples, owner, D))
  BY <1>5
<1>7. DealtTo(samples, owner, D) = samples
  <2>1. samples = [i \in DOMAIN samples |-> samples[i]]
    BY <1>3 DEF IsSamples
  <2>2. {j \in DOMAIN samples : owner[j] \in D} = DOMAIN samples
    BY <1>3
  <2> QED BY <2>1, <2>2, Zenon DEF DealtTo
<1>8. g[D][f] = DistributionOf(samples) /\ d = DistributionOf(samples)
  BY <1>3, <1>6, <1>7, DescribedIs
<1> QED BY <1>8

(* So much of Totals. *)
LEMMA TotalsAre ==
  ASSUME NEW r, IsFiniteSet(DOMAIN r.peers)
  PROVE  /\ \A f \in CountFields :
              (\A q \in DOMAIN r.peers : r.peers[q][f] \in Nat) => Totals(r)[f] = FieldSum(r.peers, f)
         /\ \A f \in SampleFields : \A d : Shared(d, OnCards(r.peers, f)) => Totals(r)[f] = d
<1>1. PICK g : Totalled(r.peers, SUBSET DOMAIN r.peers, g) /\ Totals(r) = g[DOMAIN r.peers]
  BY TotalsExist, TotalsAreChosen
<1> QED BY <1>1, TotalCounts, TotalShares

-----------------------------------------------------------------------------
(***************************************************************************)
(* What is true of the relay statistics, whatever was recorded in them.    *)
(***************************************************************************)
CardFields == CountFields \cup SampleFields
RelayFields ==
  {"items", "origin", "peers", "announcements", "deliveries", "duplicateDeliveries",
   "deliveredBytes", "duplicateBytes", "lateAnnouncements", "untracked", "lag", "heardToHeld"}

HasFields(record, fields) == DOMAIN record = fields /\ record = [f \in fields |-> record[f]]

IsCard(card) == HasFields(card, CardFields) /\ \A f \in CountFields : card[f] \in Nat

IsEntry(entry) ==
  /\ DOMAIN entry = {"first", "announcements", "deliveries"}
  /\ entry.first \in Nat /\ entry.announcements \in Nat /\ entry.deliveries \in Nat

IsRelay(r) ==
  /\ HasFields(r, RelayFields)
  /\ r.origin \in Int
  /\ \A h \in DOMAIN r.items : IsEntry(r.items[h])
  /\ IsFiniteSet(DOMAIN r.peers)
  /\ \A p \in DOMAIN r.peers : IsCard(r.peers[p])

Recorded(card) == card.first + card.late + card.delivered > 0

Totalling(r) ==
  /\ \A f \in {"announcements", "deliveries", "untracked", "lateAnnouncements",
               "duplicateDeliveries", "duplicateBytes"} : r[f] \in Nat
  /\ r.announcements + r.deliveries
       = FieldSum(r.peers, "first") + FieldSum(r.peers, "late") + FieldSum(r.peers, "delivered") + r.untracked
  /\ FieldSum(r.peers, "late") = r.lateAnnouncements
  /\ FieldSum(r.peers, "duplicate") = r.duplicateDeliveries
  /\ FieldSum(r.peers, "duplicateBytes") = r.duplicateBytes

RelayFits(r) ==
  /\ IsRelay(r)
  /\ \A p \in DOMAIN r.peers : Recorded(r.peers[p])
  /\ Totalling(r)
  /\ r.lag.count = r.lateAnnouncements
  /\ Shared(r.lag, OnCards(r.peers, "lag"))
  /\ Shared(r.heardToHeld, OnCards(r.peers, "heardToHeld"))

(* The scorecard to be replaced, known or not. *)
LEMMA CardBefore ==
  ASSUME NEW r, IsRelay(r), NEW p
  PROVE  /\ IsCard(PeerRelay(r, p))
         /\ \A f \in CountFields : PeerRelay(r, p)[f] = FieldOf(r.peers, p, f)
         /\ \A f \in SampleFields : PeerRelay(r, p)[f] = PartOf(OnCards(r.peers, f), p)
<1>1. CASE p \in DOMAIN r.peers
  BY <1>1 DEF IsRelay, PeerRelay, FieldOf, PartOf, OnCards
<1>2. CASE p \notin DOMAIN r.peers
  <2>1. IsCard(NoRelay)
    BY DEF IsCard, NoRelay, CardFields, CountFields, SampleFields, HasFields
  <2>2. \A f \in CountFields : NoRelay[f] = 0
    BY MergedFields
  <2>3. \A f \in SampleFields : NoRelay[f] = NoSamples
    BY MergedFields
  <2>4. PeerRelay(r, p) = NoRelay
    BY <1>2 DEF PeerRelay
  <2>5. \A f : FieldOf(r.peers, p, f) = 0 /\ PartOf(OnCards(r.peers, f), p) = NoSamples
    BY <1>2 DEF FieldOf, PartOf, OnCards
  <2> QED BY <2>1, <2>2, <2>3, <2>4, <2>5
<1> QED BY <1>1, <1>2

(* The same with one scorecard more, or another in its place. *)
LEMMA CardReplaced ==
  ASSUME NEW r, IsRelay(r), NEW p, NEW card, IsCard(card)
  PROVE  /\ IsRelay(WithPeer(r, p, card))
         /\ WithPeer(r, p, card).peers = With(r.peers, p, card)
         /\ \A f \in RelayFields \ {"peers"} : WithPeer(r, p, card)[f] = r[f]
<1> DEFINE u == WithPeer(r, p, card)
<1>1. HasFields(u, RelayFields) /\ u.peers = With(r.peers, p, card)
      /\ \A f \in RelayFields \ {"peers"} : u[f] = r[f]
  BY DEF IsRelay, HasFields, RelayFields, WithPeer
<1>2. DOMAIN u.peers = DOMAIN r.peers \cup {p}
      /\ \A q \in DOMAIN u.peers : u.peers[q] = IF q = p THEN card ELSE r.peers[q]
  BY <1>1 DEF With
<1>3. IsFiniteSet(DOMAIN u.peers)
  BY <1>2, FS_AddElement DEF IsRelay
<1> HIDE DEF u
<1>4. u.origin = r.origin /\ u.items = r.items
  BY <1>1 DEF RelayFields
<1>5. IsRelay(u)
  BY <1>1, <1>2, <1>3, <1>4 DEF IsRelay
<1> QED BY <1>1, <1>5 DEF u

(* One thing announced or delivered more, which one scorecard tells of. *)
Tells(r, u, p, card, more) ==
  /\ \A f \in CountFields : more[f] \in Nat /\ card[f] = FieldOf(r.peers, p, f) + more[f]
  /\ more["first"] + more["late"] + more["delivered"] = 1
  /\ u.announcements \in Nat /\ u.deliveries \in Nat
  /\ u.announcements + u.deliveries = r.announcements + r.deliveries + 1
  /\ u.untracked = r.untracked /\ u.lateAnnouncements = r.lateAnnouncements + more["late"]
  /\ u.duplicateDeliveries = r.duplicateDeliveries + more["duplicate"]
  /\ u.duplicateBytes = r.duplicateBytes + more["duplicateBytes"]

LEMMA OneMoreTold ==
  ASSUME NEW r, RelayFits(r), NEW p, NEW card, IsCard(card), NEW u, IsRelay(u),
         u.peers = With(r.peers, p, card), NEW more, Tells(r, u, p, card, more)
  PROVE  Totalling(u) /\ \A q \in DOMAIN u.peers : Recorded(u.peers[q])
<1> USE DEF Tells
<1> DEFINE first == more["first"]
           late == more["late"]
           delivered == more["delivered"]
           again == more["duplicate"]
           bytes == more["duplicateBytes"]
<1>0. /\ first \in Nat /\ late \in Nat /\ delivered \in Nat /\ again \in Nat /\ bytes \in Nat
      /\ card.first = FieldOf(r.peers, p, "first") + first
      /\ card.late = FieldOf(r.peers, p, "late") + late
      /\ card.delivered = FieldOf(r.peers, p, "delivered") + delivered
      /\ card.duplicate = FieldOf(r.peers, p, "duplicate") + again
      /\ card.duplicateBytes = FieldOf(r.peers, p, "duplicateBytes") + bytes
  BY DEF CountFields
<1>00. /\ first + late + delivered = 1 /\ u.lateAnnouncements = r.lateAnnouncements + late
       /\ u.duplicateDeliveries = r.duplicateDeliveries + again
       /\ u.duplicateBytes = r.duplicateBytes + bytes
  OBVIOUS
<1> HIDE DEF first, late, delivered, again, bytes
<1>1. \A f \in CountFields :
        /\ FieldSum(r.peers, f) \in Nat /\ FieldSum(u.peers, f) \in Nat
        /\ FieldOf(r.peers, p, f) \in Nat
        /\ FieldSum(u.peers, f) + FieldOf(r.peers, p, f) = FieldSum(r.peers, f) + card[f]
  <2> TAKE f \in CountFields
  <2>1. card[f] \in Nat /\ IsFiniteSet(DOMAIN r.peers) /\ \A q \in DOMAIN r.peers : r.peers[q][f] \in Nat
    BY DEF RelayFits, IsRelay, IsCard
  <2> QED BY <2>1, FieldSumWith
<1>2. \A f \in CountFields : FieldSum(u.peers, f) = FieldSum(r.peers, f) + more[f]
  <2> TAKE f \in CountFields
  <2> DEFINE a == FieldSum(r.peers, f)
             b == FieldSum(u.peers, f)
             c == FieldOf(r.peers, p, f)
  <2>1. a \in Nat /\ b \in Nat /\ c \in Nat /\ more[f] \in Nat /\ b + c = a + (c + more[f])
    BY <1>1
  <2> HIDE DEF a, b, c
  <2>2. b = a + more[f]
    BY <2>1
  <2> QED BY <2>2 DEF a, b
<1>3. /\ FieldSum(u.peers, "first") = FieldSum(r.peers, "first") + first
      /\ FieldSum(u.peers, "late") = FieldSum(r.peers, "late") + late
      /\ FieldSum(u.peers, "delivered") = FieldSum(r.peers, "delivered") + delivered
      /\ FieldSum(u.peers, "duplicate") = FieldSum(r.peers, "duplicate") + again
      /\ FieldSum(u.peers, "duplicateBytes") = FieldSum(r.peers, "duplicateBytes") + bytes
  BY <1>2 DEF CountFields, first, late, delivered, again, bytes
<1>4. /\ FieldSum(r.peers, "first") \in Nat /\ FieldSum(r.peers, "late") \in Nat
      /\ FieldSum(r.peers, "delivered") \in Nat
  BY <1>1 DEF CountFields
<1>5. Totalling(r)
  BY DEF RelayFits
<1>6. /\ r.announcements \in Nat /\ r.deliveries \in Nat /\ r.untracked \in Nat
      /\ r.lateAnnouncements \in Nat /\ r.duplicateDeliveries \in Nat /\ r.duplicateBytes \in Nat
  BY <1>5 DEF Totalling
<1>7. u.announcements + u.deliveries
        = FieldSum(u.peers, "first") + FieldSum(u.peers, "late") + FieldSum(u.peers, "delivered") + u.untracked
  <2> DEFINE a == FieldSum(r.peers, "first")
             b == FieldSum(r.peers, "late")
             c == FieldSum(r.peers, "delivered")
  <2>1. r.announcements + r.deliveries = a + b + c + r.untracked
    BY <1>5 DEF Totalling
  <2>2. a \in Nat /\ b \in Nat /\ c \in Nat
    BY <1>4
  <2>3. FieldSum(u.peers, "first") = a + first /\ FieldSum(u.peers, "late") = b + late
        /\ FieldSum(u.peers, "delivered") = c + delivered
    BY <1>3
  <2> HIDE DEF a, b, c
  <2> QED BY <1>0, <1>00, <1>6, <2>1, <2>2, <2>3
<1>8. /\ u.untracked \in Nat /\ u.lateAnnouncements \in Nat
      /\ u.duplicateDeliveries \in Nat /\ u.duplicateBytes \in Nat
  BY <1>0, <1>00, <1>6
<1>9. Totalling(u)
  BY <1>00, <1>3, <1>5, <1>6, <1>7, <1>8 DEF Totalling
<1>10. ASSUME NEW q \in DOMAIN u.peers PROVE Recorded(u.peers[q])
  <2>1. u.peers[q] = IF q = p THEN card ELSE r.peers[q]
    BY DEF With
  <2>2. q # p => q \in DOMAIN r.peers
    BY DEF With
  <2>3. /\ FieldOf(r.peers, p, "first") \in Nat /\ FieldOf(r.peers, p, "late") \in Nat
        /\ FieldOf(r.peers, p, "delivered") \in Nat
    BY <1>1 DEF CountFields
  <2>4. Recorded(card)
    BY <1>0, <1>00, <2>3 DEF Recorded
  <2> QED BY <2>1, <2>2, <2>4 DEF RelayFits
<1> QED BY <1>9, <1>10

(* Nothing of a distribution has changed hands. *)
LEMMA PartKept ==
  ASSUME NEW peers, NEW p, NEW card, NEW f, NEW d, Shared(d, OnCards(peers, f)),
         card[f] = PartOf(OnCards(peers, f), p)
  PROVE  Shared(d, OnCards(With(peers, p, card), f))
<1> DEFINE parts == OnCards(peers, f)
           more == OnCards(With(peers, p, card), f)
<1>1. DOMAIN more = DOMAIN parts \cup {p} /\ \A q \in DOMAIN more : more[q] = PartOf(parts, q)
  BY DEF With, OnCards, PartOf
<1> HIDE DEF parts, more
<1>2. Shared(d, parts)
  BY DEF parts
<1>3. Shared(d, more)
  BY <1>1, <1>2, SharedKept
<1> QED BY <1>3 DEF more

(* A sample more of p's. *)
LEMMA PartMore ==
  ASSUME NEW peers, NEW p, NEW card, NEW f, NEW d, Shared(d, OnCards(peers, f)), NEW ms \in Nat,
         card[f] = Add(PartOf(OnCards(peers, f), p), ms)
  PROVE  Shared(Add(d, ms), OnCards(With(peers, p, card), f))
<1> DEFINE parts == OnCards(peers, f)
           more == OnCards(With(peers, p, card), f)
<1>1. DOMAIN more = DOMAIN parts \cup {p}
      /\ \A q \in DOMAIN more : more[q] = IF q = p THEN Add(PartOf(parts, p), ms) ELSE parts[q]
  BY DEF With, OnCards, PartOf
<1> HIDE DEF parts, more
<1>2. Shared(d, parts)
  BY DEF parts
<1>3. Shared(Add(d, ms), more)
  BY <1>1, <1>2, SharedMore
<1> QED BY <1>3 DEF more

(* A distribution is left alone, or gets a sample more of p's. *)
Moves(r, base, p, card, f) ==
  \/ base[f] = r[f] /\ card[f] = PartOf(OnCards(r.peers, f), p)
  \/ \E ms \in Nat : base[f] = Add(r[f], ms) /\ card[f] = Add(PartOf(OnCards(r.peers, f), p), ms)

LEMMA MovedIsShared ==
  ASSUME NEW r, NEW base, NEW p, NEW card, NEW f,
         Shared(r[f], OnCards(r.peers, f)), Moves(r, base, p, card, f)
  PROVE  Shared(base[f], OnCards(With(r.peers, p, card), f))
<1>1. CASE base[f] = r[f] /\ card[f] = PartOf(OnCards(r.peers, f), p)
  BY <1>1, PartKept
<1>2. CASE \E ms \in Nat : base[f] = Add(r[f], ms) /\ card[f] = Add(PartOf(OnCards(r.peers, f), p), ms)
  <2>1. PICK ms \in Nat : base[f] = Add(r[f], ms) /\ card[f] = Add(PartOf(OnCards(r.peers, f), p), ms)
    BY <1>2
  <2> QED BY <2>1, PartMore
<1> QED BY <1>1, <1>2 DEF Moves

(* All of it: base is r with what is not a scorecard's changed. *)
LEMMA ToldFits ==
  ASSUME NEW r, RelayFits(r), NEW p, NEW card, HasFields(card, CardFields),
         NEW base, HasFields(base, RelayFields), base.origin = r.origin, base.peers = r.peers,
         \A h \in DOMAIN base.items : IsEntry(base.items[h]),
         base.lag.count = base.lateAnnouncements,
         NEW more, Tells(r, base, p, card, more),
         Moves(r, base, p, card, "lag"), Moves(r, base, p, card, "heardToHeld")
  PROVE  /\ RelayFits(WithPeer(base, p, card))
         /\ WithPeer(base, p, card).announcements = base.announcements
<1> DEFINE u == WithPeer(base, p, card)
<1>1. IsRelay(r) /\ IsRelay(base)
  BY DEF RelayFits, IsRelay
<1>2. IsCard(card)
  <2> SUFFICES ASSUME NEW f \in CountFields PROVE card[f] \in Nat
    BY DEF IsCard
  <2>1. more[f] \in Nat /\ card[f] = FieldOf(r.peers, p, f) + more[f]
    BY DEF Tells
  <2>2. FieldOf(r.peers, p, f) \in Nat
    BY <1>1 DEF FieldOf, IsRelay, IsCard
  <2> QED BY <2>1, <2>2
<1>3. /\ IsRelay(u) /\ u.peers = With(r.peers, p, card)
      /\ \A f \in RelayFields \ {"peers"} : u[f] = base[f]
  BY <1>1, <1>2, CardReplaced
<1> HIDE DEF u
<1>4. /\ u.announcements = base.announcements /\ u.deliveries = base.deliveries
      /\ u.untracked = base.untracked /\ u.lateAnnouncements = base.lateAnnouncements
      /\ u.duplicateDeliveries = base.duplicateDeliveries /\ u.duplicateBytes = base.duplicateBytes
      /\ u.lag = base.lag /\ u.heardToHeld = base.heardToHeld
  BY <1>3 DEF RelayFields
<1>5. Tells(r, u, p, card, more)
  BY <1>4 DEF Tells
<1>6. Totalling(u) /\ \A q \in DOMAIN u.peers : Recorded(u.peers[q])
  BY <1>2, <1>3, <1>5, OneMoreTold
<1>7. /\ Shared(base["lag"], OnCards(With(r.peers, p, card), "lag"))
      /\ Shared(base["heardToHeld"], OnCards(With(r.peers, p, card), "heardToHeld"))
  <2>1. Shared(r["lag"], OnCards(r.peers, "lag")) /\ Shared(r["heardToHeld"], OnCards(r.peers, "heardToHeld"))
    BY DEF RelayFits
  <2> QED BY <2>1, MovedIsShared
<1>8. Shared(u.lag, OnCards(u.peers, "lag")) /\ Shared(u.heardToHeld, OnCards(u.peers, "heardToHeld"))
  BY <1>3, <1>4, <1>7
<1>9. u.lag.count = u.lateAnnouncements
  BY <1>4
<1>10. RelayFits(u)
  BY <1>3, <1>6, <1>8, <1>9 DEF RelayFits
<1> QED BY <1>4, <1>10 DEF u

-----------------------------------------------------------------------------
(***************************************************************************)
(* What each of them does.                                                 *)
(***************************************************************************)
LEMMA LagIsNumber ==
  ASSUME NEW entry, IsEntry(entry), NEW now \in Nat
  PROVE  Lag(now, entry) \in Nat
BY DEF Lag, Larger, IsEntry

(* The scorecard's fields, told apart. *)
LEMMA CardFieldsAre ==
  /\ \A f \in CountFields : f \in CardFields /\ f # "lag" /\ f # "heardToHeld"
  /\ \A f \in SampleFields : f \in CardFields /\ f \notin CountFields
  /\ SampleFields = {"lag", "heardToHeld"}
BY DEF CardFields, CountFields, SampleFields

(* An announcement counted that is not yet told of. *)
Heard(r) == [r EXCEPT !.announcements = @ + 1]

LEMMA LateFits ==
  ASSUME NEW r, RelayFits(r), NEW p, NEW hash \in DOMAIN r.items, NEW now \in Nat
  PROVE  /\ RelayFits(LateAnnouncement(Heard(r), p, hash, now))
         /\ LateAnnouncement(Heard(r), p, hash, now).announcements = r.announcements + 1
<1> DEFINE lag == Lag(now, r.items[hash])
           base == [r EXCEPT !.announcements = @ + 1, !.items[hash].announcements = @ + 1,
                             !.lateAnnouncements = @ + 1, !.lag = Add(@, lag)]
           old == PeerRelay(r, p)
           card == [old EXCEPT !.late = @ + 1, !.lag = Add(@, lag)]
           more == [f \in CountFields |-> IF f = "late" THEN 1 ELSE 0]
<1>1. IsRelay(r) /\ HasFields(r, RelayFields)
  BY DEF RelayFits, IsRelay
<1>2. LateAnnouncement(Heard(r), p, hash, now) = WithPeer(base, p, card)
  <2>1. Heard(r).items = r.items /\ Heard(r).peers = r.peers
    BY <1>1 DEF Heard, HasFields, RelayFields
  <2>2. [Heard(r) EXCEPT !.items[hash].announcements = @ + 1,
                         !.lateAnnouncements = @ + 1, !.lag = Add(@, lag)] = base
    BY <1>1 DEF Heard, HasFields, RelayFields
  <2>3. PeerRelay(Heard(r), p) = old
    BY <2>1 DEF PeerRelay
  <2> QED BY <2>1, <2>2, <2>3, Zenon DEF LateAnnouncement
<1>3. /\ HasFields(base, RelayFields)
      /\ \A f \in RelayFields \ {"announcements", "items", "lateAnnouncements", "lag"} : base[f] = r[f]
      /\ base.announcements = r.announcements + 1 /\ base.lateAnnouncements = r.lateAnnouncements + 1
      /\ base.lag = Add(r.lag, lag)
      /\ base.items = [r.items EXCEPT ![hash].announcements = @ + 1]
  BY <1>1 DEF HasFields, RelayFields
<1> HIDE DEF base
<1>4. lag \in Nat
  BY <1>1, LagIsNumber DEF IsRelay
<1>5. \A h \in DOMAIN base.items : IsEntry(base.items[h])
  BY <1>1, <1>3 DEF IsRelay, IsEntry
<1>6. /\ base.origin = r.origin /\ base.peers = r.peers
      /\ base.deliveries = r.deliveries /\ base.untracked = r.untracked
      /\ base.duplicateDeliveries = r.duplicateDeliveries /\ base.duplicateBytes = r.duplicateBytes
      /\ base.heardToHeld = r.heardToHeld
  BY <1>3 DEF RelayFields
<1>7. /\ IsCard(old) /\ \A f \in CountFields : old[f] = FieldOf(r.peers, p, f)
      /\ \A f \in SampleFields : old[f] = PartOf(OnCards(r.peers, f), p)
  BY <1>1, CardBefore
<1> HIDE DEF lag, old
<1>8. /\ HasFields(card, CardFields) /\ card.late = old.late + 1 /\ card.lag = Add(old.lag, lag)
      /\ \A f \in CardFields \ {"late", "lag"} : card[f] = old[f]
  BY <1>7 DEF IsCard, HasFields, CardFields, CountFields, SampleFields
<1> HIDE DEF card
<1>9. \A f \in CountFields : more[f] \in Nat /\ card[f] = FieldOf(r.peers, p, f) + more[f]
  BY <1>7, <1>8, CardFieldsAre DEF IsCard
<1>10. /\ more["first"] + more["late"] + more["delivered"] = 1
       /\ more["late"] = 1 /\ more["duplicate"] = 0 /\ more["duplicateBytes"] = 0
  BY DEF CountFields
<1> HIDE DEF more
<1>11. Totalling(r) /\ r.lag.count = r.lateAnnouncements
  BY DEF RelayFits
<1>12. Tells(r, base, p, card, more)
  BY <1>3, <1>6, <1>9, <1>10, <1>11 DEF Tells, Totalling
<1>13. Moves(r, base, p, card, "lag") /\ Moves(r, base, p, card, "heardToHeld")
  BY <1>3, <1>4, <1>6, <1>7, <1>8, CardFieldsAre DEF Moves
<1>14. base.lag.count = base.lateAnnouncements
  BY <1>3, <1>11 DEF Add
<1> QED BY <1>2, <1>3, <1>5, <1>6, <1>8, <1>12, <1>13, <1>14, ToldFits

LEMMA FirstFits ==
  ASSUME NEW r, RelayFits(r), NEW p, NEW hash, NEW now \in Nat
  PROVE  /\ RelayFits(FirstAnnouncement(Heard(r), p, hash, now))
         /\ FirstAnnouncement(Heard(r), p, hash, now).announcements = r.announcements + 1
<1> DEFINE entry == [first |-> now, announcements |-> 1, deliveries |-> 0]
           base == WithItem(Heard(r), hash, entry)
           old == PeerRelay(r, p)
           card == [old EXCEPT !.first = @ + 1]
           more == [f \in CountFields |-> IF f = "first" THEN 1 ELSE 0]
<1>1. IsRelay(r) /\ HasFields(r, RelayFields)
  BY DEF RelayFits, IsRelay
<1>2. FirstAnnouncement(Heard(r), p, hash, now) = WithPeer(base, p, card)
  <2>1. Heard(r).peers = r.peers
    BY <1>1 DEF Heard, HasFields, RelayFields
  <2>2. PeerRelay(Heard(r), p) = old
    BY <2>1 DEF PeerRelay
  <2> QED BY <2>2, Zenon DEF FirstAnnouncement
<1>3. /\ HasFields(base, RelayFields)
      /\ \A f \in RelayFields \ {"announcements", "items"} : base[f] = r[f]
      /\ base.announcements = r.announcements + 1 /\ base.items = With(r.items, hash, entry)
  BY <1>1 DEF HasFields, RelayFields, Heard, WithItem
<1> HIDE DEF base
<1>4. \A h \in DOMAIN base.items : IsEntry(base.items[h])
  BY <1>1, <1>3 DEF IsRelay, IsEntry, With
<1>5. /\ base.origin = r.origin /\ base.peers = r.peers /\ base.lag = r.lag
      /\ base.deliveries = r.deliveries /\ base.untracked = r.untracked
      /\ base.lateAnnouncements = r.lateAnnouncements
      /\ base.duplicateDeliveries = r.duplicateDeliveries /\ base.duplicateBytes = r.duplicateBytes
      /\ base.heardToHeld = r.heardToHeld
  BY <1>3 DEF RelayFields
<1>6. /\ IsCard(old) /\ \A f \in CountFields : old[f] = FieldOf(r.peers, p, f)
      /\ \A f \in SampleFields : old[f] = PartOf(OnCards(r.peers, f), p)
  BY <1>1, CardBefore
<1> HIDE DEF old
<1>7. /\ HasFields(card, CardFields) /\ card.first = old.first + 1
      /\ \A f \in CardFields \ {"first"} : card[f] = old[f]
  BY <1>6 DEF IsCard, HasFields, CardFields, CountFields, SampleFields
<1> HIDE DEF card
<1>8. \A f \in CountFields : more[f] \in Nat /\ card[f] = FieldOf(r.peers, p, f) + more[f]
  BY <1>6, <1>7, CardFieldsAre DEF IsCard
<1>9. /\ more["first"] + more["late"] + more["delivered"] = 1
      /\ more["late"] = 0 /\ more["duplicate"] = 0 /\ more["duplicateBytes"] = 0
  BY DEF CountFields
<1> HIDE DEF more
<1>10. Totalling(r) /\ r.lag.count = r.lateAnnouncements
  BY DEF RelayFits
<1>11. Tells(r, base, p, card, more)
  BY <1>3, <1>5, <1>8, <1>9, <1>10 DEF Tells, Totalling
<1>12. Moves(r, base, p, card, "lag") /\ Moves(r, base, p, card, "heardToHeld")
  BY <1>5, <1>6, <1>7, CardFieldsAre DEF Moves, CountFields
<1>13. base.lag.count = base.lateAnnouncements
  BY <1>5, <1>10
<1> QED BY <1>2, <1>3, <1>4, <1>5, <1>7, <1>11, <1>12, <1>13, ToldFits

(* A delivery counted that is not yet told of. *)
Given(r, size) == [r EXCEPT !.deliveries = @ + 1, !.deliveredBytes = @ + size]

LEMMA UnannouncedFits ==
  ASSUME NEW r, RelayFits(r), NEW p, NEW key, NEW now \in Nat, NEW size
  PROVE  /\ RelayFits(UnannouncedDelivery(Given(r, size), p, key, now))
         /\ UnannouncedDelivery(Given(r, size), p, key, now).announcements = r.announcements
<1> DEFINE entry == [first |-> now, announcements |-> 0, deliveries |-> 1]
           base == WithItem(Given(r, size), key, entry)
           old == PeerRelay(r, p)
           card == [old EXCEPT !.delivered = @ + 1]
           more == [f \in CountFields |-> IF f = "delivered" THEN 1 ELSE 0]
<1>1. IsRelay(r) /\ HasFields(r, RelayFields)
  BY DEF RelayFits, IsRelay
<1>2. UnannouncedDelivery(Given(r, size), p, key, now) = WithPeer(base, p, card)
  <2>1. Given(r, size).peers = r.peers
    BY <1>1 DEF Given, HasFields, RelayFields
  <2>2. PeerRelay(Given(r, size), p) = old
    BY <2>1 DEF PeerRelay
  <2> QED BY <2>2, Zenon DEF UnannouncedDelivery
<1>3. /\ HasFields(base, RelayFields)
      /\ \A f \in RelayFields \ {"deliveries", "deliveredBytes", "items"} : base[f] = r[f]
      /\ base.deliveries = r.deliveries + 1 /\ base.items = With(r.items, key, entry)
  BY <1>1 DEF HasFields, RelayFields, Given, WithItem
<1> HIDE DEF base
<1>4. \A h \in DOMAIN base.items : IsEntry(base.items[h])
  BY <1>1, <1>3 DEF IsRelay, IsEntry, With
<1>5. /\ base.origin = r.origin /\ base.peers = r.peers /\ base.lag = r.lag
      /\ base.announcements = r.announcements /\ base.untracked = r.untracked
      /\ base.lateAnnouncements = r.lateAnnouncements
      /\ base.duplicateDeliveries = r.duplicateDeliveries /\ base.duplicateBytes = r.duplicateBytes
      /\ base.heardToHeld = r.heardToHeld
  BY <1>3 DEF RelayFields
<1>6. /\ IsCard(old) /\ \A f \in CountFields : old[f] = FieldOf(r.peers, p, f)
      /\ \A f \in SampleFields : old[f] = PartOf(OnCards(r.peers, f), p)
  BY <1>1, CardBefore
<1> HIDE DEF old
<1>7. /\ HasFields(card, CardFields) /\ card.delivered = old.delivered + 1
      /\ \A f \in CardFields \ {"delivered"} : card[f] = old[f]
  BY <1>6 DEF IsCard, HasFields, CardFields, CountFields, SampleFields
<1> HIDE DEF card
<1>8. \A f \in CountFields : more[f] \in Nat /\ card[f] = FieldOf(r.peers, p, f) + more[f]
  BY <1>6, <1>7, CardFieldsAre DEF IsCard
<1>9. /\ more["first"] + more["late"] + more["delivered"] = 1
      /\ more["late"] = 0 /\ more["duplicate"] = 0 /\ more["duplicateBytes"] = 0
  BY DEF CountFields
<1> HIDE DEF more
<1>10. Totalling(r) /\ r.lag.count = r.lateAnnouncements
  BY DEF RelayFits
<1>11. Tells(r, base, p, card, more)
  BY <1>3, <1>5, <1>8, <1>9, <1>10 DEF Tells, Totalling
<1>12. Moves(r, base, p, card, "lag") /\ Moves(r, base, p, card, "heardToHeld")
  BY <1>5, <1>6, <1>7, CardFieldsAre DEF Moves, CountFields
<1>13. base.lag.count = base.lateAnnouncements
  BY <1>5, <1>10
<1> QED BY <1>2, <1>3, <1>4, <1>5, <1>7, <1>11, <1>12, <1>13, ToldFits

LEMMA KnownFits ==
  ASSUME NEW r, RelayFits(r), NEW p, NEW key \in DOMAIN r.items, NEW now \in Nat, NEW size \in Nat
  PROVE  /\ RelayFits(KnownDelivery(Given(r, size), p, key, now, size))
         /\ KnownDelivery(Given(r, size), p, key, now, size).announcements = r.announcements
<1> DEFINE given == Given(r, size)
           entry == given.items[key]
           already == entry.deliveries > 0
           timed == ~already /\ entry.announcements > 0
           wait == Lag(now, entry)
           counted == [given EXCEPT !.items[key].deliveries = @ + 1]
           held == IF timed THEN Add(r.heardToHeld, wait) ELSE r.heardToHeld
           again == IF already THEN 1 ELSE 0
           bytes == IF already THEN size ELSE 0
           base == IF already THEN [counted EXCEPT !.duplicateDeliveries = @ + 1, !.duplicateBytes = @ + size]
                   ELSE IF timed THEN [counted EXCEPT !.heardToHeld = Add(@, wait)] ELSE counted
           old == PeerRelay(given, p)
           peer == [old EXCEPT !.delivered = @ + 1]
           card == IF already THEN [peer EXCEPT !.duplicate = @ + 1, !.duplicateBytes = @ + size]
                   ELSE IF timed THEN [peer EXCEPT !.heardToHeld = Add(@, wait)] ELSE peer
           more == [f \in CountFields |-> CASE f = "delivered" -> 1 [] f = "duplicate" -> again
                                            [] f = "duplicateBytes" -> bytes [] OTHER -> 0]
<1>1. IsRelay(r) /\ HasFields(r, RelayFields)
  BY DEF RelayFits, IsRelay
<1>2. KnownDelivery(Given(r, size), p, key, now, size) = WithPeer(base, p, card)
  <2>1. KnownDelivery(given, p, key, now, size) =
          IF already
          THEN WithPeer([counted EXCEPT !.duplicateDeliveries = @ + 1, !.duplicateBytes = @ + size],
                        p, [peer EXCEPT !.duplicate = @ + 1, !.duplicateBytes = @ + size])
          ELSE IF timed
          THEN WithPeer([counted EXCEPT !.heardToHeld = Add(@, wait)],
                        p, [peer EXCEPT !.heardToHeld = Add(@, wait)])
          ELSE WithPeer(counted, p, peer)
    BY Zenon DEF KnownDelivery
  <2> HIDE DEF given, already, timed, counted, peer
  <2> QED BY <2>1 DEF given
<1>0. entry = r.items[key] /\ old = PeerRelay(r, p)
  <2>1. given.items = r.items /\ given.peers = r.peers
    BY <1>1 DEF Given, HasFields, RelayFields
  <2> HIDE DEF given
  <2> QED BY <2>1 DEF PeerRelay
<1>3. /\ HasFields(counted, RelayFields)
      /\ \A f \in RelayFields \ {"deliveries", "deliveredBytes", "items"} : counted[f] = r[f]
      /\ counted.deliveries = r.deliveries + 1
      /\ counted.items = [r.items EXCEPT ![key].deliveries = @ + 1]
  BY <1>1 DEF HasFields, RelayFields, Given
<1>4. wait \in Nat
  BY <1>0, <1>1, LagIsNumber DEF IsRelay
<1> HIDE DEF counted, wait, entry, given
<1>5. already \in BOOLEAN /\ timed \in BOOLEAN /\ ~(already /\ timed)
  OBVIOUS
<1> HIDE DEF already, timed
<1>6. /\ HasFields(base, RelayFields)
      /\ \A f \in RelayFields \ {"heardToHeld", "duplicateDeliveries", "duplicateBytes"} : base[f] = counted[f]
      /\ base.duplicateDeliveries = IF already THEN counted.duplicateDeliveries + 1 ELSE counted.duplicateDeliveries
      /\ base.duplicateBytes = IF already THEN counted.duplicateBytes + size ELSE counted.duplicateBytes
      /\ base.heardToHeld = IF timed THEN Add(counted.heardToHeld, wait) ELSE counted.heardToHeld
  BY <1>3, <1>5 DEF HasFields, RelayFields
<1> HIDE DEF base
<1>7. Totalling(r) /\ r.lag.count = r.lateAnnouncements
  BY DEF RelayFits
<1>8. /\ base.origin = r.origin /\ base.peers = r.peers /\ base.lag = r.lag
      /\ base.announcements = r.announcements /\ base.deliveries = r.deliveries + 1
      /\ base.untracked = r.untracked /\ base.lateAnnouncements = r.lateAnnouncements
      /\ base.items = [r.items EXCEPT ![key].deliveries = @ + 1]
      /\ base.heardToHeld = held
      /\ base.duplicateDeliveries = r.duplicateDeliveries + again
      /\ base.duplicateBytes = r.duplicateBytes + bytes
  BY <1>3, <1>6, <1>7 DEF RelayFields, Totalling
<1>9. \A h \in DOMAIN base.items : IsEntry(base.items[h])
  BY <1>1, <1>8 DEF IsRelay, IsEntry
<1>10. /\ IsCard(old) /\ \A f \in CountFields : old[f] = FieldOf(r.peers, p, f)
       /\ \A f \in SampleFields : old[f] = PartOf(OnCards(r.peers, f), p)
  BY <1>0, <1>1, CardBefore
<1> HIDE DEF old
<1>11. /\ HasFields(peer, CardFields) /\ peer.delivered = old.delivered + 1
       /\ \A f \in CardFields \ {"delivered"} : peer[f] = old[f]
  BY <1>10 DEF IsCard, HasFields, CardFields, CountFields, SampleFields
<1> HIDE DEF peer
<1>12. /\ HasFields(card, CardFields)
       /\ \A f \in CardFields \ {"heardToHeld", "duplicate", "duplicateBytes"} : card[f] = peer[f]
       /\ card.duplicate = IF already THEN peer.duplicate + 1 ELSE peer.duplicate
       /\ card.duplicateBytes = IF already THEN peer.duplicateBytes + size ELSE peer.duplicateBytes
       /\ card.heardToHeld = IF timed THEN Add(peer.heardToHeld, wait) ELSE peer.heardToHeld
  BY <1>5, <1>11 DEF HasFields, CardFields, CountFields, SampleFields
<1> HIDE DEF card
<1>13. again \in Nat /\ bytes \in Nat
  OBVIOUS
<1>14. \A f \in CountFields : more[f] \in Nat /\ card[f] = FieldOf(r.peers, p, f) + more[f]
  <2>1. /\ card.first = old.first /\ card.late = old.late /\ card.delivered = old.delivered + 1
        /\ card.lag = old.lag
        /\ card.duplicate = IF already THEN old.duplicate + 1 ELSE old.duplicate
        /\ card.duplicateBytes = IF already THEN old.duplicateBytes + size ELSE old.duplicateBytes
    BY <1>11, <1>12 DEF CardFields, CountFields, SampleFields
  <2>2. /\ old.first \in Nat /\ old.late \in Nat /\ old.delivered \in Nat
        /\ old.duplicate \in Nat /\ old.duplicateBytes \in Nat
    BY <1>10 DEF IsCard, CountFields
  <2>3. /\ old.first = FieldOf(r.peers, p, "first") /\ old.late = FieldOf(r.peers, p, "late")
        /\ old.delivered = FieldOf(r.peers, p, "delivered")
        /\ old.duplicate = FieldOf(r.peers, p, "duplicate")
        /\ old.duplicateBytes = FieldOf(r.peers, p, "duplicateBytes")
    BY <1>10 DEF CountFields
  <2>4. /\ more["first"] = 0 /\ more["late"] = 0 /\ more["delivered"] = 1
        /\ more["duplicate"] = again /\ more["duplicateBytes"] = bytes
    BY DEF CountFields
  <2> HIDE DEF more
  <2> QED BY <1>13, <2>1, <2>2, <2>3, <2>4 DEF CountFields
<1>15. /\ more["first"] + more["late"] + more["delivered"] = 1
       /\ more["late"] = 0 /\ more["duplicate"] = again /\ more["duplicateBytes"] = bytes
  BY DEF CountFields
<1> HIDE DEF more, again, bytes
<1>16. Tells(r, base, p, card, more)
  BY <1>7, <1>8, <1>14, <1>15 DEF Tells, Totalling
<1>17. Moves(r, base, p, card, "lag") /\ Moves(r, base, p, card, "heardToHeld")
  <2>1. card.lag = old.lag
        /\ card.heardToHeld = IF timed THEN Add(old.heardToHeld, wait) ELSE old.heardToHeld
    BY <1>11, <1>12 DEF CardFields, CountFields, SampleFields
  <2>2. old.lag = PartOf(OnCards(r.peers, "lag"), p)
        /\ old.heardToHeld = PartOf(OnCards(r.peers, "heardToHeld"), p)
    BY <1>10, CardFieldsAre
  <2> QED BY <1>4, <1>8, <2>1, <2>2 DEF Moves
<1>18. base.lag.count = base.lateAnnouncements
  BY <1>7, <1>8
<1> QED BY <1>2, <1>6, <1>8, <1>9, <1>12, <1>16, <1>17, <1>18, ToldFits

(* No room, and nothing told of it but that. *)
LEMMA UntrackedFits ==
  ASSUME NEW r, RelayFits(r), NEW u, HasFields(u, RelayFields),
         u.items = r.items, u.origin = r.origin, u.peers = r.peers, u.lag = r.lag,
         u.heardToHeld = r.heardToHeld, u.lateAnnouncements = r.lateAnnouncements,
         u.duplicateDeliveries = r.duplicateDeliveries, u.duplicateBytes = r.duplicateBytes,
         u.announcements \in Nat, u.deliveries \in Nat,
         u.announcements + u.deliveries = r.announcements + r.deliveries + 1,
         u.untracked = r.untracked + 1
  PROVE  RelayFits(u)
<1>1. IsRelay(u)
  BY DEF RelayFits, IsRelay
<1>2. \A f \in CountFields : FieldSum(r.peers, f) \in Nat
  <2> TAKE f \in CountFields
  <2> DEFINE c == [q \in DOMAIN r.peers |-> r.peers[q][f]]
  <2>1. IsFiniteSet(DOMAIN r.peers) /\ \A q \in DOMAIN r.peers : c[q] \in Nat
    BY DEF RelayFits, IsRelay, IsCard
  <2> HIDE DEF c
  <2>2. SumFunctionOnSet(c, DOMAIN r.peers) \in Nat
    BY <2>1, SumType
  <2> QED BY <2>2 DEF FieldSum, c
<1>3. Totalling(r)
  BY DEF RelayFits
<1>4. Totalling(u)
  <2>1. /\ FieldSum(r.peers, "first") \in Nat /\ FieldSum(r.peers, "late") \in Nat
        /\ FieldSum(r.peers, "delivered") \in Nat
    BY <1>2 DEF CountFields
  <2> QED BY <1>3, <2>1 DEF Totalling
<1> QED BY <1>1, <1>4 DEF RelayFits

-----------------------------------------------------------------------------
(***************************************************************************)
(* An inventory, item by item.                                             *)
(***************************************************************************)
Announcing(r, p, now, items, D, g) ==
  g = [s \in D |-> IF s = {} THEN r ELSE AnnounceItem(g[s \ {Max(s)}], p, now, TransactionHash(items[Max(s)]))]

LEMMA AnnouncingExists ==
  ASSUME NEW r, NEW p, NEW now, NEW items, NEW N \in Nat, NEW S \in SUBSET (0 .. N)
  PROVE  \E g : Announcing(r, p, now, items, SUBSET S, g)
<1>0. IsFiniteSet(S)
  <2>1. IsFiniteSet(0 .. N)
    BY FS_Interval
  <2> QED BY <2>1, FS_Subset
<1> DEFINE n == Cardinality(S)
           Level(k) == {s \in SUBSET S : Cardinality(s) <= k}
           T == {k \in 0 .. n : \E g : Announcing(r, p, now, items, Level(k), g)}
<1>1. n \in Nat
  BY <1>0, FS_CardinalityType
<1>2. 0 \in T
  <2>1. \A s \in Level(0) : s = {}
    <3> SUFFICES ASSUME NEW s \in Level(0), s # {} PROVE FALSE
      OBVIOUS
    <3>1. PICK x \in s : TRUE
      OBVIOUS
    <3>2. Cardinality(s) <= 0 /\ s \in SUBSET S
      OBVIOUS
    <3>3. /\ Cardinality(s \ {x}) \in Nat /\ Cardinality(s) \in Nat
          /\ Cardinality(s \ {x}) = Cardinality(s) - 1
      BY <1>0, <3>1, <3>2, OneLess
    <3> QED BY <3>2, <3>3
  <2>2. Announcing(r, p, now, items, Level(0), [s \in Level(0) |-> r])
    <3> HIDE DEF Level
    <3> QED BY <2>1 DEF Announcing
  <2>3. 0 \in 0 .. n
    BY <1>1
  <2> QED BY <2>2, <2>3, Zenon
<1>3. \A k \in 0 .. n : k \in T /\ k < n => k + 1 \in T
  <2> SUFFICES ASSUME NEW k \in 0 .. n, k \in T, k < n PROVE k + 1 \in T
    OBVIOUS
  <2>1. PICK g : Announcing(r, p, now, items, Level(k), g)
    OBVIOUS
  <2> DEFINE h == [s \in Level(k + 1) |-> IF s = {} THEN r ELSE AnnounceItem(g[s \ {Max(s)}], p, now, TransactionHash(items[Max(s)]))]
  <2>2. \A s \in Level(k + 1) :
          s # {} => s \ {Max(s)} \in Level(k) /\ s \ {Max(s)} \in Level(k + 1)
    <3> SUFFICES ASSUME NEW s \in Level(k + 1), s # {}
                 PROVE  s \ {Max(s)} \in Level(k) /\ s \ {Max(s)} \in Level(k + 1)
      OBVIOUS
    <3>2. s \in SUBSET S /\ Cardinality(s) <= k + 1
      OBVIOUS
    <3>1. Max(s) \in s
      <4>1. s \subseteq 0 .. N
        BY <3>2
      <4> QED BY <4>1, MaxNat
    <3> DEFINE u == s \ {Max(s)}
    <3>3. u \in SUBSET S /\ Cardinality(s) \in Nat /\ Cardinality(u) \in Nat
          /\ Cardinality(u) = Cardinality(s) - 1
      BY <1>0, <3>1, <3>2, OneLess
    <3> HIDE DEF u
    <3>4. Cardinality(u) <= k /\ Cardinality(u) <= k + 1
      BY <3>2, <3>3
    <3>5. u \in Level(k) /\ u \in Level(k + 1)
      BY <3>3, <3>4
    <3> QED BY <3>5 DEF u
  <2>3. \A u \in Level(k) : u \in Level(k + 1)
    <3> TAKE u \in Level(k)
    <3>1. IsFiniteSet(u)
      BY <1>0, FS_Subset
    <3>2. Cardinality(u) \in Nat /\ Cardinality(u) <= k
      BY <3>1, FS_CardinalityType
    <3>3. Cardinality(u) <= k + 1
      BY <3>2
    <3> QED BY <3>3
  <2>4. \A u \in Level(k) : h[u] = g[u]
    <3> TAKE u \in Level(k)
    <3>1. g[u] = IF u = {} THEN r ELSE AnnounceItem(g[u \ {Max(u)}], p, now, TransactionHash(items[Max(u)]))
      <4> HIDE DEF Level
      <4> QED BY <2>1 DEF Announcing
    <3>2. h[u] = IF u = {} THEN r ELSE AnnounceItem(g[u \ {Max(u)}], p, now, TransactionHash(items[Max(u)]))
      <4> HIDE DEF Level
      <4> QED BY <2>3
    <3> QED BY <3>1, <3>2
  <2> HIDE DEF Level
  <2>5. \A s \in Level(k + 1) : h[s] = IF s = {} THEN r ELSE AnnounceItem(h[s \ {Max(s)}], p, now, TransactionHash(items[Max(s)]))
    <3> TAKE s \in Level(k + 1)
    <3>1. h[s] = IF s = {} THEN r ELSE AnnounceItem(g[s \ {Max(s)}], p, now, TransactionHash(items[Max(s)]))
      OBVIOUS
    <3> HIDE DEF h
    <3> QED BY <2>2, <2>4, <3>1
  <2>6. h = [s \in Level(k + 1) |-> h[s]]
    OBVIOUS
  <2> HIDE DEF h
  <2>7. Announcing(r, p, now, items, Level(k + 1), h)
    BY <2>5, <2>6 DEF Announcing
  <2>8. k + 1 \in 0 .. n
    BY <1>1
  <2> QED BY <2>7, <2>8, Zenon
<1>4. n \in T
  <2> HIDE DEF T, n
  <2>1. 0 .. n \subseteq T
    BY <1>1, <1>2, <1>3, CountingUp
  <2> QED BY <1>1, <2>1
<1>5. Level(n) = SUBSET S
  BY <1>0, FS_Subset
<1> HIDE DEF Level
<1> QED BY <1>4, <1>5

LEMMA AnnounceIsChosen ==
  ASSUME NEW r, NEW timestamp, NEW p, NEW items
  PROVE  LET anchored == Anchored(r, timestamp)
             now == Offset(anchored, timestamp)
         IN Announce(r, timestamp, p, items) =
              (CHOOSE g : Announcing(anchored, p, now, items, SUBSET DOMAIN items, g))[DOMAIN items]
BY DEF Announce, FoldLeft, MapThenFoldSet, Announcing

LEMMA ItemFits ==
  ASSUME NEW r, RelayFits(r), NEW p, NEW now \in Nat, NEW hash
  PROVE  LET u == AnnounceItem(r, p, now, hash)
         IN RelayFits(u) /\ u.announcements = r.announcements + (IF hash = NoHash THEN 0 ELSE 1)
<1> DEFINE counted == [r EXCEPT !.announcements = @ + 1]
<1>1. HasFields(r, RelayFields) /\ Totalling(r)
  BY DEF RelayFits, IsRelay
<1>2. counted = Heard(r)
  BY DEF Heard
<1>3. /\ HasFields(counted, RelayFields) /\ counted.announcements = r.announcements + 1
      /\ \A f \in RelayFields \ {"announcements"} : counted[f] = r[f]
  BY <1>1 DEF HasFields, RelayFields
<1>4. AnnounceItem(r, p, now, hash) =
        IF hash = NoHash THEN r
        ELSE IF hash \in DOMAIN counted.items THEN LateAnnouncement(counted, p, hash, now)
        ELSE IF IsFull(counted) THEN Untrack(counted)
        ELSE FirstAnnouncement(counted, p, hash, now)
  <2>1. counted.items = r.items
    BY <1>3 DEF RelayFields
  <2>2. IsFull(counted) = IsFull(r)
    BY <2>1, Zenon DEF IsFull
  <2>3. AnnounceItem(r, p, now, hash) =
          IF hash = NoHash THEN r
          ELSE IF hash \in DOMAIN r.items THEN LateAnnouncement(counted, p, hash, now)
          ELSE IF IsFull(r) THEN Untrack(counted)
          ELSE FirstAnnouncement(counted, p, hash, now)
    BY Zenon DEF AnnounceItem
  <2> HIDE DEF counted
  <2> QED BY <2>1, <2>2, <2>3
<1> HIDE DEF counted
<1>5. CASE hash = NoHash
  BY <1>1, <1>4, <1>5 DEF Totalling
<1>6. CASE hash # NoHash /\ hash \in DOMAIN counted.items
  <2>1. hash \in DOMAIN r.items
    BY <1>3, <1>6 DEF RelayFields
  <2> QED BY <1>2, <1>4, <1>6, <2>1, LateFits
<1>7. CASE hash # NoHash /\ hash \notin DOMAIN counted.items /\ IsFull(counted)
  <2> DEFINE u == Untrack(counted)
  <2>1. /\ HasFields(u, RelayFields) /\ u.untracked = r.untracked + 1
        /\ \A f \in RelayFields \ {"untracked"} : u[f] = counted[f]
    BY <1>3 DEF Untrack, HasFields, RelayFields
  <2>2. /\ u.items = r.items /\ u.origin = r.origin /\ u.peers = r.peers /\ u.lag = r.lag
        /\ u.heardToHeld = r.heardToHeld /\ u.lateAnnouncements = r.lateAnnouncements
        /\ u.duplicateDeliveries = r.duplicateDeliveries /\ u.duplicateBytes = r.duplicateBytes
        /\ u.announcements = r.announcements + 1 /\ u.deliveries = r.deliveries
    BY <1>3, <2>1 DEF RelayFields
  <2> HIDE DEF u
  <2>3. /\ u.announcements \in Nat /\ u.deliveries \in Nat
        /\ u.announcements + u.deliveries = r.announcements + r.deliveries + 1
    BY <1>1, <2>2 DEF Totalling
  <2>4. RelayFits(u)
    BY <2>1, <2>2, <2>3, UntrackedFits
  <2> QED BY <1>4, <1>7, <2>2, <2>4 DEF u
<1>8. CASE hash # NoHash /\ hash \notin DOMAIN counted.items /\ ~IsFull(counted)
  BY <1>2, <1>4, <1>8, FirstFits
<1> QED BY <1>5, <1>6, <1>7, <1>8

(* The first call sets the origin, which nothing told of depends on. *)
LEMMA AnchoredFits ==
  ASSUME NEW r, RelayFits(r), NEW timestamp \in Nat
  PROVE  /\ RelayFits(Anchored(r, timestamp))
         /\ Anchored(r, timestamp).announcements = r.announcements
         /\ Anchored(r, timestamp).items = r.items
         /\ Offset(Anchored(r, timestamp), timestamp) \in Nat
<1> DEFINE u == Anchored(r, timestamp)
<1>1. HasFields(r, RelayFields) /\ r.origin \in Int
  BY DEF RelayFits, IsRelay
<1>2. HasFields(u, RelayFields) /\ u.origin \in Int /\ \A f \in RelayFields \ {"origin"} : u[f] = r[f]
  BY <1>1 DEF Anchored, HasFields, RelayFields
<1> HIDE DEF u
<1>3. /\ u.items = r.items /\ u.peers = r.peers /\ u.announcements = r.announcements
      /\ u.deliveries = r.deliveries /\ u.duplicateDeliveries = r.duplicateDeliveries
      /\ u.duplicateBytes = r.duplicateBytes /\ u.lateAnnouncements = r.lateAnnouncements
      /\ u.untracked = r.untracked /\ u.lag = r.lag /\ u.heardToHeld = r.heardToHeld
  BY <1>2 DEF RelayFields
<1>4. IsRelay(u)
  BY <1>2, <1>3 DEF RelayFits, IsRelay
<1>5. Totalling(u)
  BY <1>3 DEF RelayFits, Totalling
<1>6. RelayFits(u)
  BY <1>3, <1>4, <1>5 DEF RelayFits
<1>7. Offset(u, timestamp) \in Nat
  BY <1>2, RelayAssumption DEF Offset, Smaller, Larger
<1> QED BY <1>3, <1>6, <1>7 DEF u

(* An inventory is taken up an item at a time. *)
StepByStep(r, timestamp, p, items, n, g) ==
  LET start == Anchored(r, timestamp)
      now == Offset(start, timestamp)
  IN /\ g[0] = start /\ Announce(r, timestamp, p, items) = g[n]
     /\ \A k \in 0 .. n : k < n =>
          g[k + 1] = AnnounceItem(g[k], p, now, TransactionHash(items[k + 1]))

LEMMA AnnounceInSteps ==
  ASSUME NEW r, NEW timestamp, NEW p, NEW items, NEW n \in Nat, DOMAIN items = 1 .. n
  PROVE  \E g : StepByStep(r, timestamp, p, items, n, g)
<1> DEFINE start == Anchored(r, timestamp)
           now == Offset(start, timestamp)
<1>2. PICK f : /\ Announcing(start, p, now, items, SUBSET (1 .. n), f)
               /\ Announce(r, timestamp, p, items) = f[1 .. n]
  <2>1. 1 .. n \in SUBSET (0 .. n)
    OBVIOUS
  <2>2. \E f : Announcing(start, p, now, items, SUBSET (1 .. n), f)
    BY <2>1, AnnouncingExists
  <2> DEFINE chosen == CHOOSE f : Announcing(start, p, now, items, SUBSET (1 .. n), f)
  <2>3. Announcing(start, p, now, items, SUBSET (1 .. n), chosen)
    BY <2>2
  <2>4. Announce(r, timestamp, p, items) = chosen[1 .. n]
    BY AnnounceIsChosen
  <2> QED BY <2>3, <2>4
<1> HIDE DEF start, now
<1>3. f[{}] = start /\ \A s \in SUBSET (1 .. n) : s # {} =>
        f[s] = AnnounceItem(f[s \ {Max(s)}], p, now, TransactionHash(items[Max(s)]))
  BY <1>2 DEF Announcing
<1> DEFINE g == [k \in 0 .. n |-> f[1 .. k]]
<1>4. g[0] = start /\ g[n] = f[1 .. n]
  <2>1. 1 .. 0 = {}
    OBVIOUS
  <2> QED BY <1>3, <2>1
<1>5. \A k \in 0 .. n : k < n => g[k + 1] = AnnounceItem(g[k], p, now, TransactionHash(items[k + 1]))
  <2> SUFFICES ASSUME NEW k \in 0 .. n, k < n
               PROVE  g[k + 1] = AnnounceItem(g[k], p, now, TransactionHash(items[k + 1]))
    OBVIOUS
  <2> DEFINE s == 1 .. k + 1
  <2>1. s \in SUBSET (1 .. n) /\ s # {} /\ s \in SUBSET Nat /\ k + 1 \in s
        /\ (\A y \in s : y <= k + 1) /\ s \ {k + 1} = 1 .. k
    <3>1. k \in Nat /\ k + 1 <= n
      OBVIOUS
    <3>2. s \in SUBSET (1 .. n) /\ s # {} /\ s \in SUBSET Nat /\ k + 1 \in s
      BY <3>1
    <3>3. \A y \in s : y <= k + 1
      BY <3>1
    <3>4. s \ {k + 1} = 1 .. k
      BY <3>1
    <3> QED BY <3>2, <3>3, <3>4
  <2>2. Max(s) = k + 1
    BY <2>1, GreatestIsMax
  <2>3. f[s] = AnnounceItem(f[1 .. k], p, now, TransactionHash(items[k + 1]))
    <3> HIDE DEF s
    <3> QED BY <1>3, <2>1, <2>2
  <2>4. g[k + 1] = f[s] /\ g[k] = f[1 .. k]
    OBVIOUS
  <2> QED BY <2>3, <2>4
<1>6. Announce(r, timestamp, p, items) = g[n]
  BY <1>2, <1>4
<1> HIDE DEF g
<1>7. StepByStep(r, timestamp, p, items, n, g)
  BY <1>4, <1>5, <1>6 DEF StepByStep, start, now
<1> QED BY <1>7

(* The items of an inventory that are transactions. *)
Transactions(items, k) == {j \in 1 .. k : TransactionHash(items[j]) # NoHash}

LEMMA AnnounceFits ==
  ASSUME NEW r, RelayFits(r), NEW timestamp \in Nat, NEW p, NEW items,
         NEW n \in Nat, DOMAIN items = 1 .. n
  PROVE  LET u == Announce(r, timestamp, p, items)
         IN RelayFits(u) /\ u.announcements = r.announcements + Cardinality(Transactions(items, n))
<1> DEFINE start == Anchored(r, timestamp)
           now == Offset(start, timestamp)
<1>1. RelayFits(start) /\ start.announcements = r.announcements /\ now \in Nat
  BY AnchoredFits
<1>2. PICK g : StepByStep(r, timestamp, p, items, n, g)
  BY AnnounceInSteps
<1>3. /\ g[0] = start /\ Announce(r, timestamp, p, items) = g[n]
      /\ \A k \in 0 .. n : k < n =>
           g[k + 1] = AnnounceItem(g[k], p, now, TransactionHash(items[k + 1]))
  BY <1>2, Zenon DEF StepByStep
<1> HIDE DEF start, now
<1> DEFINE T == {k \in 0 .. n :
                   /\ RelayFits(g[k])
                   /\ g[k].announcements = r.announcements + Cardinality(Transactions(items, k))}
<1>4. r.announcements \in Nat
  BY DEF RelayFits, Totalling
<1>5. 0 \in T
  <2>1. Transactions(items, 0) = {}
    BY DEF Transactions
  <2>2. Cardinality({}) = 0
    BY FS_EmptySet
  <2>3. g[0] = start /\ Cardinality(Transactions(items, 0)) = 0
    BY <1>3, <2>1, <2>2
  <2> HIDE DEF T
  <2>4. RelayFits(g[0]) /\ g[0].announcements = r.announcements + Cardinality(Transactions(items, 0))
    BY <1>1, <1>4, <2>3
  <2> QED BY <2>4 DEF T
<1>6. \A k \in 0 .. n : k \in T /\ k < n => k + 1 \in T
  <2> SUFFICES ASSUME NEW k \in 0 .. n, k \in T, k < n PROVE k + 1 \in T
    OBVIOUS
  <2> DEFINE hash == TransactionHash(items[k + 1])
  <2>3. g[k + 1] = AnnounceItem(g[k], p, now, hash)
    BY <1>3
  <2>4. RelayFits(g[k]) /\ g[k].announcements = r.announcements + Cardinality(Transactions(items, k))
    OBVIOUS
  <2>5. /\ RelayFits(g[k + 1])
        /\ g[k + 1].announcements = g[k].announcements + (IF hash = NoHash THEN 0 ELSE 1)
    <3> HIDE DEF hash, T
    <3> QED BY <1>1, <2>3, <2>4, ItemFits
  <2>6. Cardinality(Transactions(items, k + 1)) = Cardinality(Transactions(items, k)) + (IF hash = NoHash THEN 0 ELSE 1)
        /\ Cardinality(Transactions(items, k)) \in Nat
    <3> DEFINE old == Transactions(items, k)
    <3>1. IsFiniteSet(old) /\ k + 1 \notin old
          /\ Transactions(items, k + 1) = IF hash = NoHash THEN old ELSE old \cup {k + 1}
      <4>1. old \in SUBSET (1 .. k) /\ IsFiniteSet(1 .. k)
        BY FS_Interval DEF Transactions
      <4>2. IsFiniteSet(old)
        BY <4>1, FS_Subset
      <4>3. Transactions(items, k + 1) = IF hash = NoHash THEN old ELSE old \cup {k + 1}
        BY DEF Transactions
      <4> QED BY <4>1, <4>2, <4>3
    <3> HIDE DEF old, hash
    <3>2. Cardinality(old) \in Nat /\ Cardinality(old \cup {k + 1}) = Cardinality(old) + 1
      BY <3>1, FS_CardinalityType, FS_AddElement
    <3> QED BY <3>1, <3>2 DEF old
  <2>7. g[k + 1].announcements = r.announcements + Cardinality(Transactions(items, k + 1))
    <3> HIDE DEF hash, T
    <3> QED BY <1>4, <2>4, <2>5, <2>6
  <2> QED BY <2>5, <2>7
<1>7. 0 .. n \subseteq T
  <2> HIDE DEF T
  <2> QED BY <1>5, <1>6, CountingUp
<1>8. n \in T
  BY <1>7
<1> QED BY <1>3, <1>8

LEMMA DeliverFits ==
  ASSUME NEW r, RelayFits(r), NEW timestamp \in Nat, NEW p, NEW txid, NEW wtxid, NEW size \in Nat
  PROVE  LET u == Deliver(r, timestamp, p, txid, wtxid, size)
         IN RelayFits(u) /\ u.announcements = r.announcements
<1> DEFINE start == Anchored(r, timestamp)
           counted == [start EXCEPT !.deliveries = @ + 1, !.deliveredBytes = @ + size]
           now == Offset(counted, timestamp)
           key == DeliveryKey(r, txid, wtxid)
<1>1. /\ RelayFits(start) /\ start.announcements = r.announcements /\ start.items = r.items
      /\ Offset(start, timestamp) \in Nat
  BY AnchoredFits
<1> HIDE DEF start
<1>2. HasFields(start, RelayFields) /\ Totalling(start)
  BY <1>1 DEF RelayFits, IsRelay
<1>3. counted = Given(start, size)
  BY DEF Given
<1>4. /\ HasFields(counted, RelayFields) /\ counted.deliveries = start.deliveries + 1
      /\ \A f \in RelayFields \ {"deliveries", "deliveredBytes"} : counted[f] = start[f]
  BY <1>2 DEF HasFields, RelayFields
<1>5. Deliver(r, timestamp, p, txid, wtxid, size) =
        IF txid = NoHash THEN r
        ELSE IF key \in DOMAIN r.items THEN KnownDelivery(counted, p, key, now, size)
        ELSE IF IsFull(r) THEN Untrack(counted)
        ELSE UnannouncedDelivery(counted, p, key, now)
  BY Zenon DEF Deliver, start
<1> HIDE DEF counted, key
<1>6. now \in Nat
  <2>1. counted.origin = start.origin
    BY <1>4 DEF RelayFields
  <2>2. now = Offset(start, timestamp)
    BY <2>1 DEF Offset
  <2> QED BY <1>1, <2>2
<1> HIDE DEF now
<1>7. CASE txid = NoHash
  BY <1>5, <1>7
<1>8. CASE txid # NoHash /\ key \in DOMAIN r.items
  <2>1. /\ RelayFits(KnownDelivery(Given(start, size), p, key, now, size))
        /\ KnownDelivery(Given(start, size), p, key, now, size).announcements = start.announcements
    BY <1>1, <1>6, <1>8, KnownFits
  <2> QED BY <1>1, <1>3, <1>5, <1>8, <2>1
<1>9. CASE txid # NoHash /\ key \notin DOMAIN r.items /\ IsFull(r)
  <2> DEFINE u == Untrack(counted)
  <2>1. /\ HasFields(u, RelayFields) /\ u.untracked = counted.untracked + 1
        /\ \A f \in RelayFields \ {"untracked"} : u[f] = counted[f]
    BY <1>4 DEF Untrack, HasFields, RelayFields
  <2>2. /\ u.items = start.items /\ u.origin = start.origin /\ u.peers = start.peers /\ u.lag = start.lag
        /\ u.heardToHeld = start.heardToHeld /\ u.lateAnnouncements = start.lateAnnouncements
        /\ u.duplicateDeliveries = start.duplicateDeliveries /\ u.duplicateBytes = start.duplicateBytes
        /\ u.announcements = start.announcements /\ u.deliveries = start.deliveries + 1
        /\ u.untracked = start.untracked + 1
    BY <1>4, <2>1 DEF RelayFields
  <2> HIDE DEF u
  <2>3. /\ u.announcements \in Nat /\ u.deliveries \in Nat
        /\ u.announcements + u.deliveries = start.announcements + start.deliveries + 1
    BY <1>2, <2>2 DEF Totalling
  <2>4. RelayFits(u)
    BY <1>1, <2>1, <2>2, <2>3, UntrackedFits
  <2> QED BY <1>1, <1>5, <1>9, <2>2, <2>4 DEF u
<1>10. CASE txid # NoHash /\ key \notin DOMAIN r.items /\ ~IsFull(r)
  BY <1>1, <1>3, <1>5, <1>6, <1>10, UnannouncedFits
<1> QED BY <1>7, <1>8, <1>9, <1>10

-----------------------------------------------------------------------------
(***************************************************************************)
(* What the statistics say of the log: the announcements are those of the  *)
(* inventories it holds.                                                   *)
(***************************************************************************)
IsInv(e) == e.class = "message" /\ e.inbound /\ e.message.command = "inv"

AnnouncedBy(e) == {j \in DOMAIN e.message.items : TransactionHash(e.message.items[j]) # NoHash}

InventoriesOf(events) == {i \in DOMAIN events : IsInv(events[i])}

InventoryCounts(events) == [i \in InventoriesOf(events) |-> Cardinality(AnnouncedBy(events[i]))]

RelayInv ==
  /\ RelayFits(relay)
  /\ relay.announcements = SumFunctionOnSet(InventoryCounts(log), InventoriesOf(log))

LEMMA InventoryIs ==
  ASSUME NEW e \in AllEvents
  PROVE  /\ e.class = "message" => e.timestamp \in Nat /\ e.size \in Nat
         /\ IsInv(e) => \E n \in Nat : DOMAIN e.message.items = 1 .. n
         /\ Cardinality(IF IsInv(e) THEN AnnouncedBy(e) ELSE {}) \in Nat
<1>1. PICK events \in Archives : e \in events
  BY DEF AllEvents
<1>2. e.class = "message" => e.timestamp \in Nat /\ e.size \in Nat
  BY EventIs
<1>3. IsInv(e) => \E n \in Nat : DOMAIN e.message.items = 1 .. n
  <2> SUFFICES ASSUME IsInv(e) PROVE \E n \in Nat : DOMAIN e.message.items = 1 .. n
    OBVIOUS
  <2> DEFINE items == e.message.items
  <2>1. items \in Seq(Range(items))
    BY <1>1, EventsAssumption DEF IsInv
  <2> HIDE DEF items
  <2>2. Len(items) \in Nat /\ DOMAIN items = 1 .. Len(items)
    BY <2>1, LenProperties
  <2> QED BY <2>2 DEF items
<1>4. Cardinality(IF IsInv(e) THEN AnnouncedBy(e) ELSE {}) \in Nat
  <2>1. CASE IsInv(e)
    <3>1. PICK n \in Nat : DOMAIN e.message.items = 1 .. n
      BY <1>3, <2>1
    <3>2. IsFiniteSet(1 .. n) /\ AnnouncedBy(e) \in SUBSET (1 .. n)
      BY <3>1, FS_Interval DEF AnnouncedBy
    <3>3. IsFiniteSet(AnnouncedBy(e))
      BY <3>2, FS_Subset
    <3> QED BY <2>1, <3>3, FS_CardinalityType
  <2>2. CASE ~IsInv(e)
    BY <2>2, FS_EmptySet
  <2> QED BY <2>1, <2>2
<1> QED BY <1>2, <1>3, <1>4

(* What one event does to the statistics. *)
LEMMA EventRelayed ==
  ASSUME NEW r, RelayFits(r), NEW e \in AllEvents
  PROVE  /\ RelayFits(RelayAfter(r, e))
         /\ RelayAfter(r, e).announcements
              = r.announcements + (IF IsInv(e) THEN Cardinality(AnnouncedBy(e)) ELSE 0)
<1>0. r.announcements \in Nat
  BY DEF RelayFits, Totalling
<1>1. CASE IsInv(e)
  <2>1. PICK n \in Nat : DOMAIN e.message.items = 1 .. n
    BY <1>1, InventoryIs
  <2>2. RelayAfter(r, e) = Announce(r, e.timestamp, e.peer, e.message.items)
    BY <1>1 DEF RelayAfter, RecordRelay, IsInv
  <2>3. e.timestamp \in Nat
    BY <1>1, InventoryIs DEF IsInv
  <2>4. Transactions(e.message.items, n) = AnnouncedBy(e)
    BY <2>1 DEF Transactions, AnnouncedBy
  <2> QED BY <1>1, <2>1, <2>2, <2>3, <2>4, AnnounceFits
<1>2. CASE e.class = "message" /\ e.inbound /\ e.message.command = "tx"
  <2>1. ~IsInv(e)
    BY <1>2 DEF IsInv
  <2>2. RelayAfter(r, e) = Deliver(r, e.timestamp, e.peer, e.message.ids[1], e.message.ids[2], e.size)
    BY <1>2 DEF RelayAfter, RecordRelay
  <2>3. e.timestamp \in Nat /\ e.size \in Nat
    BY <1>2, InventoryIs
  <2> QED BY <1>0, <2>1, <2>2, <2>3, DeliverFits
<1>3. CASE ~IsInv(e) /\ ~(e.class = "message" /\ e.inbound /\ e.message.command = "tx")
  <2>1. RelayAfter(r, e) = r
    BY <1>3 DEF RelayAfter, RecordRelay, IsInv
  <2> QED BY <1>0, <1>3, <2>1
<1> QED BY <1>1, <1>2, <1>3

LEMMA InventoriesGrow ==
  ASSUME LogInv, NEW e \in archive, IngestEvent(e)
  PROVE  /\ IsFiniteSet(InventoriesOf(log)) /\ \A i \in InventoriesOf(log) : InventoryCounts(log)[i] \in Nat
         /\ SumFunctionOnSet(InventoryCounts(log'), InventoriesOf(log'))
              = SumFunctionOnSet(InventoryCounts(log), InventoriesOf(log))
                  + (IF IsInv(e) THEN Cardinality(AnnouncedBy(e)) ELSE 0)
<1> DEFINE x == Len(log) + 1
           S == InventoriesOf(log)
           f == InventoryCounts(log)
           g == InventoryCounts(log')
           S2 == InventoriesOf(log')
<1>1. /\ e \in AllEvents /\ Len(log) \in Nat
      /\ DOMAIN log = 1 .. Len(log) /\ DOMAIN log' = 1 .. Len(log) + 1
      /\ log'[Len(log) + 1] = e
      /\ \A i \in DOMAIN log : i \in DOMAIN log' /\ log'[i] = log[i]
  BY LogGrows
<1>2. \A i \in DOMAIN log : log[i] \in AllEvents
  BY <1>1 DEF LogInv
<1>3. S2 = (IF IsInv(e) THEN S \cup {x} ELSE S) /\ x \notin S /\ S \in SUBSET (1 .. Len(log))
  BY <1>1 DEF InventoriesOf
<1>4. IsFiniteSet(S)
  <2>1. IsFiniteSet(1 .. Len(log))
    BY <1>1, FS_Interval
  <2> QED BY <1>3, <2>1, FS_Subset
<1>5. \A i \in S : f[i] \in Nat
  <2> TAKE i \in S
  <2>1. log[i] \in AllEvents /\ IsInv(log[i])
    BY <1>1, <1>2, <1>3 DEF InventoriesOf
  <2>2. Cardinality(AnnouncedBy(log[i])) \in Nat
    BY <2>1, InventoryIs
  <2> QED BY <2>2 DEF InventoryCounts
<1>6. \A i \in S : g[i] = f[i]
  BY <1>1, <1>3 DEF InventoryCounts
<1>7. IsInv(e) => g[x] = Cardinality(AnnouncedBy(e)) /\ g[x] \in Nat
  BY <1>1, <1>3, InventoryIs DEF InventoryCounts
<1>8. SumFunctionOnSet(g, S) = SumFunctionOnSet(f, S) /\ SumFunctionOnSet(f, S) \in Nat
  <2> HIDE DEF f, g, S
  <2> QED BY <1>4, <1>5, <1>6, SumSame, SumType
<1>9. CASE IsInv(e)
  <2>1. \A i \in S \cup {x} : g[i] \in Nat
    BY <1>5, <1>6, <1>7, <1>9
  <2> HIDE DEF f, g, S, S2, x
  <2>2. SumFunctionOnSet(g, S \cup {x}) = g[x] + SumFunctionOnSet(g, S)
    BY <1>3, <1>4, <2>1, SumAdd
  <2>3. SumFunctionOnSet(g, S2) = SumFunctionOnSet(f, S) + Cardinality(AnnouncedBy(e))
    BY <1>3, <1>7, <1>8, <1>9, <2>2
  <2> QED BY <1>4, <1>5, <1>9, <2>3 DEF f, g, S, S2
<1>10. CASE ~IsInv(e)
  <2> HIDE DEF f, g, S, S2
  <2>1. SumFunctionOnSet(g, S2) = SumFunctionOnSet(f, S) + 0
    BY <1>3, <1>8, <1>10
  <2> QED BY <1>4, <1>5, <1>10, <2>1 DEF f, g, S, S2
<1> QED BY <1>9, <1>10

LEMMA RelayInit == Init => RelayInv
<1> SUFFICES ASSUME Init PROVE RelayInv
  OBVIOUS
<1> DEFINE r == NewRelay
<1>1. /\ HasFields(r, RelayFields) /\ r.origin \in Int
      /\ DOMAIN r.items = {} /\ DOMAIN r.peers = {} /\ r.lag = NoSamples /\ r.heardToHeld = NoSamples
      /\ r.announcements = 0 /\ r.deliveries = 0 /\ r.untracked = 0 /\ r.lateAnnouncements = 0
      /\ r.duplicateDeliveries = 0 /\ r.duplicateBytes = 0
  BY DEF NewRelay, HasFields, RelayFields, NoOrigin
<1> HIDE DEF r
<1>2. \A f : FieldSum(r.peers, f) = 0
  <2> TAKE f
  <2> QED BY <1>1, SumEmpty DEF FieldSum
<1>3. Totalling(r)
  BY <1>1, <1>2 DEF Totalling
<1>4. \A f : Shared(NoSamples, OnCards(r.peers, f))
  <2> TAKE f
  <2>1. DOMAIN OnCards(r.peers, f) = {}
    BY <1>1 DEF OnCards
  <2> QED BY <2>1, SharedNone
<1>5. IsRelay(r)
  BY <1>1, FS_EmptySet DEF IsRelay
<1>6. RelayFits(r)
  BY <1>1, <1>3, <1>4, <1>5 DEF RelayFits, NoSamples
<1>7. relay = r /\ InventoriesOf(log) = {}
  BY DEF Init, InventoriesOf, r
<1>8. SumFunctionOnSet(InventoryCounts(log), InventoriesOf(log)) = 0
  BY <1>7, SumEmpty
<1> QED BY <1>1, <1>6, <1>7, <1>8 DEF RelayInv

LEMMA RelayStep == LogInv /\ RelayInv /\ [Next]_vars => RelayInv'
<1> SUFFICES ASSUME LogInv, RelayInv, [Next]_vars PROVE RelayInv'
  OBVIOUS
<1>1. CASE Next
  <2>1. PICK e \in archive : IngestEvent(e)
    BY <1>1 DEF Next
  <2>2. e \in AllEvents /\ relay' = RelayAfter(relay, e)
    BY <2>1, LogGrows DEF IngestEvent
  <2>3. /\ RelayFits(relay')
        /\ relay'.announcements = relay.announcements + (IF IsInv(e) THEN Cardinality(AnnouncedBy(e)) ELSE 0)
    BY <2>2, EventRelayed DEF RelayInv
  <2>4. SumFunctionOnSet(InventoryCounts(log'), InventoriesOf(log'))
          = relay.announcements + (IF IsInv(e) THEN Cardinality(AnnouncedBy(e)) ELSE 0)
    BY <2>1, InventoriesGrow DEF RelayInv
  <2>5. RelayInv' = (/\ RelayFits(relay')
                     /\ relay'.announcements = SumFunctionOnSet(InventoryCounts(log'), InventoriesOf(log')))
    BY DEF RelayInv, RelayFits, IsRelay, Totalling, InventoryCounts, InventoriesOf
  <2> QED BY <2>3, <2>4, <2>5
<1>2. CASE UNCHANGED vars
  BY <1>2 DEF vars, RelayInv
<1> QED BY <1>1, <1>2

(* The scorecards add up, in every state: all that was announced or delivered
   is told of on one of them or was left untracked, and the totals are the
   archive's own (the module's RelayIsConserved, for relay.rs, totals). *)
LEMMA ConservedIf == LogInv /\ RelayInv => RelayIsConserved
<1> SUFFICES ASSUME LogInv, RelayInv PROVE RelayIsConserved
  OBVIOUS
<1> DEFINE all == Totals(relay)
<1>1. RelayFits(relay) /\ IsRelay(relay) /\ Totalling(relay)
  BY DEF RelayInv, RelayFits
<1>2. \A f \in CountFields : all[f] = FieldSum(relay.peers, f)
  <2> TAKE f \in CountFields
  <2>1. IsFiniteSet(DOMAIN relay.peers) /\ \A q \in DOMAIN relay.peers : relay.peers[q][f] \in Nat
    BY <1>1 DEF IsRelay, IsCard
  <2> QED BY <2>1, TotalsAre
<1>3. all["lag"] = relay.lag /\ all["heardToHeld"] = relay.heardToHeld
  <2>1. IsFiniteSet(DOMAIN relay.peers)
    BY <1>1 DEF IsRelay
  <2>2. Shared(relay.lag, OnCards(relay.peers, "lag"))
        /\ Shared(relay.heardToHeld, OnCards(relay.peers, "heardToHeld"))
    BY <1>1 DEF RelayFits
  <2> QED BY <2>1, <2>2, TotalsAre DEF SampleFields
<1> HIDE DEF all
<1>4. /\ all.first = FieldSum(relay.peers, "first") /\ all.late = FieldSum(relay.peers, "late")
      /\ all.delivered = FieldSum(relay.peers, "delivered")
      /\ all.duplicate = FieldSum(relay.peers, "duplicate")
      /\ all.duplicateBytes = FieldSum(relay.peers, "duplicateBytes")
      /\ all.lag = relay.lag /\ all.heardToHeld = relay.heardToHeld
  BY <1>2, <1>3 DEF CountFields
<1>5. /\ relay.announcements + relay.deliveries = all.first + all.late + all.delivered + relay.untracked
      /\ all.late = relay.lateAnnouncements
      /\ all.duplicate = relay.duplicateDeliveries /\ all.duplicateBytes = relay.duplicateBytes
  BY <1>1, <1>4 DEF Totalling
<1>6. all.late = all.lag.count
  BY <1>1, <1>4, <1>5 DEF RelayFits
<1>7. RelayPeers = DOMAIN relay.peers
  BY <1>1 DEF RelayPeers, RelayFits, Recorded
<1>8. Inbound("inv") = InventoriesOf(log)
  BY DEF Inbound, InventoriesOf, IsInv
<1>9. MapThenSumSet(LAMBDA i : Cardinality(AnnouncedIn(i)), Inbound("inv"))
        = SumFunctionOnSet(InventoryCounts(log), InventoriesOf(log))
  <2> DEFINE S == Inbound("inv")
             f == [i \in S |-> Cardinality(AnnouncedIn(i))]
  <2>1. MapThenSumSet(LAMBDA i : Cardinality(AnnouncedIn(i)), S) = (CHOOSE g : AddsUp(f, S, g))[S]
    BY DEF MapThenSumSet, MapThenFoldSet, AddsUp, Adds, AnyOf
  <2>2. SumFunctionOnSet(f, S) = (CHOOSE g : AddsUp(f, S, g))[S]
    BY SumIsChosen
  <2>3. f = InventoryCounts(log)
    BY <1>8 DEF InventoryCounts, AnnouncedIn, AnnouncedBy
  <2> QED BY <1>8, <2>1, <2>2, <2>3
<1> QED BY <1>3, <1>4, <1>5, <1>6, <1>7, <1>9 DEF RelayIsConserved, RelayInv, all

(* RelayIsConserved, whatever the archive holds and however long it is. *)
THEOREM RelayAddsUp == Spec => []RelayIsConserved
<1>1. Init => RelayInv
  BY RelayInit
<1>2. TableInv /\ RelayInv /\ [Next]_vars => RelayInv'
  BY RelayStep DEF TableInv
<1>3. TableInv /\ RelayInv => RelayIsConserved
  BY ConservedIf DEF TableInv
<1> QED BY <1>1, <1>2, <1>3, TablesHoldTogether, PTL DEF Spec

-----------------------------------------------------------------------------
(***************************************************************************)
(* What the statistics tell of single transactions: the hashes they hold   *)
(* an entry for, those announced and those delivered.  A scorecard says    *)
(* nothing of it.                                                          *)
(***************************************************************************)
Heralded(r) == {k \in DOMAIN r.items : r.items[k].announcements > 0}
Received(r) == {k \in DOMAIN r.items : r.items[k].deliveries > 0}

SameButCards(r, u) ==
  /\ u.items = r.items /\ u.untracked = r.untracked
  /\ u.duplicateDeliveries = r.duplicateDeliveries /\ u.heardToHeld = r.heardToHeld

LEMMA CardLeavesRest ==
  ASSUME NEW r, HasFields(r, RelayFields), NEW p, NEW card
  PROVE  SameButCards(r, WithPeer(r, p, card))
BY DEF SameButCards, WithPeer, HasFields, RelayFields

LEMMA HeardLeavesRest ==
  ASSUME NEW r, HasFields(r, RelayFields)
  PROVE  HasFields(Heard(r), RelayFields) /\ SameButCards(r, Heard(r))
BY DEF SameButCards, Heard, HasFields, RelayFields

LEMMA GivenLeavesRest ==
  ASSUME NEW r, HasFields(r, RelayFields), NEW size
  PROVE  HasFields(Given(r, size), RelayFields) /\ SameButCards(r, Given(r, size))
BY DEF SameButCards, Given, HasFields, RelayFields

LEMMA AnchorLeavesRest ==
  ASSUME NEW r, HasFields(r, RelayFields), NEW timestamp
  PROVE  HasFields(Anchored(r, timestamp), RelayFields) /\ SameButCards(r, Anchored(r, timestamp))
BY DEF SameButCards, Anchored, HasFields, RelayFields

(* u is r with these hashes announced, all of them tracked. *)
Announces(r, u, H) ==
  /\ DOMAIN u.items = DOMAIN r.items \cup H
  /\ Heralded(u) = Heralded(r) \cup H /\ Received(u) = Received(r)
  /\ u.duplicateDeliveries = r.duplicateDeliveries /\ u.heardToHeld = r.heardToHeld

LEMMA ItemTracked ==
  ASSUME NEW r, RelayFits(r), NEW p, NEW now \in Nat, NEW hash
  PROVE  LET u == AnnounceItem(r, p, now, hash)
         IN /\ r.untracked <= u.untracked
            /\ u.untracked = r.untracked => Announces(r, u, {hash} \ {NoHash})
<1> DEFINE counted == [r EXCEPT !.announcements = @ + 1]
           old == PeerRelay(counted, p)
<1>1. /\ HasFields(r, RelayFields) /\ r.untracked \in Nat
      /\ \A h \in DOMAIN r.items : IsEntry(r.items[h])
  BY DEF RelayFits, IsRelay, Totalling
<1>2. HasFields(counted, RelayFields) /\ SameButCards(r, counted)
  BY <1>1, HeardLeavesRest DEF Heard
<1>3. counted.items = r.items /\ counted.untracked = r.untracked
  BY <1>2 DEF SameButCards
<1>4. AnnounceItem(r, p, now, hash) =
        IF hash = NoHash THEN r
        ELSE IF hash \in DOMAIN r.items THEN LateAnnouncement(counted, p, hash, now)
        ELSE IF IsFull(r) THEN Untrack(counted)
        ELSE FirstAnnouncement(counted, p, hash, now)
  BY Zenon DEF AnnounceItem
<1> HIDE DEF counted, old
<1>5. CASE hash = NoHash
  <2>1. AnnounceItem(r, p, now, hash) = r /\ {hash} \ {NoHash} = {}
    BY <1>4, <1>5
  <2> QED BY <1>1, <2>1 DEF Announces
<1>6. CASE hash # NoHash /\ hash \in DOMAIN r.items
  <2> DEFINE lag == Lag(now, counted.items[hash])
             base == [counted EXCEPT !.items[hash].announcements = @ + 1,
                                     !.lateAnnouncements = @ + 1, !.lag = Add(@, lag)]
             card == [old EXCEPT !.late = @ + 1, !.lag = Add(@, lag)]
             u == WithPeer(base, p, card)
  <2>1. LateAnnouncement(counted, p, hash, now) = u
    BY Zenon DEF LateAnnouncement, old
  <2> HIDE DEF lag, card
  <2>2. /\ HasFields(base, RelayFields) /\ base.untracked = counted.untracked
        /\ base.items = [counted.items EXCEPT ![hash].announcements = @ + 1]
        /\ base.duplicateDeliveries = counted.duplicateDeliveries /\ base.heardToHeld = counted.heardToHeld
    BY <1>2 DEF HasFields, RelayFields
  <2> HIDE DEF base
  <2>3. SameButCards(base, u)
    BY <2>2, CardLeavesRest
  <2> HIDE DEF u
  <2>4. /\ u.items = [r.items EXCEPT ![hash].announcements = @ + 1]
        /\ u.untracked = r.untracked
        /\ u.duplicateDeliveries = r.duplicateDeliveries /\ u.heardToHeld = r.heardToHeld
    BY <1>2, <2>2, <2>3 DEF SameButCards
  <2>5. DOMAIN u.items = DOMAIN r.items /\ {hash} \ {NoHash} = {hash}
    BY <1>6, <2>4
  <2>6. \A k \in DOMAIN r.items :
          /\ u.items[k].deliveries = r.items[k].deliveries
          /\ u.items[k].announcements = IF k = hash THEN r.items[k].announcements + 1 ELSE r.items[k].announcements
          /\ r.items[k].announcements \in Nat
    BY <1>1, <2>4 DEF IsEntry
  <2>7. Heralded(u) = Heralded(r) \cup {hash} /\ Received(u) = Received(r)
    BY <1>6, <2>5, <2>6 DEF Heralded, Received
  <2> QED BY <1>1, <1>4, <1>6, <2>1, <2>4, <2>5, <2>7 DEF Announces
<1>7. CASE hash # NoHash /\ hash \notin DOMAIN r.items /\ IsFull(r)
  <2>1. Untrack(counted).untracked = counted.untracked + 1
    BY <1>2 DEF Untrack, HasFields, RelayFields
  <2> QED BY <1>1, <1>3, <1>4, <1>7, <2>1
<1>8. CASE hash # NoHash /\ hash \notin DOMAIN r.items /\ ~IsFull(r)
  <2> DEFINE entry == [first |-> now, announcements |-> 1, deliveries |-> 0]
             base == WithItem(counted, hash, entry)
             card == [old EXCEPT !.first = @ + 1]
             u == WithPeer(base, p, card)
  <2>1. FirstAnnouncement(counted, p, hash, now) = u
    BY Zenon DEF FirstAnnouncement, old
  <2> HIDE DEF card
  <2>2. /\ HasFields(base, RelayFields) /\ base.untracked = counted.untracked
        /\ base.items = With(counted.items, hash, entry)
        /\ base.duplicateDeliveries = counted.duplicateDeliveries /\ base.heardToHeld = counted.heardToHeld
    BY <1>2 DEF HasFields, RelayFields, WithItem
  <2> HIDE DEF base
  <2>3. SameButCards(base, u)
    BY <2>2, CardLeavesRest
  <2> HIDE DEF u
  <2>4. /\ u.items = With(r.items, hash, entry) /\ u.untracked = r.untracked
        /\ u.duplicateDeliveries = r.duplicateDeliveries /\ u.heardToHeld = r.heardToHeld
    BY <1>2, <2>2, <2>3 DEF SameButCards
  <2>5. DOMAIN u.items = DOMAIN r.items \cup {hash} /\ {hash} \ {NoHash} = {hash}
    BY <1>8, <2>4 DEF With
  <2>6. \A k \in DOMAIN u.items :
          u.items[k] = IF k = hash THEN entry ELSE r.items[k]
    BY <2>4 DEF With
  <2>7. Heralded(u) = Heralded(r) \cup {hash} /\ Received(u) = Received(r)
    <3>1. \A k \in DOMAIN r.items : u.items[k] = r.items[k]
      BY <1>8, <2>5, <2>6
    <3>2. u.items[hash].announcements = 1 /\ u.items[hash].deliveries = 0
      BY <2>5, <2>6
    <3> QED BY <1>8, <2>5, <3>1, <3>2 DEF Heralded, Received
  <2> QED BY <1>1, <1>4, <1>8, <2>1, <2>4, <2>5, <2>7 DEF Announces
<1> QED BY <1>5, <1>6, <1>7, <1>8

(* The hashes announced by the first k items of an inventory. *)
HashesUpTo(items, k) == {TransactionHash(items[j]) : j \in 1 .. k} \ {NoHash}

LEMMA AnnounceTracked ==
  ASSUME NEW r, RelayFits(r), NEW timestamp \in Nat, NEW p, NEW items,
         NEW n \in Nat, DOMAIN items = 1 .. n
  PROVE  LET u == Announce(r, timestamp, p, items)
         IN /\ r.untracked <= u.untracked
            /\ u.untracked = r.untracked => Announces(r, u, HashesUpTo(items, n))
<1> DEFINE start == Anchored(r, timestamp)
           now == Offset(start, timestamp)
<1>1. RelayFits(start) /\ now \in Nat
  BY AnchoredFits
<1>2. PICK g : StepByStep(r, timestamp, p, items, n, g)
  BY AnnounceInSteps
<1>3. /\ g[0] = start /\ Announce(r, timestamp, p, items) = g[n]
      /\ \A k \in 0 .. n : k < n =>
           g[k + 1] = AnnounceItem(g[k], p, now, TransactionHash(items[k + 1]))
  BY <1>2, Zenon DEF StepByStep
<1>4. /\ HasFields(r, RelayFields) /\ r.untracked \in Nat
  BY DEF RelayFits, IsRelay, Totalling
<1>5. SameButCards(r, start)
  BY <1>4, AnchorLeavesRest
<1> HIDE DEF start, now
<1> DEFINE T == {k \in 0 .. n :
                   /\ RelayFits(g[k]) /\ r.untracked <= g[k].untracked
                   /\ g[k].untracked = r.untracked => Announces(r, g[k], HashesUpTo(items, k))}
<1>6. 0 \in T
  <2>1. HashesUpTo(items, 0) = {}
    BY DEF HashesUpTo
  <2>2. Announces(r, start, {}) /\ start.untracked = r.untracked
    BY <1>5 DEF SameButCards, Announces, Heralded, Received
  <2>3. r.untracked <= g[0].untracked /\ RelayFits(g[0])
    BY <1>1, <1>3, <1>4, <2>2
  <2>4. Announces(r, g[0], HashesUpTo(items, 0))
    BY <1>3, <2>1, <2>2
  <2> QED BY <2>3, <2>4
<1>7. \A k \in 0 .. n : k \in T /\ k < n => k + 1 \in T
  <2> SUFFICES ASSUME NEW k \in 0 .. n, k \in T, k < n PROVE k + 1 \in T
    OBVIOUS
  <2> DEFINE hash == TransactionHash(items[k + 1])
             v == g[k]
             u == g[k + 1]
             H == HashesUpTo(items, k)
  <2>1. u = AnnounceItem(v, p, now, hash)
    BY <1>3
  <2>2. /\ RelayFits(v) /\ r.untracked <= v.untracked
        /\ v.untracked = r.untracked => Announces(r, v, H)
    OBVIOUS
  <2>3. HashesUpTo(items, k + 1) = H \cup ({hash} \ {NoHash})
    <3>1. 1 .. k + 1 = (1 .. k) \cup {k + 1}
      OBVIOUS
    <3> QED BY <3>1 DEF HashesUpTo
  <2>4. k + 1 \in 0 .. n
    OBVIOUS
  <2> HIDE DEF hash, v, u, H, T
  <2>5. RelayFits(u)
    BY <1>1, <2>1, <2>2, ItemFits
  <2>6. v.untracked <= u.untracked /\ (u.untracked = v.untracked => Announces(v, u, {hash} \ {NoHash}))
    BY <1>1, <2>1, <2>2, ItemTracked
  <2>7. v.untracked \in Nat /\ u.untracked \in Nat
    BY <2>2, <2>5 DEF RelayFits, Totalling
  <2>8. r.untracked <= u.untracked
    BY <1>4, <2>2, <2>6, <2>7
  <2>9. ASSUME u.untracked = r.untracked PROVE Announces(r, u, HashesUpTo(items, k + 1))
    <3>1. v.untracked = r.untracked /\ u.untracked = v.untracked
      BY <1>4, <2>2, <2>6, <2>7, <2>9
    <3>2. Announces(r, v, H) /\ Announces(v, u, {hash} \ {NoHash})
      BY <2>2, <2>6, <3>1
    <3> HIDE DEF HashesUpTo
    <3> QED BY <2>3, <3>2 DEF Announces
  <2> QED BY <2>4, <2>5, <2>8, <2>9 DEF T, u
<1>8. 0 .. n \subseteq T
  <2> HIDE DEF T
  <2> QED BY <1>6, <1>7, CountingUp
<1>9. n \in T
  BY <1>8
<1> QED BY <1>3, <1>9

(* u is r with a delivery told of the entry with this key, had it one or not. *)
Receives(r, u, key) ==
  /\ DOMAIN u.items = DOMAIN r.items \cup {key}
  /\ Heralded(u) = Heralded(r) /\ Received(u) = Received(r) \cup {key}
  /\ u.duplicateDeliveries = r.duplicateDeliveries + (IF key \in Received(r) THEN 1 ELSE 0)
  /\ u.heardToHeld.count =
       IF key \in Heralded(r) /\ key \notin Received(r) THEN r.heardToHeld.count + 1
       ELSE r.heardToHeld.count

LEMMA DeliverTracked ==
  ASSUME NEW r, RelayFits(r), NEW timestamp \in Nat, NEW p, NEW txid, txid # NoHash, NEW wtxid,
         NEW size \in Nat
  PROVE  LET u == Deliver(r, timestamp, p, txid, wtxid, size)
         IN /\ r.untracked <= u.untracked
            /\ u.untracked = r.untracked => Receives(r, u, DeliveryKey(r, txid, wtxid))
<1> DEFINE start == Anchored(r, timestamp)
           counted == [start EXCEPT !.deliveries = @ + 1, !.deliveredBytes = @ + size]
           now == Offset(counted, timestamp)
           key == DeliveryKey(r, txid, wtxid)
           old == PeerRelay(counted, p)
           peer == [old EXCEPT !.delivered = @ + 1]
<1>1. /\ HasFields(r, RelayFields) /\ r.untracked \in Nat /\ r.duplicateDeliveries \in Nat
      /\ \A h \in DOMAIN r.items : IsEntry(r.items[h])
  BY DEF RelayFits, IsRelay, Totalling
<1>2. HasFields(start, RelayFields) /\ SameButCards(r, start)
  BY <1>1, AnchorLeavesRest
<1> HIDE DEF start
<1>3. HasFields(counted, RelayFields) /\ SameButCards(start, counted)
  BY <1>2, GivenLeavesRest DEF Given
<1>4. Deliver(r, timestamp, p, txid, wtxid, size) =
        IF key \in DOMAIN r.items THEN KnownDelivery(counted, p, key, now, size)
        ELSE IF IsFull(r) THEN Untrack(counted)
        ELSE UnannouncedDelivery(counted, p, key, now)
  BY Zenon DEF Deliver, start
<1> HIDE DEF counted, key, now, peer
<1>5. SameButCards(r, counted)
  BY <1>2, <1>3 DEF SameButCards
<1>6. CASE key \in DOMAIN r.items
  <2> DEFINE entry == counted.items[key]
             already == entry.deliveries > 0
             timed == ~already /\ entry.announcements > 0
             wait == Lag(now, entry)
             mid == [counted EXCEPT !.items[key].deliveries = @ + 1]
             again == [mid EXCEPT !.duplicateDeliveries = @ + 1, !.duplicateBytes = @ + size]
             waited == [mid EXCEPT !.heardToHeld = Add(@, wait)]
             base == IF already THEN again ELSE IF timed THEN waited ELSE mid
             card == IF already THEN [peer EXCEPT !.duplicate = @ + 1, !.duplicateBytes = @ + size]
                     ELSE IF timed THEN [peer EXCEPT !.heardToHeld = Add(@, wait)] ELSE peer
             u == WithPeer(base, p, card)
  <2>1. KnownDelivery(counted, p, key, now, size) = u
    <3>1. KnownDelivery(counted, p, key, now, size) =
            IF already
            THEN WithPeer(again, p, [peer EXCEPT !.duplicate = @ + 1, !.duplicateBytes = @ + size])
            ELSE IF timed
            THEN WithPeer(waited, p, [peer EXCEPT !.heardToHeld = Add(@, wait)])
            ELSE WithPeer(mid, p, peer)
      BY Zenon DEF KnownDelivery, peer
    <3> HIDE DEF already, timed, mid, again, waited
    <3> QED BY <3>1
  <2>2. /\ already <=> key \in Received(r)
        /\ timed <=> key \in Heralded(r) /\ key \notin Received(r)
    <3>1. counted.items = r.items
      BY <1>5 DEF SameButCards
    <3> HIDE DEF counted
    <3> QED BY <1>6, <3>1 DEF Received, Heralded
  <2> HIDE DEF already, timed, wait, card, entry
  <2>3. /\ HasFields(mid, RelayFields) /\ mid.untracked = counted.untracked
        /\ mid.items = [counted.items EXCEPT ![key].deliveries = @ + 1]
        /\ mid.duplicateDeliveries = counted.duplicateDeliveries /\ mid.heardToHeld = counted.heardToHeld
    BY <1>3 DEF HasFields, RelayFields
  <2> HIDE DEF mid
  <2>4. /\ HasFields(again, RelayFields) /\ again.untracked = mid.untracked /\ again.items = mid.items
        /\ again.duplicateDeliveries = mid.duplicateDeliveries + 1 /\ again.heardToHeld = mid.heardToHeld
    BY <2>3 DEF HasFields, RelayFields
  <2>5. /\ HasFields(waited, RelayFields) /\ waited.untracked = mid.untracked /\ waited.items = mid.items
        /\ waited.duplicateDeliveries = mid.duplicateDeliveries
        /\ waited.heardToHeld = Add(mid.heardToHeld, wait)
    BY <2>3 DEF HasFields, RelayFields
  <2> HIDE DEF again, waited
  <2>6. /\ HasFields(base, RelayFields) /\ base.untracked = r.untracked
        /\ base.items = [r.items EXCEPT ![key].deliveries = @ + 1]
        /\ base.duplicateDeliveries = IF already THEN r.duplicateDeliveries + 1 ELSE r.duplicateDeliveries
        /\ base.heardToHeld = IF ~already /\ timed THEN Add(r.heardToHeld, wait) ELSE r.heardToHeld
    BY <1>5, <2>3, <2>4, <2>5 DEF SameButCards
  <2> HIDE DEF base
  <2>7. SameButCards(base, u)
    BY <2>6, CardLeavesRest
  <2> HIDE DEF u
  <2>8. /\ u.items = [r.items EXCEPT ![key].deliveries = @ + 1] /\ u.untracked = r.untracked
        /\ u.duplicateDeliveries = r.duplicateDeliveries + (IF key \in Received(r) THEN 1 ELSE 0)
        /\ u.heardToHeld.count =
             IF key \in Heralded(r) /\ key \notin Received(r) THEN r.heardToHeld.count + 1
             ELSE r.heardToHeld.count
    <3>1. /\ u.items = [r.items EXCEPT ![key].deliveries = @ + 1] /\ u.untracked = r.untracked
          /\ u.duplicateDeliveries = IF already THEN r.duplicateDeliveries + 1 ELSE r.duplicateDeliveries
          /\ u.heardToHeld = IF ~already /\ timed THEN Add(r.heardToHeld, wait) ELSE r.heardToHeld
      BY <2>6, <2>7 DEF SameButCards
    <3>2. Add(r.heardToHeld, wait).count = r.heardToHeld.count + 1
      BY DEF Add
    <3> QED BY <1>1, <2>2, <3>1, <3>2
  <2>9. DOMAIN u.items = DOMAIN r.items \cup {key}
    BY <1>6, <2>8
  <2>10. \A k \in DOMAIN r.items :
           /\ u.items[k].announcements = r.items[k].announcements
           /\ u.items[k].deliveries = IF k = key THEN r.items[k].deliveries + 1 ELSE r.items[k].deliveries
           /\ r.items[k].deliveries \in Nat
    BY <1>1, <2>8 DEF IsEntry
  <2>11. Heralded(u) = Heralded(r) /\ Received(u) = Received(r) \cup {key}
    BY <1>6, <2>9, <2>10 DEF Heralded, Received
  <2> QED BY <1>1, <1>4, <1>6, <2>1, <2>8, <2>9, <2>11 DEF Receives, key
<1>7. CASE key \notin DOMAIN r.items /\ IsFull(r)
  <2>1. Untrack(counted).untracked = counted.untracked + 1
    BY <1>3 DEF Untrack, HasFields, RelayFields
  <2>2. counted.untracked = r.untracked
    BY <1>5 DEF SameButCards
  <2> QED BY <1>1, <1>4, <1>7, <2>1, <2>2
<1>8. CASE key \notin DOMAIN r.items /\ ~IsFull(r)
  <2> DEFINE entry == [first |-> now, announcements |-> 0, deliveries |-> 1]
             base == WithItem(counted, key, entry)
             u == WithPeer(base, p, peer)
  <2>1. UnannouncedDelivery(counted, p, key, now) = u
    BY Zenon DEF UnannouncedDelivery, peer
  <2>2. /\ HasFields(base, RelayFields) /\ base.untracked = counted.untracked
        /\ base.items = With(counted.items, key, entry)
        /\ base.duplicateDeliveries = counted.duplicateDeliveries /\ base.heardToHeld = counted.heardToHeld
    BY <1>3 DEF HasFields, RelayFields, WithItem
  <2> HIDE DEF base
  <2>3. SameButCards(base, u)
    BY <2>2, CardLeavesRest
  <2> HIDE DEF u
  <2>4. /\ u.items = With(r.items, key, entry) /\ u.untracked = r.untracked
        /\ u.duplicateDeliveries = r.duplicateDeliveries /\ u.heardToHeld = r.heardToHeld
    BY <1>5, <2>2, <2>3 DEF SameButCards
  <2>5. DOMAIN u.items = DOMAIN r.items \cup {key}
    BY <2>4 DEF With
  <2>6. \A k \in DOMAIN u.items : u.items[k] = IF k = key THEN entry ELSE r.items[k]
    BY <2>4 DEF With
  <2>7. /\ Heralded(u) = Heralded(r) /\ Received(u) = Received(r) \cup {key}
        /\ key \notin Received(r) /\ key \notin Heralded(r)
    <3>1. \A k \in DOMAIN r.items : u.items[k] = r.items[k]
      BY <1>8, <2>5, <2>6
    <3>2. u.items[key].announcements = 0 /\ u.items[key].deliveries = 1
      BY <2>5, <2>6
    <3> QED BY <1>8, <2>5, <3>1, <3>2 DEF Heralded, Received
  <2>8. u.duplicateDeliveries = r.duplicateDeliveries + (IF key \in Received(r) THEN 1 ELSE 0)
    BY <1>1, <2>4, <2>7
  <2> QED BY <1>1, <1>4, <1>8, <2>1, <2>4, <2>5, <2>7, <2>8 DEF Receives, key
<1> QED BY <1>6, <1>7, <1>8

-----------------------------------------------------------------------------
(***************************************************************************)
(* The transactions of the log, and the hash under which each has its      *)
(* entry.                                                                  *)
(***************************************************************************)
IsTx(e) == e.class = "message" /\ e.inbound /\ e.message.command = "tx"

HashesBy(e) == {TransactionHash(e.message.items[j]) : j \in DOMAIN e.message.items} \ {NoHash}

AnnouncedHashes == UNION {HashesBy(log[i]) : i \in Inbound("inv")}

KeyOf(ids) ==
  LET first == Min(Deliveries(ids))
  IN IF AnnouncedBefore(ids[2], first) /\ ~AnnouncedBefore(ids[1], first) THEN ids[2] ELSE ids[1]

(* None of the exceptions that DuplicatesAreCounted names. *)
Orderly == \A ids \in Held : ~ChangesHash(ids) /\ ~SharesHash(ids)

Again == [ids \in Held |-> Cardinality(Deliveries(ids)) - 1]

TransactionsInv ==
  relay.untracked = 0 /\ Orderly =>
    /\ DOMAIN relay.items = AnnouncedHashes \cup {KeyOf(ids) : ids \in Held}
    /\ Heralded(relay) = AnnouncedHashes
    /\ Received(relay) = {KeyOf(ids) : ids \in Held}
    /\ relay.duplicateDeliveries = SumFunctionOnSet(Again, Held)
    /\ relay.heardToHeld.count = Cardinality({ids \in Held : AnnouncedFirst(ids)})

LEMMA LeastStays ==
  ASSUME NEW S \in SUBSET Nat, S # {}, NEW T, T \subseteq Nat, \A x \in S : \A y \in T : x <= y
  PROVE  Min(S \cup T) = Min(S) /\ Min(S) \in S
<1>1. PICK m \in S : \A y \in S : m <= y
  BY LeastNat
<1>2. Min(S) = m
  BY <1>1, LeastIsMin
<1>3. S \cup T \in SUBSET Nat /\ m \in S \cup T /\ \A y \in S \cup T : m <= y
  BY <1>1
<1>4. Min(S \cup T) = m
  BY <1>3, LeastIsMin
<1> QED BY <1>1, <1>2, <1>4

(* Where in the log they are, at any time. *)
LEMMA TransactionsLogged ==
  ASSUME LogInv
  PROVE  /\ \A hash : Announced(hash) \subseteq 1 .. Len(log)
         /\ \A hash : hash \in AnnouncedHashes <=> Announced(hash) # {}
         /\ NoHash \notin AnnouncedHashes
         /\ \A ids : Deliveries(ids) \subseteq 1 .. Len(log)
         /\ \A ids \in Held : Deliveries(ids) # {} /\ ids[1] # NoHash
         /\ IsFiniteSet(Held)
<1>1. Len(log) \in Nat /\ DOMAIN log = 1 .. Len(log)
  BY LenProperties DEF LogInv
<1>2. \A command : Inbound(command) \subseteq 1 .. Len(log)
  BY <1>1 DEF Inbound
<1>3. \A hash : Announced(hash) \subseteq 1 .. Len(log)
  BY <1>2 DEF Announced
<1>4. \A hash : hash \in AnnouncedHashes <=> Announced(hash) # {}
  BY DEF AnnouncedHashes, HashesBy, Announced, AnnouncedIn
<1>5. NoHash \notin AnnouncedHashes
  BY DEF AnnouncedHashes, HashesBy
<1>6. \A ids : Deliveries(ids) \subseteq 1 .. Len(log)
  BY <1>2 DEF Deliveries
<1>7. \A ids \in Held : Deliveries(ids) # {} /\ ids[1] # NoHash
  BY DEF Held, Deliveries
<1>8. IsFiniteSet(Held)
  <2> DEFINE S == Inbound("tx")
             f == [i \in S |-> log[i].message.ids]
  <2>1. IsFiniteSet(S)
    <3>1. IsFiniteSet(1 .. Len(log))
      BY <1>1, FS_Interval
    <3> HIDE DEF S
    <3> QED BY <1>2, <3>1, FS_Subset DEF S
  <2>2. IsFiniteSet({f[i] : i \in S})
    <3> HIDE DEF S, f
    <3> QED BY <2>1, ImageIsFinite
  <2>3. Held \subseteq {f[i] : i \in S}
    BY DEF Held
  <2> HIDE DEF f, S
  <2> QED BY <2>2, <2>3, FS_Subset
<1> QED BY <1>3, <1>4, <1>5, <1>6, <1>7, <1>8

(* What one more event adds. *)
LEMMA TransactionsGrow ==
  ASSUME LogInv, NEW e \in archive, IngestEvent(e)
  PROVE  LET x == Len(log) + 1
         IN /\ \A hash : Announced(hash)' =
                           Announced(hash) \cup (IF IsInv(e) /\ hash \in HashesBy(e) THEN {x} ELSE {})
            /\ \A ids : Deliveries(ids)' =
                          Deliveries(ids) \cup (IF IsTx(e) /\ e.message.ids = ids THEN {x} ELSE {})
            /\ Held' = Held \cup (IF IsTx(e) /\ e.message.ids[1] # NoHash THEN {e.message.ids} ELSE {})
            /\ AnnouncedHashes' = AnnouncedHashes \cup (IF IsInv(e) THEN HashesBy(e) ELSE {})
<1> DEFINE x == Len(log) + 1
<1>1. /\ Len(log) \in Nat
      /\ DOMAIN log = 1 .. Len(log) /\ DOMAIN log' = 1 .. Len(log) + 1
      /\ log'[x] = e
      /\ \A i \in DOMAIN log : i \in DOMAIN log' /\ log'[i] = log[i]
  BY LogGrows
<1>2. DOMAIN log' = DOMAIN log \cup {x} /\ x \notin DOMAIN log
  BY <1>1
<1> HIDE DEF x
<1>3. Inbound("inv")' = Inbound("inv") \cup (IF IsInv(e) THEN {x} ELSE {})
  BY <1>1, <1>2 DEF Inbound, IsInv
<1>4. Inbound("tx")' = Inbound("tx") \cup (IF IsTx(e) THEN {x} ELSE {})
  BY <1>1, <1>2 DEF Inbound, IsTx
<1>5. \A command : Inbound(command) \subseteq DOMAIN log
  BY DEF Inbound
<1>6. ASSUME NEW hash
      PROVE  Announced(hash)' = Announced(hash) \cup (IF IsInv(e) /\ hash \in HashesBy(e) THEN {x} ELSE {})
  <2>1. Announced(hash)' =
          {i \in Inbound("inv")' :
             \E j \in {k \in DOMAIN log'[i].message.items : TransactionHash(log'[i].message.items[k]) # NoHash} :
               TransactionHash(log'[i].message.items[j]) = hash}
    BY DEF Announced, AnnouncedIn
  <2>2. Announced(hash) =
          {i \in Inbound("inv") :
             \E j \in {k \in DOMAIN log[i].message.items : TransactionHash(log[i].message.items[k]) # NoHash} :
               TransactionHash(log[i].message.items[j]) = hash}
    BY DEF Announced, AnnouncedIn
  <2>3. hash \in HashesBy(e) <=>
          \E j \in {k \in DOMAIN e.message.items : TransactionHash(e.message.items[k]) # NoHash} :
            TransactionHash(e.message.items[j]) = hash
    BY DEF HashesBy
  <2>4. \A i \in Inbound("inv") : log'[i] = log[i]
    BY <1>1, <1>5
  <2> HIDE DEF HashesBy, Inbound, IsInv
  <2> QED BY <1>1, <1>3, <2>1, <2>2, <2>3, <2>4
<1>7. ASSUME NEW ids
      PROVE  Deliveries(ids)' = Deliveries(ids) \cup (IF IsTx(e) /\ e.message.ids = ids THEN {x} ELSE {})
  <2>1. \A i \in Inbound("tx") : log'[i] = log[i]
    BY <1>1, <1>5
  <2>2. Deliveries(ids)' = {i \in Inbound("tx")' : log'[i].message.ids = ids}
    BY DEF Deliveries
  <2> QED BY <1>1, <1>4, <2>1, <2>2 DEF Deliveries
<1>8. Held' = Held \cup (IF IsTx(e) /\ e.message.ids[1] # NoHash THEN {e.message.ids} ELSE {})
  <2>1. \A i \in Inbound("tx") : log'[i] = log[i]
    BY <1>1, <1>5
  <2>2. Held' = {ids \in {log'[i].message.ids : i \in Inbound("tx")'} : ids[1] # NoHash}
    BY DEF Held
  <2>3. {log'[i].message.ids : i \in Inbound("tx")'} =
          {log[i].message.ids : i \in Inbound("tx")} \cup (IF IsTx(e) THEN {e.message.ids} ELSE {})
    BY <1>1, <1>4, <2>1
  <2> QED BY <2>2, <2>3 DEF Held
<1>9. AnnouncedHashes' = AnnouncedHashes \cup (IF IsInv(e) THEN HashesBy(e) ELSE {})
  <2>1. \A i \in Inbound("inv") : log'[i] = log[i]
    BY <1>1, <1>5
  <2>2. AnnouncedHashes' = UNION {HashesBy(log'[i]) : i \in Inbound("inv")'}
    BY DEF AnnouncedHashes, HashesBy
  <2> HIDE DEF HashesBy
  <2> QED BY <1>1, <1>3, <2>1, <2>2 DEF AnnouncedHashes
<1> QED BY <1>6, <1>7, <1>8, <1>9 DEF x

(* A transaction keeps its key, and what was odd about it stays so. *)
LEMMA TransactionStays ==
  ASSUME LogInv, NEW e \in archive, IngestEvent(e), NEW ids \in Held
  PROVE  /\ KeyOf(ids)' = KeyOf(ids) /\ (AnnouncedFirst(ids)' <=> AnnouncedFirst(ids))
         /\ ChangesHash(ids) => ChangesHash(ids)'
         /\ SharesHash(ids) => SharesHash(ids)'
<1> DEFINE x == Len(log) + 1
           first == Min(Deliveries(ids))
<1>1. Len(log) \in Nat
  BY LogGrows
<1>2. /\ \A hash : Announced(hash) \subseteq 1 .. Len(log)
      /\ Deliveries(ids) \subseteq 1 .. Len(log) /\ Deliveries(ids) # {}
  BY TransactionsLogged
<1>3. /\ \A hash : Announced(hash)' = Announced(hash) \/ Announced(hash)' = Announced(hash) \cup {x}
      /\ Deliveries(ids)' = Deliveries(ids) \/ Deliveries(ids)' = Deliveries(ids) \cup {x}
      /\ Held \subseteq Held'
  BY TransactionsGrow
<1>4. first \in 1 .. Len(log) /\ Min(Deliveries(ids)') = first
  <2> DEFINE S == Deliveries(ids)
             T == {x}
  <2>1. S \in SUBSET Nat /\ S # {} /\ T \subseteq Nat /\ \A y \in S : \A z \in T : y <= z
    BY <1>1, <1>2
  <2>2. Min(S \cup T) = Min(S) /\ Min(S) \in S
    <3> HIDE DEF S, T
    <3> QED BY <2>1, LeastStays
  <2> HIDE DEF x
  <2> QED BY <1>2, <1>3, <2>2
<1>5. first' = first
  BY <1>4
<1>6. ASSUME NEW hash
      PROVE  AnnouncedBefore(hash, first)' <=> AnnouncedBefore(hash, first)
  <2>1. AnnouncedBefore(hash, first)' <=> \E j \in Announced(hash)' : j < first'
    BY DEF AnnouncedBefore
  <2>2. ~(x < first)
    BY <1>1, <1>4
  <2> HIDE DEF first, x
  <2> QED BY <1>3, <1>5, <2>1, <2>2 DEF AnnouncedBefore
<1>7. \A hash : Announced(hash) # {} => Announced(hash)' # {}
  BY <1>3
<1>8. KeyOf(ids)' = IF AnnouncedBefore(ids[2], first)' /\ ~AnnouncedBefore(ids[1], first)' THEN ids[2] ELSE ids[1]
  BY DEF KeyOf
<1>9. KeyOf(ids)' = KeyOf(ids)
  BY <1>6, <1>8 DEF KeyOf
<1>10. AnnouncedFirst(ids)' <=> \E hash \in HashesOf(ids) : AnnouncedBefore(hash, first)'
  BY DEF AnnouncedFirst, HashesOf
<1>11. AnnouncedFirst(ids)' <=> AnnouncedFirst(ids)
  BY <1>6, <1>10 DEF AnnouncedFirst
<1>12. ChangesHash(ids)' <=> /\ AnnouncedBefore(ids[2], first)' /\ ~AnnouncedBefore(ids[1], first)'
                             /\ Announced(ids[1])' # {}
  BY DEF ChangesHash
<1>13. ChangesHash(ids) => ChangesHash(ids)'
  BY <1>6, <1>7, <1>12 DEF ChangesHash
<1>14. SharesHash(ids)' <=> \E other \in Held' \ {ids} : HashesOf(ids) \cap HashesOf(other) # {}
  BY DEF SharesHash, HashesOf
<1>15. SharesHash(ids) => SharesHash(ids)'
  BY <1>3, <1>14 DEF SharesHash
<1> QED BY <1>9, <1>11, <1>13, <1>15

(* If nothing is odd after an event, nothing was before. *)
LEMMA OrderlyBefore ==
  ASSUME LogInv, NEW e \in archive, IngestEvent(e), Orderly' PROVE Orderly
<1>1. Held \subseteq Held'
  BY TransactionsGrow
<1>2. \A ids \in Held' : ~ChangesHash(ids)' /\ ~SharesHash(ids)'
  BY DEF Orderly
<1> SUFFICES ASSUME NEW ids \in Held PROVE ~ChangesHash(ids) /\ ~SharesHash(ids)
  BY DEF Orderly
<1> QED BY <1>1, <1>2, TransactionStays

(* The key is one of the transaction's hashes. *)
LEMMA KeyIsHash ==
  ASSUME LogInv, NEW ids \in Held PROVE KeyOf(ids) \in HashesOf(ids)
<1>1. ids[1] # NoHash
  BY TransactionsLogged
<1>2. Announced(NoHash) = {}
  BY TransactionsLogged
<1>3. \A i : ~AnnouncedBefore(NoHash, i)
  BY <1>2 DEF AnnouncedBefore
<1> QED BY <1>1, <1>3 DEF KeyOf, HashesOf

(* The entry that deliver finds is that of the transaction, if it has one. *)
Brings(e, ids) == IsTx(e) /\ e.message.ids = ids /\ ids[1] # NoHash

LEMMA KeyFound ==
  ASSUME LogInv, NEW e \in archive, IngestEvent(e), NEW ids, Brings(e, ids), Orderly',
         DOMAIN relay.items = AnnouncedHashes \cup {KeyOf(other) : other \in Held}
  PROVE  /\ DeliveryKey(relay, ids[1], ids[2]) = KeyOf(ids)'
         /\ KeyOf(ids)' \in HashesOf(ids)
         /\ \A other \in Held \ {ids} : HashesOf(ids) \cap HashesOf(other) = {}
         /\ ids \notin Held =>
              /\ Deliveries(ids) = {}
              /\ KeyOf(ids)' \in AnnouncedHashes <=> AnnouncedFirst(ids)'
<1> DEFINE t == ids[1]
           w == ids[2]
           x == Len(log) + 1
           keys == {KeyOf(other) : other \in Held}
           key == DeliveryKey(relay, t, w)
<1>1. Len(log) \in Nat
  BY LogGrows
<1>2. /\ \A hash : Announced(hash) \subseteq 1 .. Len(log)
      /\ \A hash : hash \in AnnouncedHashes <=> Announced(hash) # {}
      /\ NoHash \notin AnnouncedHashes
  BY TransactionsLogged
<1>3. ~IsInv(e) /\ IsTx(e) /\ e.message.ids = ids /\ t # NoHash
  BY DEF IsInv, IsTx, Brings
<1>4. /\ \A hash : Announced(hash)' = Announced(hash)
      /\ Deliveries(ids)' = Deliveries(ids) \cup {x}
      /\ Held' = Held \cup {ids}
  <2>1. /\ \A hash : Announced(hash)' =
                       Announced(hash) \cup (IF IsInv(e) /\ hash \in HashesBy(e) THEN {x} ELSE {})
        /\ \A other : Deliveries(other)' =
                        Deliveries(other) \cup (IF IsTx(e) /\ e.message.ids = other THEN {x} ELSE {})
        /\ Held' = Held \cup (IF IsTx(e) /\ e.message.ids[1] # NoHash THEN {e.message.ids} ELSE {})
    BY TransactionsGrow
  <2> HIDE DEF x
  <2>2. \A hash : Announced(hash)' = Announced(hash)
    BY <1>3, <2>1
  <2>3. Deliveries(ids)' = Deliveries(ids) \cup {x}
    BY <1>3, <2>1
  <2>4. Held' = Held \cup {ids}
    BY <1>3, <2>1
  <2> QED BY <2>2, <2>3, <2>4
<1>5. Orderly /\ ~ChangesHash(ids)' /\ ~SharesHash(ids)'
  BY <1>4, OrderlyBefore DEF Orderly
<1>6. \A other \in Held \ {ids} : HashesOf(ids) \cap HashesOf(other) = {}
  <2>1. SharesHash(ids)' <=> \E other \in Held' \ {ids} : HashesOf(ids) \cap HashesOf(other) # {}
    BY DEF SharesHash, HashesOf
  <2> QED BY <1>4, <1>5, <2>1
<1>7. \A other \in Held : KeyOf(other) \in HashesOf(other)
  BY KeyIsHash
<1>8. ASSUME NEW hash \in {t, w}
      PROVE  hash \in DOMAIN relay.items <=>
               hash \in AnnouncedHashes \/ (ids \in Held /\ hash = KeyOf(ids))
  <2>1. NoHash \notin keys
    BY <1>7 DEF HashesOf
  <2>2. hash = NoHash \/ hash \in HashesOf(ids)
    BY DEF HashesOf
  <2>3. ASSUME NEW other \in Held, hash = KeyOf(other) PROVE other = ids
    <3>1. hash \in keys
      BY <2>3
    <3>2. hash \in HashesOf(ids) /\ hash \in HashesOf(other)
      BY <1>7, <2>1, <2>2, <2>3, <3>1
    <3> QED BY <1>6, <3>2
  <2> HIDE DEF t, w
  <2> QED BY <2>3
<1>9. CASE ids \in Held
  <2> DEFINE first == Min(Deliveries(ids))
  <2>1. KeyOf(ids)' = KeyOf(ids)
    BY <1>9, TransactionStays
  <2>2. KeyOf(ids) = IF AnnouncedBefore(w, first) /\ ~AnnouncedBefore(t, first) THEN w ELSE t
    BY DEF KeyOf
  <2>3. AnnouncedBefore(w, first) /\ ~AnnouncedBefore(t, first) => Announced(t) = {}
    BY <1>5, <1>9 DEF Orderly, ChangesHash
  <2>4. key = IF t \notin DOMAIN relay.items /\ w \in DOMAIN relay.items THEN w ELSE t
    BY DEF DeliveryKey
  <2> HIDE DEF first, key
  <2>5. key = KeyOf(ids)
    <3>1. CASE KeyOf(ids) = t
      BY <1>8, <1>9, <2>4, <3>1
    <3>2. CASE KeyOf(ids) # t
      <4>1. KeyOf(ids) = w /\ Announced(t) = {}
        BY <2>2, <2>3, <3>2
      <4>2. t \notin DOMAIN relay.items /\ w \in DOMAIN relay.items
        BY <1>2, <1>8, <1>9, <3>2, <4>1
      <4> QED BY <2>4, <4>1, <4>2
    <3> QED BY <3>1, <3>2
  <2> QED BY <1>6, <1>7, <1>9, <2>1, <2>5 DEF key
<1>10. CASE ids \notin Held
  <2>1. Deliveries(ids) = {}
    BY <1>3, <1>10 DEF Held, Deliveries
  <2>2. Min(Deliveries(ids)') = x
    <3>1. {x} \in SUBSET Nat /\ x \in {x} /\ \A y \in {x} : x <= y
      BY <1>1
    <3>2. Min({x}) = x
      <4> DEFINE S == {x}
      <4>1. S \in SUBSET Nat /\ x \in S /\ \A y \in S : x <= y
        BY <3>1
      <4> HIDE DEF S
      <4>2. Min(S) = x
        BY <4>1, LeastIsMin
      <4> QED BY <4>2 DEF S
    <3>3. Deliveries(ids)' = {x}
      BY <1>4, <2>1
    <3> QED BY <3>2, <3>3
  <2> DEFINE first == Min(Deliveries(ids))
  <2>3. \A hash : AnnouncedBefore(hash, first)' <=> hash \in AnnouncedHashes
    <3> TAKE hash
    <3>1. AnnouncedBefore(hash, first)' <=> \E j \in Announced(hash)' : j < Min(Deliveries(ids)')
      BY DEF AnnouncedBefore
    <3>2. \A j \in Announced(hash) : j < x
      BY <1>1, <1>2
    <3> QED BY <1>2, <1>4, <2>2, <3>1, <3>2
  <2>4. KeyOf(ids)' = IF AnnouncedBefore(w, first)' /\ ~AnnouncedBefore(t, first)' THEN w ELSE t
    BY DEF KeyOf
  <2>5. AnnouncedFirst(ids)' <=> \E hash \in {t, w} \ {NoHash} : AnnouncedBefore(hash, first)'
    BY DEF AnnouncedFirst, HashesOf
  <2>6. KeyOf(ids)' = IF w \in AnnouncedHashes /\ t \notin AnnouncedHashes THEN w ELSE t
    BY <2>3, <2>4
  <2>7. AnnouncedFirst(ids)' <=> t \in AnnouncedHashes \/ w \in AnnouncedHashes
    BY <1>2, <2>3, <2>5
  <2>8. key = IF t \notin DOMAIN relay.items /\ w \in DOMAIN relay.items THEN w ELSE t
    BY DEF DeliveryKey
  <2>9. key = KeyOf(ids)'
    BY <1>8, <1>10, <2>6, <2>8
  <2>10. KeyOf(ids)' \in HashesOf(ids)
    BY <1>2, <1>3, <2>6 DEF HashesOf
  <2>11. KeyOf(ids)' \in AnnouncedHashes <=> AnnouncedFirst(ids)'
    BY <2>6, <2>7
  <2> QED BY <1>6, <2>1, <2>9, <2>10, <2>11
<1> QED BY <1>9, <1>10

LEMMA DeliverStep ==
  ASSUME LogInv, RelayInv, TransactionsInv, NEW e \in archive, IngestEvent(e), NEW ids, Brings(e, ids)
  PROVE  TransactionsInv'
<1> DEFINE x == Len(log) + 1
           keys == {KeyOf(other) : other \in Held}
           firsts == {other \in Held : AnnouncedFirst(other)}
           key == DeliveryKey(relay, ids[1], ids[2])
<1> SUFFICES ASSUME relay'.untracked = 0, Orderly'
             PROVE  /\ DOMAIN relay'.items = AnnouncedHashes' \cup {KeyOf(other)' : other \in Held'}
                    /\ Heralded(relay') = AnnouncedHashes'
                    /\ Received(relay') = {KeyOf(other)' : other \in Held'}
                    /\ relay'.duplicateDeliveries = SumFunctionOnSet(Again', Held')
                    /\ relay'.heardToHeld.count = Cardinality({other \in Held' : AnnouncedFirst(other)'})
  BY DEF TransactionsInv, Heralded, Received
<1>1. Len(log) \in Nat /\ e \in AllEvents /\ relay' = RelayAfter(relay, e)
  BY LogGrows DEF IngestEvent
<1>2. IsTx(e) /\ ~IsInv(e) /\ e.message.ids = ids /\ ids[1] # NoHash
  BY DEF Brings, IsTx, IsInv
<1>3. relay' = Deliver(relay, e.timestamp, e.peer, ids[1], ids[2], e.size)
  BY <1>1, <1>2 DEF RelayAfter, RecordRelay, IsTx
<1>4. e.timestamp \in Nat /\ e.size \in Nat
  BY <1>1, <1>2, InventoryIs DEF IsTx
<1>5. relay.untracked <= relay'.untracked
      /\ (relay'.untracked = relay.untracked => Receives(relay, relay', key))
  BY <1>2, <1>3, <1>4, DeliverTracked DEF RelayInv
<1>6. relay.untracked \in Nat
  BY DEF RelayInv, RelayFits, Totalling
<1>7. relay.untracked = 0 /\ Receives(relay, relay', key)
  BY <1>5, <1>6
<1>8. Orderly
  BY OrderlyBefore
<1>9. /\ DOMAIN relay.items = AnnouncedHashes \cup keys
      /\ Heralded(relay) = AnnouncedHashes /\ Received(relay) = keys
      /\ relay.duplicateDeliveries = SumFunctionOnSet(Again, Held)
      /\ relay.heardToHeld.count = Cardinality(firsts)
  BY <1>7, <1>8 DEF TransactionsInv
<1>10. /\ key = KeyOf(ids)' /\ KeyOf(ids)' \in HashesOf(ids)
       /\ \A other \in Held \ {ids} : HashesOf(ids) \cap HashesOf(other) = {}
       /\ ids \notin Held =>
            /\ Deliveries(ids) = {}
            /\ KeyOf(ids)' \in AnnouncedHashes <=> AnnouncedFirst(ids)'
  BY <1>9, KeyFound
<1>11. /\ Held' = Held \cup {ids} /\ AnnouncedHashes' = AnnouncedHashes
       /\ \A other : Deliveries(other)' = Deliveries(other) \cup (IF other = ids THEN {x} ELSE {})
  BY <1>2, TransactionsGrow
<1>12. \A other \in Held : /\ KeyOf(other)' = KeyOf(other) /\ KeyOf(other) \in HashesOf(other)
                           /\ AnnouncedFirst(other)' <=> AnnouncedFirst(other)
  BY TransactionStays, KeyIsHash
<1>13. /\ IsFiniteSet(Held)
       /\ \A other : Deliveries(other) \subseteq 1 .. Len(log)
       /\ \A other \in Held : Deliveries(other) # {}
  BY TransactionsLogged
<1>14. key \in keys <=> ids \in Held
  <2>1. ids \in Held => key \in keys
    BY <1>10, <1>12
  <2>2. ASSUME NEW other \in Held, key = KeyOf(other) PROVE other = ids
    BY <1>10, <1>12, <2>2
  <2> HIDE DEF key
  <2> QED BY <2>1, <2>2
<1>15. {KeyOf(other)' : other \in Held'} = keys \cup {key}
  BY <1>10, <1>11, <1>12
<1>16. DOMAIN relay'.items = AnnouncedHashes' \cup {KeyOf(other)' : other \in Held'}
  <2> HIDE DEF keys, key
  <2> QED BY <1>7, <1>9, <1>11, <1>15 DEF Receives
<1>17. Heralded(relay') = AnnouncedHashes' /\ Received(relay') = {KeyOf(other)' : other \in Held'}
  <2> HIDE DEF keys, key
  <2> QED BY <1>7, <1>9, <1>11, <1>15 DEF Receives
<1>18. \A other \in Held : Again[other] \in Nat
  <2> TAKE other \in Held
  <2> DEFINE S == Deliveries(other)
  <2>1. IsFiniteSet(S) /\ S # {}
    <3>1. IsFiniteSet(1 .. Len(log))
      BY <1>1, FS_Interval
    <3> QED BY <1>13, <3>1, FS_Subset
  <2>2. Again[other] = Cardinality(S) - 1
    BY DEF Again
  <2> HIDE DEF S
  <2>3. Cardinality(S) \in Nat /\ Cardinality(S) # 0
    BY <2>1, FS_CardinalityType, FS_EmptySet
  <2> QED BY <2>2, <2>3
<1>19. relay'.duplicateDeliveries = SumFunctionOnSet(Again', Held')
  <2>1. Again' = [other \in Held' |-> Cardinality(Deliveries(other)') - 1]
    BY DEF Again
  <2>2. \A other \in Held \ {ids} : Again'[other] = Again[other]
    <3> TAKE other \in Held \ {ids}
    <3>1. Deliveries(other)' = Deliveries(other)
      BY <1>11
    <3> QED BY <1>11, <2>1, <3>1 DEF Again
  <2>3. relay'.duplicateDeliveries = relay.duplicateDeliveries + (IF ids \in Held THEN 1 ELSE 0)
    <3> HIDE DEF keys, key
    <3> QED BY <1>7, <1>9, <1>14 DEF Receives
  <2>4. CASE ids \in Held
    <3> DEFINE S == Deliveries(ids)
    <3>1. IsFiniteSet(S) /\ x \notin S
      <4>1. IsFiniteSet(1 .. Len(log)) /\ x \notin 1 .. Len(log)
        BY <1>1, FS_Interval
      <4> QED BY <1>13, <4>1, FS_Subset
    <3>2. Cardinality(S \cup {x}) = Cardinality(S) + 1 /\ Cardinality(S) \in Nat
      <4> HIDE DEF S, x
      <4> QED BY <3>1, FS_AddElement, FS_CardinalityType
    <3>3. Again'[ids] = Cardinality(S \cup {x}) - 1
      BY <1>11, <2>1, <2>4
    <3>4. Again[ids] = Cardinality(S) - 1
      BY <2>4 DEF Again
    <3> HIDE DEF S, x
    <3>5. Again'[ids] = Again[ids] + 1
      BY <3>2, <3>3, <3>4
    <3>6. Held' = Held
      BY <1>11, <2>4
    <3>7. SumFunctionOnSet(Again', Held) = SumFunctionOnSet(Again, Held) + 1
      <4> DEFINE f == Again
                 g == Again'
                 H == Held
      <4>1. /\ IsFiniteSet(H) /\ \A y \in H : f[y] \in Nat
            /\ ids \in H /\ g[ids] = f[ids] + 1 /\ \A y \in H : y # ids => g[y] = f[y]
        BY <1>13, <1>18, <2>2, <2>4, <3>5
      <4> HIDE DEF f, g, H
      <4>2. SumFunctionOnSet(g, H) = SumFunctionOnSet(f, H) + (IF ids \in H THEN 1 ELSE 0)
        BY <4>1, SumBump
      <4> QED BY <4>1, <4>2 DEF f, g, H
    <3> QED BY <1>9, <2>3, <2>4, <3>6, <3>7
  <2>5. CASE ids \notin Held
    <3>1. Deliveries(ids)' = {x}
      BY <1>10, <1>11, <2>5
    <3>2. Cardinality({x}) = 1
      BY FS_Singleton
    <3>3. Again'[ids] = 0
      <4> DEFINE S == Deliveries(ids)'
      <4>1. Cardinality(S) = 1
        BY <3>1, <3>2
      <4>2. ids \in Held'
        BY <1>11
      <4>3. Again'[ids] = Cardinality(S) - 1
        BY <2>1, <4>2
      <4> HIDE DEF S
      <4> QED BY <4>1, <4>3
    <3>4. SumFunctionOnSet(Again', Held \cup {ids}) = SumFunctionOnSet(Again, Held)
          /\ SumFunctionOnSet(Again, Held) \in Nat
      <4> DEFINE f == Again
                 g == Again'
                 H == Held
      <4>1. /\ IsFiniteSet(H) /\ \A y \in H : f[y] \in Nat
            /\ ids \notin H /\ g[ids] = 0 /\ \A y \in H : g[y] = f[y]
        BY <1>13, <1>18, <2>2, <2>5, <3>3
      <4> HIDE DEF f, g, H
      <4>2. \A y \in H \cup {ids} : g[y] \in Nat
        BY <4>1
      <4>3. SumFunctionOnSet(g, H \cup {ids}) = g[ids] + SumFunctionOnSet(g, H)
        BY <4>1, <4>2, SumAdd
      <4>4. SumFunctionOnSet(g, H) = SumFunctionOnSet(f, H)
        BY <4>1, SumSame
      <4>5. SumFunctionOnSet(f, H) \in Nat
        BY <4>1, SumType
      <4>6. SumFunctionOnSet(g, H \cup {ids}) = SumFunctionOnSet(f, H)
        BY <4>1, <4>3, <4>4, <4>5
      <4> QED BY <4>5, <4>6 DEF f, g, H
    <3> QED BY <1>9, <1>11, <2>3, <2>5, <3>4
  <2> QED BY <2>4, <2>5
<1>20. relay'.heardToHeld.count = Cardinality({other \in Held' : AnnouncedFirst(other)'})
  <2> DEFINE next == {other \in Held' : AnnouncedFirst(other)'}
  <2>1. relay'.heardToHeld.count =
          IF key \in AnnouncedHashes /\ key \notin keys THEN Cardinality(firsts) + 1 ELSE Cardinality(firsts)
    <3> HIDE DEF keys, key, firsts
    <3> QED BY <1>7, <1>9 DEF Receives
  <2>2. CASE ids \in Held
    <3>1. next = firsts
      BY <1>11, <1>12, <2>2
    <3> HIDE DEF next, firsts, keys, key
    <3>2. relay'.heardToHeld.count = Cardinality(next)
      BY <1>14, <2>1, <2>2, <3>1
    <3> QED BY <3>2 DEF next
  <2>3. CASE ids \notin Held
    <3>1. next = IF AnnouncedFirst(ids)' THEN firsts \cup {ids} ELSE firsts
      BY <1>11, <1>12, <2>3
    <3>2. IsFiniteSet(firsts) /\ ids \notin firsts
      BY <1>13, <2>3, FS_Subset
    <3>3. key \in AnnouncedHashes <=> AnnouncedFirst(ids)'
      BY <1>10, <2>3
    <3> HIDE DEF next, firsts, keys, key
    <3>4. Cardinality(firsts \cup {ids}) = Cardinality(firsts) + 1
      BY <3>2, FS_AddElement
    <3>5. relay'.heardToHeld.count = Cardinality(next)
      BY <1>14, <2>1, <2>3, <3>1, <3>3, <3>4
    <3> QED BY <3>5 DEF next
  <2> QED BY <2>2, <2>3
<1> QED BY <1>16, <1>17, <1>19, <1>20

LEMMA AnnounceStep ==
  ASSUME LogInv, RelayInv, TransactionsInv, NEW e \in archive, IngestEvent(e), IsInv(e)
  PROVE  TransactionsInv'
<1> DEFINE keys == {KeyOf(ids) : ids \in Held}
           hashes == HashesBy(e)
<1> SUFFICES ASSUME relay'.untracked = 0, Orderly'
             PROVE  /\ DOMAIN relay'.items = AnnouncedHashes' \cup {KeyOf(ids)' : ids \in Held'}
                    /\ Heralded(relay') = AnnouncedHashes'
                    /\ Received(relay') = {KeyOf(ids)' : ids \in Held'}
                    /\ relay'.duplicateDeliveries = SumFunctionOnSet(Again', Held')
                    /\ relay'.heardToHeld.count = Cardinality({ids \in Held' : AnnouncedFirst(ids)'})
  BY DEF TransactionsInv, Heralded, Received
<1>1. e \in AllEvents /\ relay' = RelayAfter(relay, e)
  BY LogGrows DEF IngestEvent
<1>2. relay' = Announce(relay, e.timestamp, e.peer, e.message.items)
  BY <1>1 DEF RelayAfter, RecordRelay, IsInv
<1>3. ~IsTx(e)
  BY DEF IsInv, IsTx
<1>4. PICK n \in Nat : DOMAIN e.message.items = 1 .. n
  BY <1>1, InventoryIs
<1>5. HashesUpTo(e.message.items, n) = hashes
  BY <1>4 DEF HashesUpTo, HashesBy
<1>6. relay.untracked <= relay'.untracked
      /\ (relay'.untracked = relay.untracked => Announces(relay, relay', hashes))
  <2>1. e.timestamp \in Nat
    BY <1>1, InventoryIs DEF IsInv
  <2> QED BY <1>2, <1>4, <1>5, <2>1, AnnounceTracked DEF RelayInv
<1>7. relay.untracked \in Nat
  BY DEF RelayInv, RelayFits, Totalling
<1>8. relay.untracked = 0 /\ Announces(relay, relay', hashes)
  BY <1>6, <1>7
<1>9. Orderly
  BY OrderlyBefore
<1>10. /\ DOMAIN relay.items = AnnouncedHashes \cup keys
       /\ Heralded(relay) = AnnouncedHashes /\ Received(relay) = keys
       /\ relay.duplicateDeliveries = SumFunctionOnSet(Again, Held)
       /\ relay.heardToHeld.count = Cardinality({ids \in Held : AnnouncedFirst(ids)})
  BY <1>8, <1>9 DEF TransactionsInv
<1>11. Held' = Held /\ AnnouncedHashes' = AnnouncedHashes \cup hashes
       /\ \A ids : Deliveries(ids)' = Deliveries(ids)
  <2> DEFINE x == Len(log) + 1
  <2>1. /\ \A ids : Deliveries(ids)' =
                      Deliveries(ids) \cup (IF IsTx(e) /\ e.message.ids = ids THEN {x} ELSE {})
        /\ Held' = Held \cup (IF IsTx(e) /\ e.message.ids[1] # NoHash THEN {e.message.ids} ELSE {})
        /\ AnnouncedHashes' = AnnouncedHashes \cup (IF IsInv(e) THEN HashesBy(e) ELSE {})
    BY TransactionsGrow
  <2> HIDE DEF x
  <2>2. \A ids : Deliveries(ids)' = Deliveries(ids)
    BY <1>3, <2>1
  <2>3. Held' = Held
    BY <1>3, <2>1
  <2>4. AnnouncedHashes' = AnnouncedHashes \cup HashesBy(e)
    BY <2>1
  <2> QED BY <2>2, <2>3, <2>4
<1>12. \A ids \in Held : KeyOf(ids)' = KeyOf(ids) /\ (AnnouncedFirst(ids)' <=> AnnouncedFirst(ids))
  BY TransactionStays
<1>13. {KeyOf(ids)' : ids \in Held'} = keys
  BY <1>11, <1>12
<1>14. {ids \in Held' : AnnouncedFirst(ids)'} = {ids \in Held : AnnouncedFirst(ids)}
  BY <1>11, <1>12
<1>15. Again' = Again
  BY <1>11 DEF Again
<1>16. /\ DOMAIN relay'.items = AnnouncedHashes' \cup keys
       /\ Heralded(relay') = AnnouncedHashes' /\ Received(relay') = keys
       /\ relay'.duplicateDeliveries = relay.duplicateDeliveries
       /\ relay'.heardToHeld.count = relay.heardToHeld.count
  <2> HIDE DEF keys, hashes
  <2> QED BY <1>8, <1>10, <1>11 DEF Announces
<1> QED BY <1>10, <1>11, <1>13, <1>14, <1>15, <1>16

(* Of the other events the relay is told nothing that concerns its entries. *)
LEMMA OtherStep ==
  ASSUME LogInv, TransactionsInv, NEW e \in archive, IngestEvent(e), ~IsInv(e),
         ~(IsTx(e) /\ e.message.ids[1] # NoHash)
  PROVE  TransactionsInv'
<1>1. e \in AllEvents /\ relay' = RelayAfter(relay, e)
  BY LogGrows DEF IngestEvent
<1>2. relay' = relay
  BY <1>1 DEF RelayAfter, RecordRelay, Deliver, IsInv, IsTx
<1>3. Held' = Held /\ AnnouncedHashes' = AnnouncedHashes
  BY TransactionsGrow
<1>4. \A ids \in Held : Deliveries(ids)' = Deliveries(ids)
  <2> TAKE ids \in Held
  <2>1. ids[1] # NoHash
    BY TransactionsLogged
  <2> QED BY <2>1, TransactionsGrow
<1>5. \A ids \in Held : KeyOf(ids)' = KeyOf(ids) /\ (AnnouncedFirst(ids)' <=> AnnouncedFirst(ids))
  BY TransactionStays
<1>6. {KeyOf(ids)' : ids \in Held'} = {KeyOf(ids) : ids \in Held}
  BY <1>3, <1>5
<1>7. {ids \in Held' : AnnouncedFirst(ids)'} = {ids \in Held : AnnouncedFirst(ids)}
  BY <1>3, <1>5
<1>8. Again' = Again
  BY <1>3, <1>4 DEF Again
<1>9. Orderly' => Orderly
  BY OrderlyBefore
<1>10. TransactionsInv' =
         (relay'.untracked = 0 /\ Orderly' =>
           /\ DOMAIN relay'.items = AnnouncedHashes' \cup {KeyOf(ids)' : ids \in Held'}
           /\ Heralded(relay') = AnnouncedHashes'
           /\ Received(relay') = {KeyOf(ids)' : ids \in Held'}
           /\ relay'.duplicateDeliveries = SumFunctionOnSet(Again', Held')
           /\ relay'.heardToHeld.count = Cardinality({ids \in Held' : AnnouncedFirst(ids)'}))
  BY DEF TransactionsInv, Heralded, Received
<1> QED BY <1>2, <1>3, <1>6, <1>7, <1>8, <1>9, <1>10 DEF TransactionsInv

LEMMA TransactionsInit == Init => TransactionsInv
<1> SUFFICES ASSUME Init PROVE TransactionsInv
  OBVIOUS
<1>1. log = <<>> /\ relay = NewRelay
  BY DEF Init
<1>2. \A command : Inbound(command) = {}
  BY <1>1 DEF Inbound
<1>3. AnnouncedHashes = {} /\ Held = {}
  BY <1>2 DEF AnnouncedHashes, Held
<1>4. /\ relay.items = <<>> /\ relay.duplicateDeliveries = 0 /\ relay.heardToHeld.count = 0
  BY <1>1 DEF NewRelay, NoSamples
<1>5. Heralded(relay) = {} /\ Received(relay) = {}
  BY <1>4 DEF Heralded, Received
<1>6. SumFunctionOnSet(Again, Held) = 0
  BY <1>3, SumEmpty
<1>7. Cardinality({ids \in Held : AnnouncedFirst(ids)}) = 0
  <2>1. {ids \in Held : AnnouncedFirst(ids)} = {}
    BY <1>3
  <2> QED BY <2>1, FS_EmptySet
<1> QED BY <1>3, <1>4, <1>5, <1>6, <1>7 DEF TransactionsInv

LEMMA TransactionsStep == LogInv /\ RelayInv /\ TransactionsInv /\ [Next]_vars => TransactionsInv'
<1> SUFFICES ASSUME LogInv, RelayInv, TransactionsInv, [Next]_vars PROVE TransactionsInv'
  OBVIOUS
<1>1. CASE UNCHANGED vars
  <2>1. log' = log /\ relay' = relay
    BY <1>1 DEF vars
  <2>2. AnnouncedHashes' = AnnouncedHashes /\ Held' = Held
    BY <2>1 DEF AnnouncedHashes, HashesBy, Held, Inbound
  <2>3. /\ \A hash : Announced(hash)' = Announced(hash)
        /\ \A ids : Deliveries(ids)' = Deliveries(ids)
    BY <2>1 DEF Announced, AnnouncedIn, Deliveries, Inbound
  <2>4. \A hash, i : AnnouncedBefore(hash, i)' <=> AnnouncedBefore(hash, i)
    BY <2>3 DEF AnnouncedBefore
  <2>5. \A ids : KeyOf(ids)' = KeyOf(ids) /\ (AnnouncedFirst(ids)' <=> AnnouncedFirst(ids))
    <3> TAKE ids
    <3> DEFINE first == Min(Deliveries(ids))
    <3>1. first' = first
      BY <2>3
    <3>2. \A hash : AnnouncedBefore(hash, first)' <=> AnnouncedBefore(hash, first)
      <4>1. \A hash : AnnouncedBefore(hash, first)' <=> \E j \in Announced(hash)' : j < first'
        BY DEF AnnouncedBefore
      <4> HIDE DEF first
      <4> QED BY <2>3, <3>1, <4>1 DEF AnnouncedBefore
    <3>3. KeyOf(ids)' = IF AnnouncedBefore(ids[2], first)' /\ ~AnnouncedBefore(ids[1], first)' THEN ids[2] ELSE ids[1]
      BY DEF KeyOf
    <3>4. AnnouncedFirst(ids)' <=> \E hash \in HashesOf(ids) : AnnouncedBefore(hash, first)'
      BY DEF AnnouncedFirst, HashesOf
    <3>5. KeyOf(ids)' = KeyOf(ids)
      BY <3>2, <3>3 DEF KeyOf
    <3> QED BY <3>2, <3>4, <3>5 DEF AnnouncedFirst
  <2>6. Orderly' => Orderly
    <3> SUFFICES ASSUME Orderly', NEW ids \in Held PROVE ~ChangesHash(ids) /\ ~SharesHash(ids)
      BY DEF Orderly
    <3> DEFINE first == Min(Deliveries(ids))
    <3>1. ~ChangesHash(ids)' /\ ~SharesHash(ids)'
      BY <2>2 DEF Orderly
    <3>2. SharesHash(ids)' <=> SharesHash(ids)
      BY <2>2 DEF SharesHash, HashesOf
    <3>3. first' = first
      BY <2>3
    <3>4. \A hash : AnnouncedBefore(hash, first)' <=> AnnouncedBefore(hash, first)
      <4>1. \A hash : AnnouncedBefore(hash, first)' <=> \E j \in Announced(hash)' : j < first'
        BY DEF AnnouncedBefore
      <4> HIDE DEF first
      <4> QED BY <2>3, <3>3, <4>1 DEF AnnouncedBefore
    <3>5. ChangesHash(ids)' <=> /\ AnnouncedBefore(ids[2], first)' /\ ~AnnouncedBefore(ids[1], first)'
                                /\ Announced(ids[1])' # {}
      BY DEF ChangesHash
    <3> QED BY <2>3, <3>1, <3>2, <3>4, <3>5 DEF ChangesHash
  <2>7. {KeyOf(ids)' : ids \in Held'} = {KeyOf(ids) : ids \in Held}
    BY <2>2, <2>5
  <2>8. {ids \in Held' : AnnouncedFirst(ids)'} = {ids \in Held : AnnouncedFirst(ids)}
    BY <2>2, <2>5
  <2>9. Again' = Again
    BY <2>2, <2>3 DEF Again
  <2>10. TransactionsInv' =
           (relay'.untracked = 0 /\ Orderly' =>
             /\ DOMAIN relay'.items = AnnouncedHashes' \cup {KeyOf(ids)' : ids \in Held'}
             /\ Heralded(relay') = AnnouncedHashes'
             /\ Received(relay') = {KeyOf(ids)' : ids \in Held'}
             /\ relay'.duplicateDeliveries = SumFunctionOnSet(Again', Held')
             /\ relay'.heardToHeld.count = Cardinality({ids \in Held' : AnnouncedFirst(ids)'}))
    BY DEF TransactionsInv, Heralded, Received
  <2> QED BY <2>1, <2>2, <2>6, <2>7, <2>8, <2>9, <2>10 DEF TransactionsInv
<1>2. ASSUME NEW e \in archive, IngestEvent(e) PROVE TransactionsInv'
  <2>1. CASE IsInv(e)
    BY <1>2, <2>1, AnnounceStep
  <2>2. CASE IsTx(e) /\ e.message.ids[1] # NoHash
    <3>1. Brings(e, e.message.ids)
      BY <2>2 DEF Brings
    <3> QED BY <1>2, <3>1, DeliverStep
  <2>3. CASE ~IsInv(e) /\ ~(IsTx(e) /\ e.message.ids[1] # NoHash)
    BY <1>2, <2>3, OtherStep
  <2> QED BY <2>1, <2>2, <2>3
<1> QED BY <1>1, <1>2 DEF Next

LEMMA CountedIf == TransactionsInv => DuplicatesAreCounted
<1> SUFFICES ASSUME TransactionsInv PROVE DuplicatesAreCounted
  OBVIOUS
<1>1. SumFunctionOnSet(Again, Held) = MapThenSumSet(LAMBDA ids : Cardinality(Deliveries(ids)) - 1, Held)
  <2>1. MapThenSumSet(LAMBDA ids : Cardinality(Deliveries(ids)) - 1, Held)
          = (CHOOSE g : AddsUp(Again, Held, g))[Held]
    BY DEF MapThenSumSet, MapThenFoldSet, AddsUp, Adds, AnyOf, Again
  <2>2. SumFunctionOnSet(Again, Held) = (CHOOSE g : AddsUp(Again, Held, g))[Held]
    BY SumIsChosen
  <2> QED BY <2>1, <2>2
<1> QED BY <1>1 DEF DuplicatesAreCounted, TransactionsInv, Orderly

(***************************************************************************)
(* DuplicatesAreCounted: as long as nothing went untracked for want of     *)
(* room, and no transaction delivered changes its hash or shares one, the  *)
(* deliveries told as duplicates are those after the first of each         *)
(* transaction, and the waits told are those of the transactions that were *)
(* announced first.                                                        *)
(***************************************************************************)
THEOREM TransactionsCounted == Spec => []DuplicatesAreCounted
<1>1. Init => RelayInv /\ TransactionsInv
  BY RelayInit, TransactionsInit
<1>2. TableInv /\ RelayInv /\ [Next]_vars => RelayInv'
  BY RelayStep DEF TableInv
<1>3. TableInv /\ RelayInv /\ TransactionsInv /\ [Next]_vars => TransactionsInv'
  BY TransactionsStep DEF TableInv
<1>4. TransactionsInv => DuplicatesAreCounted
  BY CountedIf
<1> QED BY <1>1, <1>2, <1>3, <1>4, TablesHoldTogether, PTL DEF Spec

-----------------------------------------------------------------------------
(***************************************************************************)
(* When a peer was seen, and how many messages it exchanged, of each kind. *)
(***************************************************************************)
SameSeen(x, y) ==
  /\ x.firstSeen = y.firstSeen /\ x.lastSeen = y.lastSeen
  /\ x.messages = y.messages /\ x.commands = y.commands

(* What touch does to a record. *)
Touched(old, timestamp, new) ==
  /\ new.firstSeen = Smaller(old.firstSeen, timestamp)
  /\ new.lastSeen = Larger(old.lastSeen, timestamp)
  /\ new.messages = old.messages /\ new.commands = old.commands

(* The record touched: of a new peer, the one it would be given. *)
TouchedRecord(t, p, timestamp) ==
  IF p \in DOMAIN t.peers THEN t.peers[p] ELSE NewPeer(1, timestamp)

(* All but the record of p, and those of new peers, tell the same. *)
KeepsSeen(t, u, p) == \A q \in DOMAIN t.peers \ {p} : SameSeen(u.peers[q], t.peers[q])

LEMMA EntryTouched ==
  ASSUME NEW t, IsTable(t), NEW p, NEW timestamp
  PROVE  LET u == Entry(t, p, timestamp)
         IN Touched(TouchedRecord(t, p, timestamp), timestamp, u.peers[p]) /\ KeepsSeen(t, u, p)
<1> DEFINE u == Entry(t, p, timestamp)
<1>1. CASE p \in DOMAIN t.peers
  <2> DEFINE peer == [t.peers[p] EXCEPT !.firstSeen = Smaller(@, timestamp),
                                        !.lastSeen = Larger(@, timestamp)]
  <2>1. IsPeer(t.peers[p])
    BY <1>1 DEF IsTable
  <2>2. IsPeer(peer) /\ Touched(t.peers[p], timestamp, peer)
    BY <2>1 DEF IsPeer, PeerFields, Touched
  <2>3. u = [t EXCEPT !.peers[p] = peer]
    BY <1>1, <2>1 DEF Entry, IsTable
  <2> HIDE DEF peer
  <2>4. u = WithPeerRecord(t, p, peer)
    BY <2>3 DEF WithPeerRecord
  <2> HIDE DEF u
  <2>5. u.peers[p] = peer /\ \A q \in DOMAIN t.peers : q # p => u.peers[q] = t.peers[q]
    BY <1>1, <2>2, <2>4, PeerReplaced
  <2> QED BY <1>1, <2>2, <2>5 DEF KeepsSeen, SameSeen, TouchedRecord, u
<1>2. CASE p \notin DOMAIN t.peers
  <2> DEFINE fresh == NewPeer(Len(t.byIndex) + 1, timestamp)
             peers == With(t.peers, p, fresh)
  <2>1. Touched(NewPeer(1, timestamp), timestamp, fresh)
    BY DEF Touched, NewPeer, Smaller, Larger
  <2> HIDE DEF fresh
  <2>2. peers[p] = fresh /\ \A q \in DOMAIN t.peers : peers[q] = t.peers[q]
    BY <1>2 DEF With
  <2> HIDE DEF peers
  <2>3. u = [t EXCEPT !.peers = peers, !.byIndex = Append(@, p)]
    BY <1>2 DEF Entry, peers, fresh
  <2>4. u.peers = peers
    BY <2>3 DEF IsTable
  <2> HIDE DEF u
  <2> QED BY <1>2, <2>1, <2>2, <2>4 DEF KeepsSeen, SameSeen, TouchedRecord, u
<1> QED BY <1>1, <1>2

(* record_user_agent *)
LEMMA NamingTouchesNone ==
  ASSUME NEW t, IsTable(t), NEW p, NEW agent, NEW source
  PROVE  LET u == RecordUserAgent(t, p, agent, source)
         IN \A q \in DOMAIN t.peers : SameSeen(u.peers[q], t.peers[q])
<1> DEFINE u == RecordUserAgent(t, p, agent, source)
           agents == Interned(t.agents, agent)
           id == CHOOSE i \in DOMAIN agents : agents[i] = agent
<1>1. CASE ~Takes(t, p, agent, source)
  <2>1. u = t
    BY <1>1 DEF RecordUserAgent, Takes
  <2> QED BY <2>1 DEF SameSeen
<1>2. CASE Takes(t, p, agent, source)
  <2>1. p \in DOMAIN t.peers /\ IsPeer(t.peers[p])
    BY <1>2 DEF Takes, IsTable
  <2>2. u = [t EXCEPT !.agents = agents, !.peers[p].agent = id, !.peers[p].source = source]
    BY <1>2, Zenon DEF Takes, RecordUserAgent
  <2> HIDE DEF agents, id
  <2> DEFINE half == [t.peers EXCEPT ![p] = [t.peers[p] EXCEPT !.agent = id]]
             whole == [half EXCEPT ![p] = [half[p] EXCEPT !.source = source]]
  <2>3. u.peers = whole
    BY <2>2 DEF IsTable
  <2> HIDE DEF u
  <2>4. \A q \in DOMAIN t.peers : q # p => whole[q] = t.peers[q]
    OBVIOUS
  <2>5. whole[p] = [[t.peers[p] EXCEPT !.agent = id] EXCEPT !.source = source]
    BY <2>1
  <2> HIDE DEF whole
  <2>6. SameSeen(whole[p], t.peers[p])
    BY <2>1, <2>5 DEF SameSeen, IsPeer, PeerFields
  <2> QED BY <2>3, <2>4, <2>6 DEF SameSeen, u
<1> QED BY <1>1, <1>2

(* peer_infos *)
LEMMA PollTouchesNone ==
  ASSUME NEW t, IsTable(t), NEW infos, Len(infos) \in Nat
  PROVE  \A q \in DOMAIN t.peers : SameSeen(NamePolled(t, infos).peers[q], t.peers[q])
<1> DEFINE n == Len(infos)
           Same(u) == \A q \in DOMAIN t.peers : SameSeen(u.peers[q], t.peers[q])
<1>1. PICK f : PolledUpTo(t, infos, n, f) /\ NamePolled(t, infos) = f[n]
  BY PolledOneByOne
<1> DEFINE T == {k \in 0 .. n : IsTable(f[k]) /\ OnlyRenames(t, f[k]) /\ Same(f[k])}
<1> HIDE DEF n
<1>2. n \in Nat
  BY DEF n
<1>3. f[0] = t
  BY <1>1, <1>2 DEF PolledUpTo
<1>4. 0 \in T
  <2>1. OnlyRenames(t, t) /\ Same(t)
    BY DEF OnlyRenames, SameIndex, SameLife, SameSeen
  <2> HIDE DEF Same
  <2> QED BY <1>2, <1>3, <2>1
<1>5. \A k \in 0 .. n : k \in T /\ k < n => k + 1 \in T
  <2> SUFFICES ASSUME NEW k \in 0 .. n, k \in T, k < n PROVE k + 1 \in T
    OBVIOUS
  <2>1. k + 1 \in 0 .. n /\ k + 1 # 0 /\ (k + 1) - 1 = k
    BY <1>2
  <2>2. f[k + 1] = RecordUserAgent(f[k], infos[k + 1].peer, infos[k + 1].agent, "getpeerinfo")
    BY <1>1, <2>1 DEF PolledUpTo
  <2>3. IsTable(f[k]) /\ OnlyRenames(t, f[k]) /\ Same(f[k])
    OBVIOUS
  <2>4. IsTable(f[k + 1]) /\ OnlyRenames(f[k], f[k + 1])
    BY <2>2, <2>3, UserAgentRecorded
  <2>5. \A q \in DOMAIN f[k].peers : SameSeen(f[k + 1].peers[q], f[k].peers[q])
    BY <2>2, <2>3, NamingTouchesNone
  <2>6. DOMAIN f[k].peers = DOMAIN t.peers
    BY <2>3 DEF OnlyRenames
  <2>7. Same(f[k + 1])
    BY <2>3, <2>5, <2>6 DEF SameSeen
  <2>8. OnlyRenames(t, f[k + 1])
    BY <2>3, <2>4, RenamesTwice
  <2> HIDE DEF Same
  <2> QED BY <2>1, <2>4, <2>7, <2>8
<1>6. 0 .. n \subseteq T
  <2> HIDE DEF T
  <2> QED BY <1>2, <1>4, <1>5, CountingUp
<1>7. Same(f[n])
  <2> HIDE DEF Same
  <2> QED BY <1>2, <1>6
<1> QED BY <1>1, <1>7

-----------------------------------------------------------------------------
(* What an event of a peer adds to what is told of it. *)
MessagesAfter(messages, e) == IF e.class = "message" THEN CountedWay(messages, e) ELSE messages

CommandsAfter(old, e, kind) ==
  IF e.class = "message" THEN With(old.commands, kind, CountedWay(CommandTally(old, kind), e))
  ELSE old.commands

SeenAfter(old, e, kind, new) ==
  /\ new.firstSeen = Smaller(old.firstSeen, e.timestamp)
  /\ new.lastSeen = Larger(old.lastSeen, e.timestamp)
  /\ new.messages = MessagesAfter(old.messages, e)
  /\ new.commands = CommandsAfter(old, e, kind)

(* Touching twice at one time is touching once. *)
LEMMA TouchedTwice ==
  ASSUME NEW x, NEW y, NEW z, NEW timestamp, Touched(x, timestamp, y), Touched(y, timestamp, z)
  PROVE  Touched(x, timestamp, z)
BY DEF Touched, Smaller, Larger

(* record_message *)
LEMMA MessageSeen ==
  ASSUME NEW t, IsTable(t), NEW e, e.class = "message", NEW kind
  PROVE  LET u == RecordMessage(t, e, kind)
         IN /\ SeenAfter(TouchedRecord(t, e.peer, e.timestamp), e, kind, u.peers[e.peer])
            /\ KeepsSeen(t, u, e.peer)
<1> DEFINE p == e.peer
           old == TouchedRecord(t, p, e.timestamp)
           v == Named(t, e)
           w == Entry(v, p, e.timestamp)
           peer == WithMessage(w.peers[p], e, kind)
           u == RecordMessage(t, e, kind)
<1>1. /\ IsTable(v) /\ KeepsSeen(t, v, p)
      /\ v = t \/ (HasEntry(t, p, v) /\ Touched(old, e.timestamp, v.peers[p]))
  <2>1. CASE ~Introduces(e)
    <3>1. v = t
      BY <2>1, Zenon DEF Named, Introduces
    <3> QED BY <3>1 DEF KeepsSeen, SameSeen
  <2>2. CASE Introduces(e)
    <3> DEFINE x == Entered(t, e)
    <3>1. v = RecordUserAgent(x, p, e.agent, "version")
      BY <2>2, Zenon DEF Named, Introduces, Entered
    <3>2. IsTable(x) /\ HasEntry(t, p, x)
      BY EntryMade DEF Entered
    <3>3. Touched(old, e.timestamp, x.peers[p]) /\ KeepsSeen(t, x, p)
      BY EntryTouched DEF Entered
    <3> HIDE DEF v, x, old
    <3>4. /\ IsTable(v) /\ OnlyRenames(x, v)
          /\ \A q \in DOMAIN x.peers : SameSeen(v.peers[q], x.peers[q])
      BY <3>1, <3>2, UserAgentRecorded, NamingTouchesNone
    <3>5. HasEntry(t, p, v)
      BY <3>2, <3>4 DEF HasEntry, OnlyRenames, SameIndex
    <3>6. p \in DOMAIN x.peers /\ \A q \in DOMAIN t.peers : q \in DOMAIN x.peers
      BY <3>2 DEF HasEntry
    <3>7. Touched(old, e.timestamp, v.peers[p])
      BY <3>3, <3>4, <3>6 DEF Touched, SameSeen
    <3>8. KeepsSeen(t, v, p)
      BY <3>3, <3>4, <3>6 DEF KeepsSeen, SameSeen
    <3> QED BY <3>4, <3>5, <3>7, <3>8
  <2> QED BY <2>1, <2>2
<1>2. u = WithPeerRecord(w, p, peer)
  BY Zenon DEF RecordMessage, WithPeerRecord
<1>3. IsTable(w) /\ HasEntry(v, p, w)
  BY <1>1, EntryMade
<1>4. Touched(TouchedRecord(v, p, e.timestamp), e.timestamp, w.peers[p]) /\ KeepsSeen(v, w, p)
  BY <1>1, EntryTouched
<1> HIDE DEF v, w, u
<1>5. Touched(old, e.timestamp, w.peers[p])
  <2>1. CASE v = t
    BY <1>4, <2>1
  <2>2. CASE HasEntry(t, p, v) /\ Touched(old, e.timestamp, v.peers[p])
    <3>1. TouchedRecord(v, p, e.timestamp) = v.peers[p]
      BY <2>2 DEF TouchedRecord, HasEntry
    <3> HIDE DEF old
    <3> QED BY <1>4, <2>2, <3>1, TouchedTwice
  <2> QED BY <1>1, <2>1, <2>2
<1>6. KeepsSeen(t, w, p)
  <2>1. \A q \in DOMAIN t.peers : q \in DOMAIN v.peers
    BY <1>1 DEF HasEntry
  <2> QED BY <1>1, <1>4, <2>1 DEF KeepsSeen, SameSeen
<1>7. p \in DOMAIN w.peers /\ IsPeer(w.peers[p])
  BY <1>3 DEF HasEntry, IsTable
<1>8. /\ IsPeer(peer) /\ peer.firstSeen = w.peers[p].firstSeen /\ peer.lastSeen = w.peers[p].lastSeen
      /\ peer.messages = CountedWay(w.peers[p].messages, e)
      /\ peer.commands = With(w.peers[p].commands, kind, CountedWay(CommandTally(w.peers[p], kind), e))
  <2> DEFINE was == w.peers[p]
             way == CountedWay(was.messages, e)
             tallies == With(was.commands, kind, CountedWay(CommandTally(was, kind), e))
  <2>1. peer = [was EXCEPT !.addr = e.addr, !.connType = e.connType, !.messages = way, !.commands = tallies]
    BY <1>7 DEF WithMessage, IsPeer, PeerFields
  <2>2. IsPeer(peer)
    BY <1>7, PeerCounted
  <2> HIDE DEF way, tallies, was, peer
  <2>3. IsPeer(was)
    BY <1>7 DEF was
  <2>4. /\ peer.firstSeen = was.firstSeen /\ peer.lastSeen = was.lastSeen /\ peer.messages = way
        /\ peer.commands = tallies
    BY <2>1, <2>3 DEF IsPeer, PeerFields
  <2> QED BY <2>2, <2>4 DEF way, tallies, was
<1> HIDE DEF peer
<1>9. /\ DOMAIN u.peers = DOMAIN w.peers /\ u.peers[p] = peer
      /\ \A q \in DOMAIN w.peers : q # p => u.peers[q] = w.peers[q]
  BY <1>2, <1>3, <1>7, <1>8, PeerReplaced
<1>10. SeenAfter(old, e, kind, u.peers[p])
  <2> DEFINE was == w.peers[p]
  <2> HIDE DEF old
  <2>1. /\ was.firstSeen = Smaller(old.firstSeen, e.timestamp)
        /\ was.lastSeen = Larger(old.lastSeen, e.timestamp)
        /\ was.messages = old.messages /\ was.commands = old.commands
    BY <1>5 DEF Touched
  <2>2. CommandTally(was, kind) = CommandTally(old, kind)
    BY <2>1 DEF CommandTally
  <2> HIDE DEF was
  <2>3. /\ u.peers[p].firstSeen = was.firstSeen /\ u.peers[p].lastSeen = was.lastSeen
        /\ u.peers[p].messages = CountedWay(was.messages, e)
        /\ u.peers[p].commands = With(was.commands, kind, CountedWay(CommandTally(was, kind), e))
    BY <1>8, <1>9 DEF was
  <2> QED BY <2>1, <2>2, <2>3 DEF SeenAfter, MessagesAfter, CommandsAfter
<1>11. KeepsSeen(t, u, p)
  <2>1. \A q \in DOMAIN t.peers : q \in DOMAIN w.peers
    BY <1>1, <1>3 DEF HasEntry
  <2> QED BY <1>6, <1>9, <2>1 DEF KeepsSeen, SameSeen
<1> QED BY <1>10, <1>11 DEF u, old

(* record_connection *)
LEMMA ConnectionSeen ==
  ASSUME NEW t, IsTable(t), NEW e, e.class = "connection", e.kind # "none", NEW kind
  PROVE  LET u == RecordConnection(t, e)
         IN /\ SeenAfter(TouchedRecord(t, e.peer, e.timestamp), e, kind, u.peers[e.peer])
            /\ KeepsSeen(t, u, e.peer)
<1> DEFINE p == e.peer
           old == TouchedRecord(t, p, e.timestamp)
           w == Entry(t, p, e.timestamp)
           same == UpdateIdentity(w.peers[p], e)
           peer == Lived(same, e)
           x == WithPeerRecord(w, p, peer)
           u == RecordConnection(t, e)
<1>1. IsTable(w) /\ HasEntry(t, p, w)
  BY EntryMade
<1>2. Touched(old, e.timestamp, w.peers[p]) /\ KeepsSeen(t, w, p)
  BY EntryTouched
<1>3. p \in DOMAIN w.peers /\ IsPeer(w.peers[p])
  BY <1>1 DEF HasEntry, IsTable
<1>4. u = Timed(x, e)
  BY Zenon DEF RecordConnection, WithPeerRecord
<1> HIDE DEF w, u, old
<1>5. IsPeer(same) /\ SameSeen(same, w.peers[p])
  BY <1>3 DEF UpdateIdentity, IsPeer, PeerFields, SameSeen
<1> HIDE DEF same
<1>6. IsPeer(peer) /\ SameSeen(peer, same)
  <2> DEFINE few == LastFew(Append(same.lifecycle, [timestamp |-> e.timestamp, kind |-> e.kind]))
             tallies == [same.lifecycleCounts EXCEPT ![e.kind] = @ + 1]
             new == [same EXCEPT !.lifecycle = few, !.lifecycleTotal = @ + 1, !.lifecycleCounts = tallies]
  <2>1. Lived(same, e) = new
    BY <1>5 DEF Lived, IsPeer, PeerFields
  <2> HIDE DEF few, tallies
  <2>2. SameSeen(new, same)
    BY <1>5 DEF IsPeer, PeerFields, SameSeen
  <2>3. IsPeer(Lived(same, e))
    BY <1>5, LifeRecorded
  <2> QED BY <2>1, <2>2, <2>3
<1> HIDE DEF peer
<1>7. /\ IsTable(x) /\ x.peers[p] = peer
      /\ DOMAIN x.peers = DOMAIN w.peers
      /\ \A q \in DOMAIN w.peers : q # p => x.peers[q] = w.peers[q]
  BY <1>1, <1>3, <1>6, PeerReplaced
<1> HIDE DEF x
<1>8. u.peers = x.peers
  BY <1>4, <1>7, EndTimed
<1>9. SeenAfter(old, e, kind, u.peers[p])
  BY <1>2, <1>5, <1>6, <1>7, <1>8 DEF SeenAfter, MessagesAfter, CommandsAfter, Touched, SameSeen
<1>10. KeepsSeen(t, u, p)
  <2>1. \A q \in DOMAIN t.peers : q \in DOMAIN w.peers
    BY <1>1 DEF HasEntry
  <2> QED BY <1>2, <1>7, <1>8, <2>1 DEF KeepsSeen, SameSeen
<1> QED BY <1>9, <1>10 DEF u, old

(* What an event does to what is told of the peers. *)
LEMMA TableSeen ==
  ASSUME NEW t, IsTable(t), NEW e \in AllEvents, NEW kind
  PROVE  LET u == TableAfter(t, e, kind)
         IN IF HasPeer(e)
            THEN /\ SeenAfter(TouchedRecord(t, e.peer, e.timestamp), e, kind, u.peers[e.peer])
                 /\ KeepsSeen(t, u, e.peer)
            ELSE \A q \in DOMAIN t.peers : SameSeen(u.peers[q], t.peers[q])
<1> DEFINE u == TableAfter(t, e, kind)
<1>1. CASE e.class = "message"
  <2>1. u = RecordMessage(t, e, kind) /\ HasPeer(e)
    BY <1>1 DEF TableAfter, HasPeer
  <2> QED BY <1>1, <2>1, MessageSeen
<1>2. CASE e.class = "connection" /\ e.kind # "none"
  <2>1. u = RecordConnection(t, e) /\ HasPeer(e)
    BY <1>2 DEF TableAfter, HasPeer
  <2> QED BY <1>2, <2>1, ConnectionSeen
<1>3. CASE (e.class = "connection" /\ e.kind = "none") \/ e.class = "other"
  <2>1. u = t /\ ~HasPeer(e)
    BY <1>3 DEF TableAfter, HasPeer, RecordConnection
  <2> QED BY <2>1 DEF SameSeen
<1>4. CASE e.class = "peer_infos"
  <2>1. u = NamePolled(t, e.infos) /\ ~HasPeer(e)
    BY <1>4 DEF TableAfter, HasPeer
  <2>2. Len(e.infos) \in Nat
    BY <1>4, EventIs
  <2> QED BY <2>1, <2>2, PollTouchesNone
<1> QED BY <1>1, <1>2, <1>3, <1>4, EventIs

-----------------------------------------------------------------------------
(***************************************************************************)
(* The invariant: a peer's first and last instants are those of its        *)
(* events, and its counts those of its messages each way.                  *)
(***************************************************************************)
MessagesIn(S, events, inbound) == {i \in S : events[i].class = "message" /\ events[i].inbound = inbound}

SpanFits(first, last, S, events) ==
  /\ first \in Nat /\ last \in Nat
  /\ \E i \in S : events[i].timestamp = first
  /\ \E i \in S : events[i].timestamp = last
  /\ \A i \in S : first <= events[i].timestamp /\ events[i].timestamp <= last

MessagesFit(messages, S, events) ==
  /\ messages = [inbound |-> messages.inbound, outbound |-> messages.outbound]
  /\ messages.inbound.count = Cardinality(MessagesIn(S, events, TRUE))
  /\ messages.outbound.count = Cardinality(MessagesIn(S, events, FALSE))

SeenFits(peer, S, events) ==
  SpanFits(peer.firstSeen, peer.lastSeen, S, events) /\ MessagesFit(peer.messages, S, events)

SeenInv == \A p \in DOMAIN table.peers : SeenFits(table.peers[p], Of(p), log)

(* A longer log changes nothing that is not added to. *)
LEMMA SeenStays ==
  ASSUME NEW old, NEW new, SameSeen(new, old), NEW S, NEW events, NEW more,
         \A i \in S : more[i] = events[i], SeenFits(old, S, events)
  PROVE  SeenFits(new, S, more)
<1>1. MessagesIn(S, more, TRUE) = MessagesIn(S, events, TRUE)
      /\ MessagesIn(S, more, FALSE) = MessagesIn(S, events, FALSE)
  BY DEF MessagesIn
<1>2. MessagesFit(new.messages, S, more)
  BY <1>1 DEF SeenFits, MessagesFit, SameSeen
<1>3. SpanFits(new.firstSeen, new.lastSeen, S, more)
  BY DEF SeenFits, SpanFits, SameSeen
<1> QED BY <1>2, <1>3 DEF SeenFits

(* One more event: the span is widened to it, ... *)
LEMMA SpanMovesOn ==
  ASSUME NEW n \in Nat, NEW S \in SUBSET (1 .. n), NEW events, NEW more,
         \A i \in S : more[i] = events[i] /\ events[i].timestamp \in Nat,
         NEW at \in Nat, more[n + 1].timestamp = at,
         NEW first, NEW last,
         (S = {} /\ first = at /\ last = at) \/ SpanFits(first, last, S, events)
  PROVE  SpanFits(Smaller(first, at), Larger(last, at), S \cup {n + 1}, more)
<1> DEFINE all == S \cup {n + 1}
           low == Smaller(first, at)
           high == Larger(last, at)
<1>1. first \in Nat /\ last \in Nat
  BY DEF SpanFits
<1>2. low \in Nat /\ high \in Nat /\ low <= first /\ low <= at /\ last <= high /\ at <= high
      /\ (low = first \/ low = at) /\ (high = last \/ high = at)
  BY <1>1 DEF Smaller, Larger
<1> HIDE DEF low, high
<1>3. CASE S = {} /\ first = at /\ last = at
  <2>1. all = {n + 1} /\ low = at /\ high = at
    BY <1>2, <1>3
  <2> QED BY <1>2, <2>1 DEF SpanFits, low, high
<1>4. CASE SpanFits(first, last, S, events)
  <2>1. (\E i \in all : more[i].timestamp = low) /\ \E i \in all : more[i].timestamp = high
    BY <1>2, <1>4 DEF SpanFits
  <2>2. ASSUME NEW i \in all
        PROVE  low <= more[i].timestamp /\ more[i].timestamp <= high
    <3>1. CASE i = n + 1
      BY <1>2, <3>1
    <3>2. CASE i # n + 1
      <4>1. i \in S /\ more[i] = events[i] /\ events[i].timestamp \in Nat
        BY <3>2
      <4>2. first <= events[i].timestamp /\ events[i].timestamp <= last
        BY <1>4, <4>1 DEF SpanFits
      <4> QED BY <1>1, <1>2, <4>1, <4>2
    <3> QED BY <3>1, <3>2
  <2> QED BY <1>2, <2>1, <2>2 DEF SpanFits, low, high
<1> QED BY <1>3, <1>4

(* ... and a message is counted the way it went. *)
LEMMA MessagesMoveOn ==
  ASSUME NEW n \in Nat, NEW S \in SUBSET (1 .. n), NEW events, NEW more,
         \A i \in S : more[i] = events[i],
         NEW e, more[n + 1] = e, e.class = "message" => e.inbound \in BOOLEAN,
         NEW messages, MessagesFit(messages, S, events)
  PROVE  MessagesFit(MessagesAfter(messages, e), S \cup {n + 1}, more)
<1> DEFINE all == S \cup {n + 1}
           In(inbound) == MessagesIn(S, events, inbound)
           after == MessagesAfter(messages, e)
<1>1. ASSUME NEW inbound
      PROVE  /\ In(inbound) \in SUBSET (1 .. n)
             /\ MessagesIn(all, more, inbound) =
                  IF e.class = "message" /\ e.inbound = inbound THEN In(inbound) \cup {n + 1}
                  ELSE In(inbound)
             /\ Cardinality(In(inbound)) \in Nat
             /\ Cardinality(In(inbound) \cup {n + 1}) = Cardinality(In(inbound)) + 1
  <2>1. /\ In(inbound) \in SUBSET (1 .. n)
        /\ MessagesIn(all, more, inbound) =
             IF e.class = "message" /\ e.inbound = inbound THEN In(inbound) \cup {n + 1}
             ELSE In(inbound)
    BY DEF MessagesIn
  <2> HIDE DEF In
  <2> QED BY <2>1, OneMoreCounted
<1> HIDE DEF In
<1>2. /\ messages = [inbound |-> messages.inbound, outbound |-> messages.outbound]
      /\ messages.inbound.count = Cardinality(In(TRUE))
      /\ messages.outbound.count = Cardinality(In(FALSE))
  BY DEF MessagesFit, In
<1>3. CASE e.class # "message"
  <2>1. after = messages
    BY <1>3 DEF MessagesAfter
  <2> QED BY <1>1, <1>2, <1>3, <2>1 DEF MessagesFit
<1>4. CASE e.class = "message" /\ e.inbound
  <2>1. after = [messages EXCEPT !.inbound = Counted(@, e.size)]
    BY <1>4 DEF MessagesAfter, CountedWay
  <2>2. /\ after = [inbound |-> after.inbound, outbound |-> after.outbound]
        /\ after.inbound.count = messages.inbound.count + 1 /\ after.outbound = messages.outbound
    <3> HIDE DEF after
    <3>1. DOMAIN messages = {"inbound", "outbound"}
      BY <1>2
    <3>2. after.inbound = Counted(messages.inbound, e.size) /\ after.outbound = messages.outbound
      BY <2>1, <3>1
    <3>3. after = [inbound |-> after.inbound, outbound |-> after.outbound]
      BY <2>1, <3>1
    <3> QED BY <3>2, <3>3 DEF Counted
  <2>3. e.inbound = TRUE /\ e.inbound # FALSE
    BY <1>4
  <2>4. /\ Cardinality(MessagesIn(all, more, TRUE)) = Cardinality(In(TRUE)) + 1
        /\ Cardinality(MessagesIn(all, more, FALSE)) = Cardinality(In(FALSE))
    BY <1>1, <1>4, <2>3
  <2> HIDE DEF after
  <2> QED BY <1>2, <2>2, <2>4 DEF MessagesFit, after
<1>5. CASE e.class = "message" /\ ~e.inbound
  <2>1. after = [messages EXCEPT !.outbound = Counted(@, e.size)]
    BY <1>5 DEF MessagesAfter, CountedWay
  <2>2. /\ after = [inbound |-> after.inbound, outbound |-> after.outbound]
        /\ after.outbound.count = messages.outbound.count + 1 /\ after.inbound = messages.inbound
    <3> HIDE DEF after
    <3>1. DOMAIN messages = {"inbound", "outbound"}
      BY <1>2
    <3>2. after.outbound = Counted(messages.outbound, e.size) /\ after.inbound = messages.inbound
      BY <2>1, <3>1
    <3>3. after = [inbound |-> after.inbound, outbound |-> after.outbound]
      BY <2>1, <3>1
    <3> QED BY <3>2, <3>3 DEF Counted
  <2>3. e.inbound = FALSE /\ e.inbound # TRUE
    BY <1>5
  <2>4. /\ Cardinality(MessagesIn(all, more, TRUE)) = Cardinality(In(TRUE))
        /\ Cardinality(MessagesIn(all, more, FALSE)) = Cardinality(In(FALSE)) + 1
    BY <1>1, <1>5, <2>3
  <2> HIDE DEF after
  <2> QED BY <1>2, <2>2, <2>4 DEF MessagesFit, after
<1> QED BY <1>3, <1>4, <1>5

LEMMA SeenMovesOn ==
  ASSUME NEW n \in Nat, NEW S \in SUBSET (1 .. n), NEW events, NEW more,
         \A i \in S : more[i] = events[i] /\ events[i].timestamp \in Nat,
         NEW e, more[n + 1] = e, e.timestamp \in Nat, e.class = "message" => e.inbound \in BOOLEAN,
         NEW old, MessagesFit(old.messages, S, events),
         \/ S = {} /\ old.firstSeen = e.timestamp /\ old.lastSeen = e.timestamp
         \/ SpanFits(old.firstSeen, old.lastSeen, S, events),
         NEW kind, NEW new, SeenAfter(old, e, kind, new)
  PROVE  SeenFits(new, S \cup {n + 1}, more)
<1>1. MessagesFit(new.messages, S \cup {n + 1}, more)
  <2> DEFINE messages == old.messages
  <2>1. MessagesFit(messages, S, events) /\ new.messages = MessagesAfter(messages, e)
    BY DEF SeenAfter
  <2> HIDE DEF messages
  <2>2. \A i \in S : more[i] = events[i]
    OBVIOUS
  <2>3. more[n + 1] = e /\ (e.class = "message" => e.inbound \in BOOLEAN)
    OBVIOUS
  <2>4. MessagesFit(MessagesAfter(messages, e), S \cup {n + 1}, more)
    BY <2>1, <2>2, <2>3, MessagesMoveOn
  <2> QED BY <2>1, <2>4
<1>2. SpanFits(new.firstSeen, new.lastSeen, S \cup {n + 1}, more)
  BY SpanMovesOn DEF SeenAfter
<1> QED BY <1>1, <1>2 DEF SeenFits

(* A peer nothing was seen of yet. *)
LEMMA NoMessagesYet == ASSUME NEW events, NEW timestamp
                       PROVE  MessagesFit(NewPeer(1, timestamp).messages, {}, events)
<1>1. MessagesIn({}, events, TRUE) = {} /\ MessagesIn({}, events, FALSE) = {}
  BY DEF MessagesIn
<1>2. NewPeer(1, timestamp).messages = [inbound |-> NoTally, outbound |-> NoTally]
  BY DEF NewPeer, BothWays
<1> DEFINE messages == NewPeer(1, timestamp).messages
<1>3. /\ messages = [inbound |-> messages.inbound, outbound |-> messages.outbound]
      /\ messages.inbound.count = 0 /\ messages.outbound.count = 0
  BY <1>2 DEF NoTally
<1>4. Cardinality({}) = 0
  BY FS_EmptySet
<1> HIDE DEF messages
<1>5. MessagesFit(messages, {}, events)
  BY <1>1, <1>3, <1>4 DEF MessagesFit
<1> QED BY <1>5 DEF messages

LEMMA SeenStep ==
  ASSUME TableInv, SeenInv, NEW e \in archive, IngestEvent(e)
  PROVE  SeenInv'
<1> DEFINE id == KindId(Intern(kinds, KindOf(e)), KindOf(e))
           n == Len(log)
<1>1. /\ e \in AllEvents /\ n \in Nat
      /\ DOMAIN log = 1 .. n /\ DOMAIN log' = 1 .. n + 1
      /\ log'[n + 1] = e
      /\ \A i \in DOMAIN log : i \in DOMAIN log' /\ log'[i] = log[i]
  BY LogGrows DEF TableInv
<1>2. table' = TableAfter(table, e, id)
  BY DEF IngestEvent
<1> HIDE DEF id
<1>3. IsTable(table)
  BY DEF TableInv, PeersInv
<1>4. IF HasPeer(e)
      THEN /\ SeenAfter(TouchedRecord(table, e.peer, e.timestamp), e, id, table'.peers[e.peer])
           /\ KeepsSeen(table, table', e.peer)
      ELSE \A q \in DOMAIN table.peers : SameSeen(table'.peers[q], table.peers[q])
  BY <1>1, <1>2, <1>3, TableSeen
<1>5. DOMAIN table'.peers = IF HasPeer(e) THEN DOMAIN table.peers \cup {e.peer} ELSE DOMAIN table.peers
  <2>1. IF HasPeer(e) THEN HasEntry(table, e.peer, table') ELSE DOMAIN table'.peers = DOMAIN table.peers
    BY <1>1, <1>2, <1>3, TableEntered
  <2> QED BY <2>1 DEF HasEntry
<1> SUFFICES ASSUME NEW p \in DOMAIN table'.peers PROVE SeenFits(table'.peers[p], Of(p)', log')
  BY DEF SeenInv
<1> DEFINE S == Of(p)
           new == table'.peers[p]
<1>6. /\ S \in SUBSET (1 .. n)
      /\ Of(p)' = IF HasPeer(e) /\ e.peer = p THEN S \cup {n + 1} ELSE S
  BY OfGrows DEF TableInv
<1>7. \A i \in S : log'[i] = log[i] /\ log[i].timestamp \in Nat
  <2>1. log \in Seq(AllEvents)
    BY DEF TableInv, LogInv
  <2>2. \A i \in DOMAIN log : log[i] \in AllEvents
    BY <2>1, ElementOfSeq, <1>1
  <2> QED BY <1>1, <1>6, <2>2, EventIs
<1>8. CASE HasPeer(e) /\ e.peer = p
  <2> DEFINE old == TouchedRecord(table, p, e.timestamp)
  <2>1. SeenAfter(old, e, id, new)
    BY <1>4, <1>8
  <2>2. e.timestamp \in Nat /\ (e.class = "message" => e.inbound \in BOOLEAN)
    BY <1>1, EventIs
  <2>3. /\ MessagesFit(old.messages, S, log)
        /\ \/ S = {} /\ old.firstSeen = e.timestamp /\ old.lastSeen = e.timestamp
           \/ SpanFits(old.firstSeen, old.lastSeen, S, log)
    <3>1. CASE p \in DOMAIN table.peers
      BY <3>1 DEF SeenInv, SeenFits, TouchedRecord
    <3>2. CASE p \notin DOMAIN table.peers
      <4>1. S = {}
        BY <3>2 DEF TableInv, PeersInv, Of
      <4>2. old = NewPeer(1, e.timestamp)
        BY <3>2 DEF TouchedRecord
      <4>3. old.firstSeen = e.timestamp /\ old.lastSeen = e.timestamp
        BY <4>2 DEF NewPeer
      <4> QED BY <4>1, <4>2, <4>3, NoMessagesYet
    <3> QED BY <3>1, <3>2
  <2> HIDE DEF old, new, S, n
  <2>4. SeenFits(new, S \cup {n + 1}, log')
    BY <1>1, <1>6, <1>7, <2>1, <2>2, <2>3, SeenMovesOn
  <2> QED BY <1>6, <1>8, <2>4 DEF new
<1>9. CASE ~(HasPeer(e) /\ e.peer = p)
  <2>1. p \in DOMAIN table.peers
    BY <1>5, <1>9
  <2>2. SameSeen(new, table.peers[p])
    BY <1>4, <1>9, <2>1 DEF KeepsSeen
  <2>3. SeenFits(table.peers[p], S, log)
    BY <2>1 DEF SeenInv
  <2> HIDE DEF new, S
  <2>4. SeenFits(new, S, log')
    BY <1>7, <2>2, <2>3, SeenStays
  <2> QED BY <1>6, <1>9, <2>4 DEF new
<1> QED BY <1>8, <1>9

-----------------------------------------------------------------------------
(***************************************************************************)
(* A network's figures, put together peer by peer in some order.           *)
(***************************************************************************)
Absorbed(peers, D, g) ==
  g = [s \in D |-> IF s = {} THEN NoStats ELSE Absorb(g[s \ {AnyOf(s)}], peers[AnyOf(s)])]

LEMMA AbsorbsExist ==
  ASSUME NEW peers, NEW S, IsFiniteSet(S)
  PROVE  \E g : Absorbed(peers, SUBSET S, g)
<1> DEFINE n == Cardinality(S)
           Level(k) == {s \in SUBSET S : Cardinality(s) <= k}
           T == {k \in 0 .. n : \E g : Absorbed(peers, Level(k), g)}
<1>1. n \in Nat
  BY FS_CardinalityType
<1>2. 0 \in T
  <2>1. \A s \in Level(0) : s = {}
    <3> SUFFICES ASSUME NEW s \in Level(0), s # {} PROVE FALSE
      OBVIOUS
    <3>1. PICK x \in s : TRUE
      OBVIOUS
    <3>2. Cardinality(s) <= 0 /\ s \in SUBSET S
      OBVIOUS
    <3>3. /\ Cardinality(s \ {x}) \in Nat /\ Cardinality(s) \in Nat
          /\ Cardinality(s \ {x}) = Cardinality(s) - 1
      BY <3>1, <3>2, OneLess
    <3> QED BY <3>2, <3>3
  <2>2. Absorbed(peers, Level(0), [s \in Level(0) |-> NoStats])
    <3> HIDE DEF Level
    <3> QED BY <2>1 DEF Absorbed
  <2>3. 0 \in 0 .. n
    BY <1>1
  <2> QED BY <2>2, <2>3, Zenon
<1>3. \A k \in 0 .. n : k \in T /\ k < n => k + 1 \in T
  <2> SUFFICES ASSUME NEW k \in 0 .. n, k \in T, k < n PROVE k + 1 \in T
    OBVIOUS
  <2>1. PICK g : Absorbed(peers, Level(k), g)
    OBVIOUS
  <2> DEFINE h == [s \in Level(k + 1) |-> IF s = {} THEN NoStats ELSE Absorb(g[s \ {AnyOf(s)}], peers[AnyOf(s)])]
  <2>2. \A s \in Level(k + 1) :
          s # {} => s \ {AnyOf(s)} \in Level(k) /\ s \ {AnyOf(s)} \in Level(k + 1)
    <3> SUFFICES ASSUME NEW s \in Level(k + 1), s # {}
                 PROVE  s \ {AnyOf(s)} \in Level(k) /\ s \ {AnyOf(s)} \in Level(k + 1)
      OBVIOUS
    <3>2. s \in SUBSET S /\ Cardinality(s) <= k + 1
      OBVIOUS
    <3>1. AnyOf(s) \in s
      BY <3>2, AnyOfIn
    <3> DEFINE u == s \ {AnyOf(s)}
    <3>3. u \in SUBSET S /\ Cardinality(s) \in Nat /\ Cardinality(u) \in Nat
          /\ Cardinality(u) = Cardinality(s) - 1
      BY <3>1, <3>2, OneLess
    <3> HIDE DEF u
    <3>4. Cardinality(u) <= k /\ Cardinality(u) <= k + 1
      BY <3>2, <3>3
    <3>5. u \in Level(k) /\ u \in Level(k + 1)
      BY <3>3, <3>4
    <3> QED BY <3>5 DEF u
  <2>3. \A u \in Level(k) : u \in Level(k + 1)
    <3> TAKE u \in Level(k)
    <3>1. IsFiniteSet(u)
      BY FS_Subset
    <3>2. Cardinality(u) \in Nat /\ Cardinality(u) <= k
      BY <3>1, FS_CardinalityType
    <3>3. Cardinality(u) <= k + 1
      BY <3>2
    <3> QED BY <3>3
  <2>4. \A u \in Level(k) : h[u] = g[u]
    <3> TAKE u \in Level(k)
    <3>1. g[u] = IF u = {} THEN NoStats ELSE Absorb(g[u \ {AnyOf(u)}], peers[AnyOf(u)])
      <4> HIDE DEF Level
      <4> QED BY <2>1 DEF Absorbed
    <3>2. h[u] = IF u = {} THEN NoStats ELSE Absorb(g[u \ {AnyOf(u)}], peers[AnyOf(u)])
      <4> HIDE DEF Level
      <4> QED BY <2>3
    <3> QED BY <3>1, <3>2
  <2> HIDE DEF Level
  <2>5. \A s \in Level(k + 1) : h[s] = IF s = {} THEN NoStats ELSE Absorb(h[s \ {AnyOf(s)}], peers[AnyOf(s)])
    <3> TAKE s \in Level(k + 1)
    <3>1. h[s] = IF s = {} THEN NoStats ELSE Absorb(g[s \ {AnyOf(s)}], peers[AnyOf(s)])
      OBVIOUS
    <3> HIDE DEF h
    <3> QED BY <2>2, <2>4, <3>1
  <2>6. h = [s \in Level(k + 1) |-> h[s]]
    OBVIOUS
  <2> HIDE DEF h
  <2>7. Absorbed(peers, Level(k + 1), h)
    BY <2>5, <2>6 DEF Absorbed
  <2>8. k + 1 \in 0 .. n
    BY <1>1
  <2> QED BY <2>7, <2>8, Zenon
<1>4. n \in T
  <2> HIDE DEF T, n
  <2>1. 0 .. n \subseteq T
    BY <1>1, <1>2, <1>3, CountingUp
  <2> QED BY <1>1, <2>1
<1>5. Level(n) = SUBSET S
  BY FS_Subset
<1> HIDE DEF Level
<1> QED BY <1>4, <1>5

LEMMA GroupIsChosen ==
  ASSUME NEW network \in {NetworkOf(PeerOf(p)) : p \in Known}
  PROVE  LET members == {p \in Known : NetworkOf(PeerOf(p)) = network}
         IN Group[network] = (CHOOSE g : Absorbed(table.peers, SUBSET members, g))[members]
<1> DEFINE members == {p \in Known : NetworkOf(PeerOf(p)) = network}
<1>1. Group[network] = FoldSet(LAMBDA p, stats : Absorb(stats, PeerOf(p)), NoStats, members)
  BY DEF Group
<1> HIDE DEF members
<1>2. FoldSet(LAMBDA p, stats : Absorb(stats, PeerOf(p)), NoStats, members)
        = (CHOOSE g : Absorbed(table.peers, SUBSET members, g))[members]
  BY DEF FoldSet, MapThenFoldSet, AnyOf, Absorbed, PeerOf
<1> QED BY <1>1, <1>2 DEF members

-----------------------------------------------------------------------------
(* What a network tells of so many peers, whose events are those at S.  The
   first instant is told if none of them is zero. *)
EarliestIs(first, S, events) ==
  /\ first \in Nat
  /\ \E i \in S : events[i].timestamp = first
  /\ \A i \in S : first <= events[i].timestamp

LatestIs(last, S, events) ==
  /\ last \in Nat
  /\ \E i \in S : events[i].timestamp = last
  /\ \A i \in S : events[i].timestamp <= last

GroupFits(stats, many, S, events) ==
  /\ stats.peers = many
  /\ stats.inbound.count = Cardinality(MessagesIn(S, events, TRUE))
  /\ stats.outbound.count = Cardinality(MessagesIn(S, events, FALSE))
  /\ S = {} => stats.firstSeen = 0 /\ stats.lastSeen = 0
  /\ S # {} => LatestIs(stats.lastSeen, S, events)
  /\ S # {} /\ (\A i \in S : events[i].timestamp > 0) => EarliestIs(stats.firstSeen, S, events)

(* Messages of two peers are not the same messages. *)
LEMMA MessagesOfBoth ==
  ASSUME NEW A, IsFiniteSet(A), NEW B, IsFiniteSet(B), A \cap B = {}, NEW events, NEW inbound
  PROVE  Cardinality(MessagesIn(A \cup B, events, inbound))
           = Cardinality(MessagesIn(A, events, inbound)) + Cardinality(MessagesIn(B, events, inbound))
<1> DEFINE a == MessagesIn(A, events, inbound)
           b == MessagesIn(B, events, inbound)
<1>1. MessagesIn(A \cup B, events, inbound) = a \cup b /\ a \cap b = {}
      /\ a \in SUBSET A /\ b \in SUBSET B
  BY DEF MessagesIn
<1> HIDE DEF a, b
<1>2. IsFiniteSet(a) /\ IsFiniteSet(b)
  BY <1>1, FS_Subset
<1>3. Cardinality(a \cup b) = Cardinality(a) + Cardinality(b) - Cardinality(a \cap b)
  BY <1>2, FS_Union
<1>4. Cardinality(a \cap b) = 0 /\ Cardinality(a) \in Nat /\ Cardinality(b) \in Nat
  BY <1>1, <1>2, FS_EmptySet, FS_CardinalityType
<1>5. Cardinality(a \cup b) = Cardinality(a) + Cardinality(b)
  BY <1>3, <1>4
<1> QED BY <1>1, <1>5 DEF a, b

(* Events of some peers, and events of another. *)
Apart(A, B, events) ==
  /\ IsFiniteSet(A) /\ IsFiniteSet(B) /\ A \cap B = {}
  /\ \A i \in A \cup B : events[i].timestamp \in Nat

(* absorb *)
LEMMA AbsorbFits ==
  ASSUME NEW A, NEW B, NEW events, Apart(A, B, events),
         NEW stats, NEW many, GroupFits(stats, many, A, events),
         NEW peer, SeenFits(peer, B, events)
  PROVE  GroupFits(Absorb(stats, peer), many + 1, A \cup B, events)
<1> DEFINE all == A \cup B
           new == Absorb(stats, peer)
<1>1. /\ new.peers = stats.peers + 1
      /\ new.inbound.count = stats.inbound.count + peer.messages.inbound.count
      /\ new.outbound.count = stats.outbound.count + peer.messages.outbound.count
      /\ new.firstSeen = IF stats.firstSeen = 0 THEN peer.firstSeen
                         ELSE Smaller(stats.firstSeen, peer.firstSeen)
      /\ new.lastSeen = Larger(stats.lastSeen, peer.lastSeen)
  BY DEF Absorb, Added
<1> HIDE DEF new
<1>2. EarliestIs(peer.firstSeen, B, events) /\ LatestIs(peer.lastSeen, B, events)
  BY DEF SeenFits, SpanFits, EarliestIs, LatestIs
<1>3. all # {}
  BY <1>2 DEF LatestIs
<1>4. /\ new.inbound.count = Cardinality(MessagesIn(all, events, TRUE))
      /\ new.outbound.count = Cardinality(MessagesIn(all, events, FALSE))
  <2>1. /\ stats.inbound.count = Cardinality(MessagesIn(A, events, TRUE))
        /\ stats.outbound.count = Cardinality(MessagesIn(A, events, FALSE))
    BY DEF GroupFits
  <2>2. /\ peer.messages.inbound.count = Cardinality(MessagesIn(B, events, TRUE))
        /\ peer.messages.outbound.count = Cardinality(MessagesIn(B, events, FALSE))
    BY DEF SeenFits, MessagesFit
  <2>3. \A inbound : Cardinality(MessagesIn(all, events, inbound))
          = Cardinality(MessagesIn(A, events, inbound)) + Cardinality(MessagesIn(B, events, inbound))
    <3> TAKE inbound
    <3>1. IsFiniteSet(A) /\ IsFiniteSet(B) /\ A \cap B = {}
      BY DEF Apart
    <3> QED BY <3>1, MessagesOfBoth
  <2> QED BY <1>1, <2>1, <2>2, <2>3
<1>5. LatestIs(new.lastSeen, all, events)
  <2>1. CASE A = {}
    <3>1. stats.lastSeen = 0
      BY <2>1 DEF GroupFits
    <3>2. new.lastSeen = peer.lastSeen
      BY <1>1, <1>2, <3>1 DEF Larger, LatestIs
    <3> QED BY <1>2, <2>1, <3>2
  <2>2. CASE A # {}
    <3>1. LatestIs(stats.lastSeen, A, events)
      BY <2>2 DEF GroupFits
    <3> DEFINE x == stats.lastSeen
               y == peer.lastSeen
               last == Larger(x, y)
    <3>2. x \in Nat /\ y \in Nat
      BY <1>2, <3>1 DEF LatestIs
    <3>3. last \in Nat /\ x <= last /\ y <= last /\ (last = x \/ last = y)
      BY <3>2 DEF Larger
    <3>4. new.lastSeen = last
      BY <1>1
    <3> HIDE DEF last
    <3>5. \E i \in all : events[i].timestamp = last
      BY <1>2, <3>1, <3>3 DEF LatestIs
    <3>6. ASSUME NEW i \in all PROVE events[i].timestamp <= last
      <4>1. events[i].timestamp <= x \/ events[i].timestamp <= y
        BY <1>2, <3>1 DEF LatestIs
      <4>2. events[i].timestamp \in Nat
        BY DEF Apart
      <4> HIDE DEF x, y
      <4> QED BY <3>2, <3>3, <4>1, <4>2
    <3> QED BY <3>3, <3>4, <3>5, <3>6 DEF LatestIs
  <2> QED BY <2>1, <2>2
<1>6. ASSUME \A i \in all : events[i].timestamp > 0
      PROVE  EarliestIs(new.firstSeen, all, events)
  <2>1. CASE A = {}
    <3>1. stats.firstSeen = 0
      BY <2>1 DEF GroupFits
    <3>2. new.firstSeen = peer.firstSeen
      BY <1>1, <3>1
    <3> QED BY <1>2, <2>1, <3>2
  <2>2. CASE A # {}
    <3>1. EarliestIs(stats.firstSeen, A, events)
      BY <1>6, <2>2 DEF GroupFits
    <3> DEFINE x == stats.firstSeen
               y == peer.firstSeen
               first == Smaller(x, y)
    <3>2. x \in Nat /\ y \in Nat
      BY <1>2, <3>1 DEF EarliestIs
    <3>3. first \in Nat /\ first <= x /\ first <= y /\ (first = x \/ first = y)
      BY <3>2 DEF Smaller
    <3>4. x # 0
      <4>1. PICK i \in A : events[i].timestamp = x
        BY <3>1 DEF EarliestIs
      <4>2. events[i].timestamp > 0
        BY <1>6
      <4> HIDE DEF x
      <4> QED BY <3>2, <4>1, <4>2
    <3>5. new.firstSeen = first
      BY <1>1, <3>4
    <3> HIDE DEF first
    <3>6. \E i \in all : events[i].timestamp = first
      BY <1>2, <3>1, <3>3 DEF EarliestIs
    <3>7. ASSUME NEW i \in all PROVE first <= events[i].timestamp
      <4>1. x <= events[i].timestamp \/ y <= events[i].timestamp
        BY <1>2, <3>1 DEF EarliestIs
      <4>2. events[i].timestamp \in Nat
        BY DEF Apart
      <4> HIDE DEF x, y
      <4> QED BY <3>2, <3>3, <4>1, <4>2
    <3> QED BY <3>3, <3>5, <3>6, <3>7 DEF EarliestIs
  <2> QED BY <2>1, <2>2
<1>7. new.peers = many + 1
  BY <1>1 DEF GroupFits
<1> HIDE DEF all
<1>8. GroupFits(new, many + 1, all, events)
  BY <1>3, <1>4, <1>5, <1>6, <1>7, Zenon DEF GroupFits
<1> QED BY <1>8 DEF new, all

(* The events of some peers. *)
EventsAmong(M, s) == UNION {M[p] : p \in s}

(* group *)
LEMMA GroupsFit ==
  ASSUME NEW S, IsFiniteSet(S), NEW M, IsFiniteSet(EventsAmong(M, S)),
         \A p, q \in S : p # q => M[p] \cap M[q] = {},
         NEW events, \A i \in EventsAmong(M, S) : events[i].timestamp \in Nat,
         NEW peers, \A p \in S : SeenFits(peers[p], M[p], events),
         NEW g, Absorbed(peers, SUBSET S, g)
  PROVE  GroupFits(g[S], Cardinality(S), EventsAmong(M, S), events)
<1> DEFINE T == {s \in SUBSET S : GroupFits(g[s], Cardinality(s), EventsAmong(M, s), events)}
<1>1. \A s \in SUBSET S :
        (\A u \in SUBSET S : Cardinality(u) < Cardinality(s) => u \in T) => s \in T
  <2> SUFFICES ASSUME NEW s \in SUBSET S,
                      \A u \in SUBSET S : Cardinality(u) < Cardinality(s) => u \in T
               PROVE  GroupFits(g[s], Cardinality(s), EventsAmong(M, s), events)
    OBVIOUS
  <2>1. g[s] = IF s = {} THEN NoStats ELSE Absorb(g[s \ {AnyOf(s)}], peers[AnyOf(s)])
    BY DEF Absorbed
  <2>2. CASE s = {}
    <3>1. EventsAmong(M, s) = {}
      BY <2>2 DEF EventsAmong
    <3>2. MessagesIn({}, events, TRUE) = {} /\ MessagesIn({}, events, FALSE) = {}
      BY DEF MessagesIn
    <3>3. Cardinality({}) = 0
      BY FS_EmptySet
    <3>4. /\ NoStats.peers = 0 /\ NoStats.inbound.count = 0 /\ NoStats.outbound.count = 0
          /\ NoStats.firstSeen = 0 /\ NoStats.lastSeen = 0
      BY DEF NoStats, NoTally
    <3> HIDE DEF T
    <3>5. GroupFits(NoStats, 0, {}, events)
      BY <3>2, <3>3, <3>4 DEF GroupFits
    <3>6. g[s] = NoStats /\ Cardinality(s) = 0
      BY <2>1, <2>2, <3>3
    <3> QED BY <3>1, <3>5, <3>6
  <2>3. CASE s # {}
    <3> DEFINE x == AnyOf(s)
               u == s \ {x}
               A == EventsAmong(M, u)
               B == M[x]
    <3>1. x \in s
      BY <2>3, AnyOfIn
    <3>2. /\ u \in SUBSET S /\ Cardinality(s) \in Nat /\ Cardinality(u) \in Nat
          /\ Cardinality(u) = Cardinality(s) - 1
      BY <3>1, OneLess
    <3>3. g[s] = Absorb(g[u], peers[x])
      BY <2>1, <2>3
    <3>4. A \cup B = EventsAmong(M, s)
      BY <3>1 DEF EventsAmong
    <3>5. A \cap B = {}
      BY <3>1 DEF EventsAmong
    <3>6. IsFiniteSet(A) /\ IsFiniteSet(B)
      <4>1. A \in SUBSET EventsAmong(M, S) /\ B \in SUBSET EventsAmong(M, S)
        BY <3>1 DEF EventsAmong
      <4> HIDE DEF A, B
      <4> QED BY <4>1, FS_Subset
    <3>7. \A i \in A \cup B : events[i].timestamp \in Nat
      BY <3>4 DEF EventsAmong
    <3>8. SeenFits(peers[x], B, events)
      BY <3>1
    <3> HIDE DEF x, u
    <3>9. u \in T
      BY <3>2
    <3>10. GroupFits(g[u], Cardinality(u), A, events)
      BY <3>9
    <3> HIDE DEF A, B, T
    <3>11. GroupFits(Absorb(g[u], peers[x]), Cardinality(u) + 1, A \cup B, events)
      <4> DEFINE stats == g[u]
                 peer == peers[x]
                 many == Cardinality(u)
      <4>1. GroupFits(stats, many, A, events) /\ SeenFits(peer, B, events)
        BY <3>8, <3>10
      <4> HIDE DEF stats, peer, many
      <4>2. Apart(A, B, events)
        BY <3>5, <3>6, <3>7 DEF Apart
      <4>3. GroupFits(Absorb(stats, peer), many + 1, A \cup B, events)
        BY <4>1, <4>2, AbsorbFits
      <4> QED BY <4>3 DEF stats, peer, many
    <3>12. Cardinality(u) + 1 = Cardinality(s)
      BY <3>2
    <3> QED BY <3>3, <3>4, <3>11, <3>12
  <2> QED BY <2>2, <2>3
<1>2. S \in T
  <2> HIDE DEF T
  <2> QED BY <1>1, SmallerFirst
<1> QED BY <1>2

-----------------------------------------------------------------------------
(* There are as many peers as the index says. *)
LEMMA PeersAreFinite == ASSUME PeersInv PROVE IsFiniteSet(Known)
<1> DEFINE n == Len(table.byIndex)
           back == {table.byIndex[i] : i \in 1 .. n}
<1>1. n \in Nat
  BY LenProperties DEF PeersInv
<1>2. IsFiniteSet(1 .. n)
  BY <1>1, FS_Interval
<1>3. IsFiniteSet(back)
  BY <1>2, ImageIsFinite
<1>4. Known \subseteq back
  BY DEF PeersInv, IndexFits, Known
<1> QED BY <1>3, <1>4, FS_Subset

(* A network's figures tell of its members' events. *)
LEMMA NetworkFits ==
  ASSUME LogInv, PeersInv, SeenInv, NEW network \in {NetworkOf(PeerOf(p)) : p \in Known}
  PROVE  LET members == {p \in Known : NetworkOf(PeerOf(p)) = network}
         IN /\ GroupFits(Group[network], Cardinality(members), UNION {Of(p) : p \in members}, log)
            /\ members # {}
<1> DEFINE members == {p \in Known : NetworkOf(PeerOf(p)) = network}
           M == [p \in Known |-> Of(p)]
<1>1. IsFiniteSet(members) /\ members # {} /\ members \subseteq Known
  <2>1. IsFiniteSet(Known) /\ members \in SUBSET Known
    BY PeersAreFinite
  <2>2. members # {}
    OBVIOUS
  <2> HIDE DEF members
  <2> QED BY <2>1, <2>2, FS_Subset
<1>2. Group[network] = (CHOOSE g : Absorbed(table.peers, SUBSET members, g))[members]
  BY GroupIsChosen
<1> HIDE DEF members
<1>3. PICK g : Absorbed(table.peers, SUBSET members, g) /\ Group[network] = g[members]
  <2>1. \E g : Absorbed(table.peers, SUBSET members, g)
    BY <1>1, AbsorbsExist
  <2> QED BY <1>2, <2>1
<1>4. DOMAIN log = 1 .. Len(log) /\ Len(log) \in Nat /\ \A i \in DOMAIN log : log[i].timestamp \in Nat
  <2>1. log \in Seq(AllEvents)
    BY DEF LogInv
  <2>2. DOMAIN log = 1 .. Len(log) /\ Len(log) \in Nat
    BY <2>1, LenProperties
  <2>3. \A i \in DOMAIN log : log[i] \in AllEvents
    BY <2>1, <2>2, ElementOfSeq
  <2> QED BY <2>2, <2>3, EventIs
<1>5. \A p \in members : M[p] = Of(p) /\ Of(p) \subseteq DOMAIN log
  BY <1>1 DEF Of
<1>6. EventsAmong(M, members) = UNION {Of(p) : p \in members}
  BY <1>5 DEF EventsAmong
<1>7. \A p, q \in members : p # q => M[p] \cap M[q] = {}
  <2>1. \A p, q : p # q => Of(p) \cap Of(q) = {}
    BY DEF Of
  <2> QED BY <1>5, <2>1
<1>8. EventsAmong(M, members) \in SUBSET DOMAIN log
  BY <1>5, <1>6
<1>9. \A p \in members : SeenFits(table.peers[p], M[p], log)
  BY <1>1, <1>5 DEF SeenInv, Known
<1> HIDE DEF M
<1>10. IsFiniteSet(EventsAmong(M, members))
  <2>1. IsFiniteSet(DOMAIN log)
    BY <1>4, FS_Interval
  <2> QED BY <1>8, <2>1, FS_Subset
<1>11. \A i \in EventsAmong(M, members) : log[i].timestamp \in Nat
  BY <1>4, <1>8
<1>12. GroupFits(g[members], Cardinality(members), EventsAmong(M, members), log)
  BY <1>1, <1>3, <1>7, <1>9, <1>10, <1>11, GroupsFit
<1> QED BY <1>1, <1>3, <1>6, <1>12 DEF members

LEMMA NetworksHold == ASSUME LogInv, PeersInv, SeenInv PROVE NetworksAddUp
<1> DEFINE nets == {NetworkOf(PeerOf(p)) : p \in Known}
           members(net) == {p \in Known : NetworkOf(PeerOf(p)) = net}
           many == [net \in nets |-> Group[net].peers]
           messages(net, inbound) ==
             {i \in DOMAIN log : /\ log[i].class = "message" /\ log[i].inbound = inbound
                                 /\ NetworkOf(PeerOf(log[i].peer)) = net}
           its(net) == UNION {Of(p) : p \in members(net)}
           span(net) == {log[i].timestamp : i \in its(net)}
<1>1. DOMAIN Group = nets
  BY DEF Group
<1>2. \A net \in nets :
        GroupFits(Group[net], Cardinality(members(net)), its(net), log) /\ members(net) # {}
  BY NetworkFits
<1>3. MapThenSumSet(LAMBDA net : Group[net].peers, DOMAIN Group) = Cardinality(Known)
  <2>1. IsFiniteSet(Known)
    BY PeersAreFinite
  <2>2. IsFiniteSet(nets)
    <3> DEFINE f == [p \in Known |-> NetworkOf(PeerOf(p))]
    <3>1. nets = {f[p] : p \in Known}
      OBVIOUS
    <3> HIDE DEF f, nets
    <3> QED BY <2>1, <3>1, ImageIsFinite
  <2>3. \A net \in nets : many[net] = Cardinality(members(net))
    BY <1>2 DEF GroupFits
  <2>4. MapThenSumSet(LAMBDA net : Group[net].peers, nets) = SumFunctionOnSet(many, nets)
    <3> HIDE DEF nets
    <3>1. MapThenSumSet(LAMBDA net : Group[net].peers, nets) = (CHOOSE g : AddsUp(many, nets, g))[nets]
      BY DEF MapThenSumSet, MapThenFoldSet, AddsUp, Adds, AnyOf
    <3> QED BY <3>1, SumIsChosen
  <2> DEFINE a == [p \in Known |-> NetworkOf(PeerOf(p))]
  <2>5. \A p \in Known : a[p] \in nets
    OBVIOUS
  <2>6. \A net \in nets : many[net] = Cardinality({p \in Known : a[p] = net})
    <3> TAKE net \in nets
    <3>1. members(net) = {p \in Known : a[p] = net}
      OBVIOUS
    <3> HIDE DEF members, many, nets, a
    <3> QED BY <2>3, <3>1
  <2> HIDE DEF nets, many, a
  <2>7. SumFunctionOnSet(many, nets) = Cardinality(Known)
    <3>1. Sorts(Known, a, nets, many)
      BY <2>1, <2>2, <2>5, <2>6 DEF Sorts
    <3> QED BY <3>1, CountedByValue
  <2> QED BY <1>1, <2>4, <2>7
<1>4. ASSUME NEW net \in nets
      PROVE  /\ Group[net].inbound.count = Cardinality(messages(net, TRUE))
             /\ Group[net].outbound.count = Cardinality(messages(net, FALSE))
             /\ Group[net].lastSeen = Max(span(net))
             /\ Min(span(net)) > 0 => Group[net].firstSeen = Min(span(net))
  <2> DEFINE S == its(net)
             stats == Group[net]
  <2>1. GroupFits(stats, Cardinality(members(net)), S, log)
    BY <1>2
  <2>2. \A inbound : messages(net, inbound) = MessagesIn(S, log, inbound)
    <3> TAKE inbound
    <3>1. \A i \in DOMAIN log : HasPeer(log[i]) => log[i].peer \in Known
      BY DEF PeersInv, Known
    <3>2. \A i : i \in S <=> /\ i \in DOMAIN log /\ HasPeer(log[i]) /\ log[i].peer \in Known
                             /\ NetworkOf(PeerOf(log[i].peer)) = net
      BY DEF Of
    <3>3. \A i \in DOMAIN log : log[i].class = "message" => HasPeer(log[i])
      BY DEF HasPeer
    <3> HIDE DEF S
    <3> QED BY <3>1, <3>2, <3>3 DEF MessagesIn
  <2>3. S # {}
    <3>1. PICK p \in members(net) : TRUE
      BY <1>2
    <3>2. Of(p) # {}
      BY <3>1 DEF PeersInv, Known
    <3> QED BY <3>1, <3>2
  <2>4. \A i \in S : log[i].timestamp \in Nat
    <3>1. log \in Seq(AllEvents)
      BY DEF LogInv
    <3>2. \A i \in DOMAIN log : log[i] \in AllEvents
      BY <3>1, LenProperties, ElementOfSeq
    <3>3. \A i \in S : i \in DOMAIN log
      BY DEF Of
    <3> QED BY <3>2, <3>3, EventIs
  <2>5. span(net) = {log[i].timestamp : i \in S}
    OBVIOUS
  <2> HIDE DEF S, stats, messages, span
  <2>6. span(net) \in SUBSET Nat
    BY <2>4, <2>5
  <2>7. stats.lastSeen = Max(span(net))
    <3>1. LatestIs(stats.lastSeen, S, log)
      BY <2>1, <2>3 DEF GroupFits
    <3>2. stats.lastSeen \in span(net) /\ \A y \in span(net) : y <= stats.lastSeen
      BY <2>5, <3>1 DEF LatestIs
    <3> QED BY <2>6, <3>2, GreatestIsMax
  <2>8. ASSUME Min(span(net)) > 0 PROVE stats.firstSeen = Min(span(net))
    <3>1. span(net) # {}
      BY <2>3, <2>5
    <3>2. PICK least \in span(net) : \A y \in span(net) : least <= y
      BY <2>6, <3>1, LeastNat
    <3>3. Min(span(net)) = least
      BY <2>6, <3>2, LeastIsMin
    <3>4. \A i \in S : log[i].timestamp > 0
      <4> TAKE i \in S
      <4>1. least <= log[i].timestamp /\ least > 0 /\ least \in Nat
        BY <2>5, <2>6, <2>8, <3>2, <3>3
      <4> QED BY <2>4, <4>1
    <3>5. EarliestIs(stats.firstSeen, S, log)
      BY <2>1, <2>3, <3>4 DEF GroupFits
    <3>6. stats.firstSeen \in span(net) /\ \A y \in span(net) : stats.firstSeen <= y
      BY <2>5, <3>5 DEF EarliestIs
    <3> QED BY <2>6, <3>6, LeastIsMin
  <2>9. /\ stats.inbound.count = Cardinality(messages(net, TRUE))
        /\ stats.outbound.count = Cardinality(messages(net, FALSE))
    BY <2>1, <2>2 DEF GroupFits
  <2> QED BY <2>7, <2>8, <2>9 DEF stats
<1>5. \A net : UNION {Of(p) : p \in {q \in Known : NetworkOf(PeerOf(q)) = net}} = its(net)
  OBVIOUS
<1> HIDE DEF nets, its
<1> QED BY <1>1, <1>3, <1>4, <1>5 DEF NetworksAddUp

(***************************************************************************)
(* Every peer is in one network, which counts its messages once and spans  *)
(* its events (asn.rs, absorb and group), in every session of every        *)
(* archive and for every table of networks.                                *)
(***************************************************************************)
THEOREM NetworksHoldEveryPeer == Spec => []NetworksAddUp
<1>1. Init => SeenInv
  <2> SUFFICES ASSUME Init PROVE SeenInv
    OBVIOUS
  <2>1. DOMAIN table.peers = {}
    BY DEF Init, NewTable
  <2> QED BY <2>1 DEF SeenInv
<1>2. TableInv /\ SeenInv /\ [Next]_vars => SeenInv'
  <2> SUFFICES ASSUME TableInv, SeenInv, [Next]_vars PROVE SeenInv'
    OBVIOUS
  <2>1. CASE UNCHANGED vars
    <3>1. table' = table /\ log' = log
      BY <2>1 DEF vars
    <3>2. \A p : Of(p)' = Of(p)
      BY <3>1 DEF Of
    <3> QED BY <3>1, <3>2 DEF SeenInv
  <2>2. ASSUME NEW e \in archive, IngestEvent(e) PROVE SeenInv'
    BY <2>2, SeenStep
  <2> QED BY <2>1, <2>2 DEF Next
<1>3. TableInv /\ SeenInv => NetworksAddUp
  BY NetworksHold DEF TableInv
<1> QED BY <1>1, <1>2, <1>3, TablesHoldTogether, PTL DEF Spec

-----------------------------------------------------------------------------
(***************************************************************************)
(* The invariant: a peer's tallies, one for each kind of message it        *)
(* exchanged and none for another, counted each way.                       *)
(***************************************************************************)
Sent(S, events, kind) == {i \in S : events[i].class = "message" /\ KindOf(events[i]) = kind}

CommandsFit(commands, S, events, names) ==
  /\ DOMAIN commands \subseteq DOMAIN names
  /\ \A k \in DOMAIN names : k \in DOMAIN commands <=> Sent(S, events, names[k]) # {}
  /\ \A k \in DOMAIN commands : MessagesFit(commands[k], Sent(S, events, names[k]), events)

CommandsInv == \A p \in DOMAIN table.peers : CommandsFit(table.peers[p].commands, Of(p), log, kinds)

(* Some names, more of them: no name has changed, and none is there twice. *)
MoreNames(names, wider) ==
  /\ \A k \in DOMAIN names : k \in DOMAIN wider /\ wider[k] = names[k]
  /\ \A j, k \in DOMAIN wider : wider[j] = wider[k] => j = k

(* Neither a longer log nor another name changes what was counted. *)
LEMMA CommandsStay ==
  ASSUME NEW commands, NEW S, NEW events, NEW more, NEW names, NEW wider,
         \A i \in S : more[i] = events[i],
         \A i \in S : \E k \in DOMAIN names : names[k] = KindOf(events[i]),
         MoreNames(names, wider), CommandsFit(commands, S, events, names)
  PROVE  CommandsFit(commands, S, more, wider)
<1>1. \A kind : Sent(S, more, kind) = Sent(S, events, kind)
  BY DEF Sent
<1>2. \A k \in DOMAIN wider : Sent(S, events, wider[k]) # {} => k \in DOMAIN names
  <2> SUFFICES ASSUME NEW k \in DOMAIN wider, NEW i \in Sent(S, events, wider[k]) PROVE k \in DOMAIN names
    OBVIOUS
  <2>1. i \in S /\ KindOf(events[i]) = wider[k]
    BY DEF Sent
  <2>2. PICK j \in DOMAIN names : names[j] = wider[k]
    BY <2>1
  <2> QED BY <2>2 DEF MoreNames
<1>3. ASSUME NEW k \in DOMAIN commands
      PROVE  k \in DOMAIN wider /\ MessagesFit(commands[k], Sent(S, more, wider[k]), more)
  <2>1. k \in DOMAIN wider /\ wider[k] = names[k]
    BY DEF CommandsFit, MoreNames
  <2> DEFINE mine == Sent(S, events, names[k])
             tally == commands[k]
  <2>2. MessagesFit(tally, mine, events)
    BY DEF CommandsFit
  <2>3. \A i \in mine : more[i] = events[i]
    BY DEF Sent
  <2>4. Sent(S, more, wider[k]) = mine
    BY <1>1, <2>1
  <2> HIDE DEF mine, tally
  <2>5. MessagesIn(mine, more, TRUE) = MessagesIn(mine, events, TRUE)
        /\ MessagesIn(mine, more, FALSE) = MessagesIn(mine, events, FALSE)
    BY <2>3 DEF MessagesIn
  <2>6. MessagesFit(tally, mine, more)
    BY <2>2, <2>5 DEF MessagesFit
  <2> QED BY <2>1, <2>4, <2>6 DEF tally
<1>4. \A k \in DOMAIN wider : k \in DOMAIN commands <=> Sent(S, more, wider[k]) # {}
  <2> TAKE k \in DOMAIN wider
  <2>1. CASE k \in DOMAIN names
    BY <1>1, <2>1 DEF CommandsFit, MoreNames
  <2>2. CASE k \notin DOMAIN names
    BY <1>1, <1>2, <2>2 DEF CommandsFit
  <2> QED BY <2>1, <2>2
<1> QED BY <1>3, <1>4 DEF CommandsFit

(* One more event: a message is in the tally of its kind, and in no other. *)
LEMMA CommandsMoveOn ==
  ASSUME NEW n \in Nat, NEW S \in SUBSET (1 .. n), NEW events, NEW names,
         \A j, k \in DOMAIN names : names[j] = names[k] => j = k,
         NEW e, events[n + 1] = e, e.class = "message" => e.inbound \in BOOLEAN,
         NEW id \in DOMAIN names, names[id] = KindOf(e),
         NEW old, CommandsFit(old.commands, S, events, names)
  PROVE  CommandsFit(CommandsAfter(old, e, id), S \cup {n + 1}, events, names)
<1> DEFINE all == S \cup {n + 1}
           was == old.commands
           now == CommandsAfter(old, e, id)
<1>1. CASE e.class # "message"
  <2>1. \A kind : Sent(all, events, kind) = Sent(S, events, kind)
    BY <1>1 DEF Sent
  <2>2. now = was
    BY <1>1 DEF CommandsAfter
  <2> HIDE DEF now
  <2> QED BY <2>1, <2>2 DEF CommandsFit, now
<1>2. CASE e.class = "message"
  <2> DEFINE tally == CommandTally(old, id)
             mine == Sent(S, events, names[id])
  <2>1. now = With(was, id, CountedWay(tally, e))
    BY <1>2 DEF CommandsAfter
  <2>2. /\ DOMAIN now = DOMAIN was \cup {id} /\ now[id] = CountedWay(tally, e)
        /\ \A k \in DOMAIN was : k # id => now[k] = was[k]
    BY <2>1 DEF With
  <2>3. Sent(all, events, names[id]) = mine \cup {n + 1}
    BY <1>2 DEF Sent
  <2>4. \A k \in DOMAIN names : k # id => Sent(all, events, names[k]) = Sent(S, events, names[k])
    BY DEF Sent
  <2>5. MessagesFit(tally, mine, events)
    <3>1. CASE id \in DOMAIN was
      BY <3>1 DEF CommandsFit, CommandTally
    <3>2. CASE id \notin DOMAIN was
      <4>1. mine = {}
        BY <3>2 DEF CommandsFit
      <4>2. tally = NewPeer(1, 0).messages
        BY <3>2 DEF CommandTally, NewPeer
      <4> HIDE DEF tally, mine
      <4> QED BY <4>1, <4>2, NoMessagesYet
    <3> QED BY <3>1, <3>2
  <2>6. mine \in SUBSET (1 .. n)
    BY DEF Sent
  <2> HIDE DEF now, was, tally, mine, all
  <2>7. MessagesFit(CountedWay(tally, e), mine \cup {n + 1}, events)
    <3>1. MessagesAfter(tally, e) = CountedWay(tally, e)
      BY <1>2 DEF MessagesAfter
    <3>2. events[n + 1] = e /\ (e.class = "message" => e.inbound \in BOOLEAN)
      OBVIOUS
    <3>3. MessagesFit(MessagesAfter(tally, e), mine \cup {n + 1}, events)
      BY <2>5, <2>6, <3>2, MessagesMoveOn
    <3> QED BY <3>1, <3>3
  <2>8. CommandsFit(was, S, events, names)
    BY DEF was
  <2>9. ASSUME NEW k \in DOMAIN now
        PROVE  k \in DOMAIN names /\ MessagesFit(now[k], Sent(all, events, names[k]), events)
    <3>1. CASE k = id
      BY <2>2, <2>3, <2>7, <3>1
    <3>2. CASE k # id
      <4>1. k \in DOMAIN was /\ now[k] = was[k]
        BY <2>2, <3>2
      <4>2. k \in DOMAIN names /\ MessagesFit(was[k], Sent(S, events, names[k]), events)
        BY <2>8, <4>1 DEF CommandsFit
      <4> QED BY <2>4, <3>2, <4>1, <4>2
    <3> QED BY <3>1, <3>2
  <2>10. \A k \in DOMAIN names : k \in DOMAIN now <=> Sent(all, events, names[k]) # {}
    BY <2>2, <2>3, <2>4, <2>8 DEF CommandsFit
  <2>11. CommandsFit(now, all, events, names)
    BY <2>9, <2>10 DEF CommandsFit
  <2> QED BY <2>11 DEF now, all
<1> QED BY <1>1, <1>2

LEMMA CommandsStep ==
  ASSUME TableInv, CommandsInv, NEW e \in archive, IngestEvent(e)
  PROVE  CommandsInv'
<1> DEFINE id == KindId(Intern(kinds, KindOf(e)), KindOf(e))
           n == Len(log)
<1>1. /\ e \in AllEvents /\ n \in Nat
      /\ DOMAIN log = 1 .. n /\ DOMAIN log' = 1 .. n + 1
      /\ log'[n + 1] = e
      /\ \A i \in DOMAIN log : i \in DOMAIN log' /\ log'[i] = log[i]
  BY LogGrows DEF TableInv
<1>2. table' = TableAfter(table, e, id)
  BY DEF IngestEvent
<1>3. IsTable(table)
  BY DEF TableInv, PeersInv
<1>4. id \in DOMAIN kinds' /\ kinds'[id] = KindOf(e) /\ MoreNames(kinds, kinds')
  <2>1. LogInv /\ KindsInv /\ KindsInv'
    BY KindsStep DEF TableInv
  <2>2. \A j, k \in DOMAIN kinds' : kinds'[j] = kinds'[k] => j = k
    BY <2>1 DEF KindsInv
  <2> HIDE DEF id
  <2>3. /\ \A i \in DOMAIN kinds : i \in DOMAIN kinds' /\ kinds'[i] = kinds[i]
        /\ id \in DOMAIN kinds' /\ kinds'[id] = KindOf(e)
    BY <2>1, KindsGrow DEF id
  <2> QED BY <2>2, <2>3 DEF MoreNames
<1> HIDE DEF id
<1>5. IF HasPeer(e)
      THEN /\ SeenAfter(TouchedRecord(table, e.peer, e.timestamp), e, id, table'.peers[e.peer])
           /\ KeepsSeen(table, table', e.peer)
      ELSE \A q \in DOMAIN table.peers : SameSeen(table'.peers[q], table.peers[q])
  BY <1>1, <1>2, <1>3, TableSeen
<1>6. DOMAIN table'.peers = IF HasPeer(e) THEN DOMAIN table.peers \cup {e.peer} ELSE DOMAIN table.peers
  <2>1. IF HasPeer(e) THEN HasEntry(table, e.peer, table') ELSE DOMAIN table'.peers = DOMAIN table.peers
    BY <1>1, <1>2, <1>3, TableEntered
  <2> QED BY <2>1 DEF HasEntry
<1> SUFFICES ASSUME NEW p \in DOMAIN table'.peers
             PROVE  CommandsFit(table'.peers[p].commands, Of(p)', log', kinds')
  BY DEF CommandsInv
<1> DEFINE S == Of(p)
           old == TouchedRecord(table, p, e.timestamp)
           was == old.commands
           new == table'.peers[p]
<1>7. /\ S \in SUBSET (1 .. n)
      /\ Of(p)' = IF HasPeer(e) /\ e.peer = p THEN S \cup {n + 1} ELSE S
  BY OfGrows DEF TableInv
<1>8. \A i \in S : log'[i] = log[i]
  BY <1>1, <1>7
<1>9. \A i \in S : \E k \in DOMAIN kinds : kinds[k] = KindOf(log[i])
  <2>1. KindsInv
    BY DEF TableInv
  <2>2. DOMAIN kinds = 1 .. Len(kinds)
    BY <2>1, LenProperties DEF KindsInv
  <2>3. \A i \in DOMAIN log : \E k \in DOMAIN kinds : kinds[k] = KindOf(log[i])
    BY <2>1, <2>2 DEF KindsInv, Contains
  <2> QED BY <1>1, <1>7, <2>3
<1>10. CommandsFit(was, S, log, kinds)
  <2>1. CASE p \in DOMAIN table.peers
    BY <2>1 DEF CommandsInv, TouchedRecord
  <2>2. CASE p \notin DOMAIN table.peers
    <3>1. S = {}
      BY <2>2 DEF TableInv, PeersInv, Of
    <3>2. was = <<>>
      BY <2>2 DEF TouchedRecord, NewPeer
    <3>3. \A kind : Sent({}, log, kind) = {}
      BY DEF Sent
    <3> HIDE DEF S, was
    <3> QED BY <3>1, <3>2, <3>3 DEF CommandsFit
  <2> QED BY <2>1, <2>2
<1> HIDE DEF S, was, new
<1>11. CommandsFit(was, S, log', kinds')
  BY <1>4, <1>8, <1>9, <1>10, CommandsStay
<1>12. CASE HasPeer(e) /\ e.peer = p
  <2>1. new.commands = CommandsAfter(old, e, id)
    BY <1>5, <1>12 DEF SeenAfter, new
  <2>2. e.class = "message" => e.inbound \in BOOLEAN
    BY <1>1, EventIs
  <2>3. \A j, k \in DOMAIN kinds' : kinds'[j] = kinds'[k] => j = k
    BY <1>4 DEF MoreNames
  <2>4. CommandsFit(old.commands, S, log', kinds')
    BY <1>11 DEF was
  <2> HIDE DEF old, n
  <2>5. CommandsFit(CommandsAfter(old, e, id), S \cup {n + 1}, log', kinds')
    BY <1>1, <1>4, <1>7, <2>2, <2>3, <2>4, CommandsMoveOn
  <2> QED BY <1>7, <1>12, <2>1, <2>5 DEF new
<1>13. CASE ~(HasPeer(e) /\ e.peer = p)
  <2>1. p \in DOMAIN table.peers
    BY <1>6, <1>13
  <2>2. new.commands = table.peers[p].commands
    BY <1>5, <1>13, <2>1 DEF KeepsSeen, SameSeen, new
  <2>3. was = table.peers[p].commands
    BY <2>1 DEF was, TouchedRecord
  <2> QED BY <1>7, <1>11, <1>13, <2>2, <2>3 DEF new
<1> QED BY <1>12, <1>13

-----------------------------------------------------------------------------
(***************************************************************************)
(* The rasters: the rows of a peer, of a kind, each way, ...               *)
(***************************************************************************)
RowsOf(p) == {i \in Directed : store.rows[i].peer = PeerOf(p).index}
KindsOf(p) == {store.rows[i].kind : i \in RowsOf(p)}
Going(p, k, d) == {i \in RowsOf(p) : store.rows[i].kind = k /\ store.rows[i].direction = d}
ColumnOf(p, i, columns) ==
  Column(store.rows[i].timestamp, PeerOf(p).firstSeen, Larger(1, Duration(PeerOf(p))), columns)

DrawnIn(p, k, d, columns, c) == {i \in Going(p, k, d) : ColumnOf(p, i, columns) = c}

(* ... are what its raster is of: the totals of its rows, and the cells. *)
LEMMA PeerRasterIs ==
  ASSUME NEW p, NEW columns, NEW room
  PROVE  LET raster == PeerRaster(p, columns, room)
         IN /\ raster.totals = [k \in KindsOf(p) |-> [inbound |-> Cardinality(Going(p, k, "in")),
                                                      outbound |-> Cardinality(Going(p, k, "out"))]]
            /\ raster.partial = store.full
<1>1. PeerRaster(p, columns, room).totals
        = [k \in KindsOf(p) |-> [inbound |-> Cardinality(Going(p, k, "in")),
                                 outbound |-> Cardinality(Going(p, k, "out"))]]
  BY DEF PeerRaster, KindsOf, RowsOf, Going
<1>2. PeerRaster(p, columns, room).partial = store.full
  BY DEF PeerRaster
<1> QED BY <1>1, <1>2

LEMMA PeerCellIs ==
  ASSUME NEW p, NEW columns \in Nat, NEW room,
         NEW k \in KindsOf(p), NEW c \in 0 .. columns - 1, NEW d \in {"in", "out"}
  PROVE  PeerRaster(p, columns, room).cell[<<k, c, d>>] = Cardinality(DrawnIn(p, k, d, columns, c))
<1> DEFINE cell == PeerRaster(p, columns, room).cell
<1>1. cell = [at \in KindsOf(p) \X (0..(columns - 1)) \X {"in", "out"} |->
                Cardinality(DrawnIn(p, at[1], at[3], columns, at[2]))]
  BY DEF PeerRaster, KindsOf, RowsOf, Going, ColumnOf, DrawnIn
<1> HIDE DEF cell
<1>2. <<k, c, d>> \in KindsOf(p) \X (0..(columns - 1)) \X {"in", "out"}
  OBVIOUS
<1>3. cell[<<k, c, d>>] = Cardinality(DrawnIn(p, k, d, columns, c))
  BY <1>1, <1>2
<1> QED BY <1>3 DEF cell

(* A timestamp is in some column, whatever the span. *)
LEMMA ColumnInRange ==
  ASSUME NEW timestamp \in Nat, NEW start \in Nat, NEW span \in Nat, span > 0,
         NEW columns \in Nat, columns > 0
  PROVE  Column(timestamp, start, span, columns) \in 0 .. columns - 1
<1> DEFINE since == Larger(0, timestamp - start)
           scaled == since * columns
           at == scaled \div span
<1>1. since \in Nat
  BY DEF Larger
<1> HIDE DEF since
<1>2. scaled \in Nat
  BY <1>1
<1> HIDE DEF scaled
<1>3. at \in Nat
  BY <1>2
<1> HIDE DEF at
<1>4. Column(timestamp, start, span, columns) = Smaller(columns - 1, at)
  BY DEF Column, at, scaled, since
<1> QED BY <1>3, <1>4 DEF Smaller

(* Summed over the columns, a row of cells is what was drawn in it. *)
LEMMA ColumnsAddUp ==
  ASSUME NEW columns \in Nat, NEW k, NEW d, NEW cell, NEW S, IsFiniteSet(S),
         NEW column, \A i \in S : column[i] \in 0 .. columns - 1,
         \A c \in 0 .. columns - 1 : cell[<<k, c, d>>] = Cardinality({i \in S : column[i] = c})
  PROVE  AcrossColumns(k, cell, columns, d) = Cardinality(S)
<1> DEFINE C == 0 .. columns - 1
           f == [c \in C |-> cell[<<k, c, d>>]]
<1>1. AcrossColumns(k, cell, columns, d) = SumFunctionOnSet(f, C)
  <2>1. AcrossColumns(k, cell, columns, d) = SumFunction(f)
    BY DEF AcrossColumns
  <2>2. DOMAIN f = C
    OBVIOUS
  <2> HIDE DEF f, C
  <2> QED BY <2>1, <2>2 DEF SumFunction
<1>2. IsFiniteSet(C)
  BY FS_Interval
<1>3. \A c \in C : f[c] = Cardinality({i \in S : column[i] = c})
  OBVIOUS
<1>4. \A i \in S : column[i] \in C
  OBVIOUS
<1> HIDE DEF C, f
<1>5. SumFunctionOnSet(f, C) = Cardinality(S)
  <2>1. Sorts(S, column, C, f)
    BY <1>2, <1>3, <1>4 DEF Sorts
  <2> QED BY <2>1, CountedByValue
<1> QED BY <1>1, <1>5

(***************************************************************************)
(* ... which are those of its messages that were retained: the index of a  *)
(* peer is in the table once.                                              *)
(***************************************************************************)
IndexInv ==
  \A j \in DOMAIN table.byIndex :
    table.byIndex[j] \in Known /\ PeerOf(table.byIndex[j]).index = j

LEMMA IndexStep ==
  ASSUME TableInv, IndexInv, NEW e \in archive, IngestEvent(e)
  PROVE  IndexInv'
<1> DEFINE id == KindId(Intern(kinds, KindOf(e)), KindOf(e))
           p == e.peer
           was == table.byIndex
           now == table'.byIndex
<1>1. e \in AllEvents
  BY LogGrows DEF TableInv
<1>2. table' = TableAfter(table, e, id)
  BY DEF IngestEvent
<1> HIDE DEF id
<1>3. IsTable(table) /\ was \in Seq(AllPeers)
  BY DEF TableInv, PeersInv
<1>4. IF HasPeer(e) THEN HasEntry(table, p, table')
      ELSE /\ now = was /\ DOMAIN table'.peers = DOMAIN table.peers
           /\ \A q \in DOMAIN table.peers : table'.peers[q].index = table.peers[q].index
  BY <1>1, <1>2, <1>3, TableEntered
<1>5. \A j \in DOMAIN was : was[j] \in DOMAIN table.peers /\ table.peers[was[j]].index = j
  BY DEF IndexInv, Known, PeerOf
<1>6. IndexInv' = \A j \in DOMAIN now : now[j] \in DOMAIN table'.peers /\ table'.peers[now[j]].index = j
  BY DEF IndexInv, Known, PeerOf
<1>7. CASE now = was
  <2>1. \A q \in DOMAIN table.peers : q \in DOMAIN table'.peers /\ table'.peers[q].index = table.peers[q].index
    BY <1>4 DEF HasEntry
  <2> QED BY <1>5, <1>6, <1>7, <2>1
<1>8. CASE now # was
  <2>1. /\ HasPeer(e) /\ p \notin DOMAIN table.peers
        /\ now = Append(was, p) /\ table'.peers[p].index = Len(was) + 1
        /\ DOMAIN table'.peers = DOMAIN table.peers \cup {p}
        /\ \A q \in DOMAIN table.peers : table'.peers[q].index = table.peers[q].index
    BY <1>4, <1>8 DEF HasEntry
  <2>2. p \in AllPeers
    BY <1>1 DEF AllPeers
  <2>3. /\ Len(was) \in Nat /\ DOMAIN was = 1 .. Len(was) /\ DOMAIN now = 1 .. Len(was) + 1
        /\ now[Len(was) + 1] = p /\ \A j \in 1 .. Len(was) : now[j] = was[j]
    BY <1>3, <2>1, <2>2, AppendProperties, LenProperties
  <2> HIDE DEF p, was, now
  <2>4. ASSUME NEW j \in DOMAIN now
        PROVE  now[j] \in DOMAIN table'.peers /\ table'.peers[now[j]].index = j
    <3>1. CASE j = Len(was) + 1
      BY <2>1, <2>3, <3>1
    <3>2. CASE j # Len(was) + 1
      <4>1. j \in DOMAIN was /\ now[j] = was[j]
        BY <2>3, <3>2
      <4> QED BY <1>5, <2>1, <4>1
    <3> QED BY <3>1, <3>2
  <2> QED BY <1>6, <2>4
<1> QED BY <1>7, <1>8

LEMMA RowsOfPeer ==
  ASSUME PeersInv, RowsInv, IndexInv, NEW p \in Known
  PROVE  RowsOf(p) = {i \in DOMAIN store.rows : log[i].class = "message" /\ log[i].peer = p}
<1>1. ASSUME NEW i \in DOMAIN store.rows
      PROVE  i \in RowsOf(p) <=> log[i].class = "message" /\ log[i].peer = p
  <2> DEFINE row == store.rows[i]
             index == PeerOf(p).index
  <2>1. RowMeans(row, log[i], kinds, table.byIndex)
    BY DEF RowsInv
  <2>2. i \in RowsOf(p) <=> row.direction # "none" /\ row.peer = index
    BY DEF RowsOf, Directed
  <2>3. row.direction # "none" <=> log[i].class = "message"
    BY <2>1 DEF RowMeans, DirectionOf
  <2>4. log[i].class = "message" => row.peer \in DOMAIN table.byIndex /\ table.byIndex[row.peer] = log[i].peer
    BY <2>1 DEF RowMeans, HasPeer
  <2>5. index \in DOMAIN table.byIndex /\ table.byIndex[index] = p
    <3>1. DOMAIN table.byIndex = 1 .. Len(table.byIndex)
      BY LenProperties DEF PeersInv
    <3> QED BY <3>1 DEF PeersInv, IndexFits, Known, PeerOf
  <2>6. row.peer \in DOMAIN table.byIndex => PeerOf(table.byIndex[row.peer]).index = row.peer
    BY DEF IndexInv
  <2> HIDE DEF row
  <2> QED BY <2>2, <2>3, <2>4, <2>5, <2>6
<1>2. RowsOf(p) \subseteq DOMAIN store.rows
  BY DEF RowsOf, Directed
<1> QED BY <1>1, <1>2

(* Of a kind, the ones each way. *)
LEMMA GoingOfPeer ==
  ASSUME PeersInv, RowsInv, IndexInv, NEW p \in Known, NEW k
  PROVE  /\ Going(p, k, "in") = {i \in RowsOf(p) : store.rows[i].kind = k /\ log[i].inbound}
         /\ Going(p, k, "out") = {i \in RowsOf(p) : store.rows[i].kind = k /\ ~log[i].inbound}
<1>1. \A i \in RowsOf(p) : store.rows[i].direction = IF log[i].inbound THEN "in" ELSE "out"
  <2> TAKE i \in RowsOf(p)
  <2>1. i \in DOMAIN store.rows /\ log[i].class = "message"
    BY RowsOfPeer
  <2>2. RowMeans(store.rows[i], log[i], kinds, table.byIndex)
    BY <2>1 DEF RowsInv
  <2> QED BY <2>1, <2>2 DEF RowMeans, DirectionOf
<1> QED BY <1>1 DEF Going

(* When a retained message was sent, and where it is drawn. *)
LEMMA RowDrawn ==
  ASSUME TableInv, SeenInv, IndexInv, NEW p \in Known, NEW columns \in Nat, columns > 0
  PROVE  /\ IsFiniteSet(RowsOf(p))
         /\ \A i \in RowsOf(p) : ColumnOf(p, i, columns) \in 0 .. columns - 1
<1>1. LogInv /\ PeersInv /\ RowsInv
  BY DEF TableInv
<1>2. RowsOf(p) \in SUBSET DOMAIN store.rows
  BY <1>1, RowsOfPeer
<1>3. Len(store.rows) \in Nat /\ DOMAIN store.rows = 1 .. Len(store.rows)
  BY <1>1, LenProperties DEF RowsInv
<1>4. IsFiniteSet(RowsOf(p))
  <2>1. IsFiniteSet(DOMAIN store.rows)
    BY <1>3, FS_Interval
  <2> QED BY <1>2, <2>1, FS_Subset
<1>5. ASSUME NEW i \in RowsOf(p)
      PROVE  ColumnOf(p, i, columns) \in 0 .. columns - 1
  <2> DEFINE first == PeerOf(p).firstSeen
             span == Larger(1, Duration(PeerOf(p)))
             timestamp == store.rows[i].timestamp
  <2>1. timestamp \in Nat
    <3>1. i \in DOMAIN store.rows /\ store.rows \in Seq(Rows)
      BY <1>1, <1>2 DEF RowsInv
    <3>2. store.rows[i] \in Rows
      BY <1>3, <3>1, ElementOfSeq
    <3> QED BY <3>2 DEF Rows
  <2>2. first \in Nat /\ PeerOf(p).lastSeen \in Nat
    BY DEF SeenInv, SeenFits, SpanFits, Known, PeerOf
  <2>3. span \in Nat /\ span > 0
    BY <2>2 DEF Larger, Duration
  <2>4. ColumnOf(p, i, columns) = Column(timestamp, first, span, columns)
    BY DEF ColumnOf
  <2> HIDE DEF first, span, timestamp
  <2> QED BY <2>1, <2>2, <2>3, <2>4, ColumnInRange
<1> QED BY <1>4, <1>5

(* Summed over the columns, the cells of a peer's raster are its rows. *)
LEMMA CellsAddUp ==
  ASSUME TableInv, SeenInv, IndexInv, NEW p \in Known, NEW columns \in Nat, columns > 0, NEW room,
         NEW k \in KindsOf(p), NEW d \in {"in", "out"}
  PROVE  AcrossColumns(k, PeerRaster(p, columns, room).cell, columns, d) = Cardinality(Going(p, k, d))
<1> DEFINE S == Going(p, k, d)
           column == [i \in S |-> ColumnOf(p, i, columns)]
           cell == PeerRaster(p, columns, room).cell
<1>1. IsFiniteSet(RowsOf(p)) /\ \A i \in RowsOf(p) : ColumnOf(p, i, columns) \in 0 .. columns - 1
  BY RowDrawn
<1>2. S \in SUBSET RowsOf(p)
  BY DEF Going
<1>3. IsFiniteSet(S)
  BY <1>1, <1>2, FS_Subset
<1>4. \A c \in 0 .. columns - 1 : cell[<<k, c, d>>] = Cardinality({i \in S : column[i] = c})
  <2> TAKE c \in 0 .. columns - 1
  <2>1. cell[<<k, c, d>>] = Cardinality(DrawnIn(p, k, d, columns, c))
    BY PeerCellIs
  <2>2. DrawnIn(p, k, d, columns, c) = {i \in S : column[i] = c}
    BY DEF DrawnIn
  <2> HIDE DEF S, column, cell
  <2> QED BY <2>1, <2>2
<1>5. \A i \in S : column[i] \in 0 .. columns - 1
  BY <1>1, <1>2
<1> HIDE DEF S, column, cell
<1>6. AcrossColumns(k, cell, columns, d) = Cardinality(S)
  BY <1>3, <1>4, <1>5, ColumnsAddUp
<1> QED BY <1>6 DEF S, cell

(* With every event retained, the rows of a kind are what was counted of it. *)
LEMMA RowsAreTheTally ==
  ASSUME TableInv, CommandsInv, IndexInv, ~store.full, NEW p \in Known
  PROVE  /\ KindsOf(p) = DOMAIN PeerOf(p).commands
         /\ \A k \in KindsOf(p) :
              /\ Cardinality(Going(p, k, "in")) = PeerOf(p).commands[k].inbound.count
              /\ Cardinality(Going(p, k, "out")) = PeerOf(p).commands[k].outbound.count
<1> DEFINE commands == PeerOf(p).commands
           mine(k) == Sent(Of(p), log, kinds[k])
<1>1. LogInv /\ KindsInv /\ PeersInv /\ RowsInv
  BY DEF TableInv
<1>2. DOMAIN store.rows = DOMAIN log
  <2>1. Len(store.rows) = Len(log)
    BY <1>1 DEF RowsInv
  <2> QED BY <1>1, <2>1, LenProperties DEF RowsInv, LogInv
<1>3. RowsOf(p) = {i \in Of(p) : log[i].class = "message"}
  <2>1. RowsOf(p) = {i \in DOMAIN store.rows : log[i].class = "message" /\ log[i].peer = p}
    BY <1>1, RowsOfPeer
  <2> QED BY <1>2, <2>1 DEF Of, HasPeer
<1>4. \A i \in RowsOf(p) : store.rows[i].kind \in DOMAIN kinds /\ kinds[store.rows[i].kind] = KindOf(log[i])
  BY <1>1, <1>2, <1>3 DEF RowsInv, RowMeans, Of
<1>5. \A j, k \in DOMAIN kinds : kinds[j] = kinds[k] => j = k
  BY <1>1 DEF KindsInv
<1>6. CommandsFit(commands, Of(p), log, kinds)
  BY DEF CommandsInv, Known, PeerOf
<1>7. \A k \in DOMAIN kinds : mine(k) = {i \in RowsOf(p) : store.rows[i].kind = k}
  BY <1>3, <1>4, <1>5 DEF Sent
<1>8. KindsOf(p) \subseteq DOMAIN kinds
  BY <1>4 DEF KindsOf
<1>9. \A k \in DOMAIN kinds : k \in KindsOf(p) <=> mine(k) # {}
  BY <1>7 DEF KindsOf
<1> HIDE DEF commands, mine
<1>10. KindsOf(p) = DOMAIN commands
  BY <1>6, <1>8, <1>9 DEF CommandsFit, mine
<1>11. ASSUME NEW k \in KindsOf(p)
       PROVE  /\ Cardinality(Going(p, k, "in")) = commands[k].inbound.count
              /\ Cardinality(Going(p, k, "out")) = commands[k].outbound.count
  <2>1. MessagesFit(commands[k], mine(k), log)
    BY <1>6, <1>10 DEF CommandsFit, mine
  <2>2. \A i \in mine(k) : log[i].class = "message" /\ log[i].inbound \in BOOLEAN
    <3>1. \A i \in mine(k) : i \in DOMAIN log /\ log[i].class = "message"
      BY DEF mine, Sent, Of
    <3>2. \A i \in DOMAIN log : log[i] \in AllEvents
      BY <1>1, LenProperties, ElementOfSeq DEF LogInv
    <3> QED BY <3>1, <3>2, EventIs
  <2>3. mine(k) = {i \in RowsOf(p) : store.rows[i].kind = k}
    BY <1>7, <1>8
  <2>4. /\ Going(p, k, "in") = {i \in RowsOf(p) : store.rows[i].kind = k /\ log[i].inbound}
        /\ Going(p, k, "out") = {i \in RowsOf(p) : store.rows[i].kind = k /\ ~log[i].inbound}
    BY <1>1, GoingOfPeer
  <2>5. Going(p, k, "in") = MessagesIn(mine(k), log, TRUE)
    BY <2>2, <2>3, <2>4 DEF MessagesIn
  <2>6. Going(p, k, "out") = MessagesIn(mine(k), log, FALSE)
    BY <2>2, <2>3, <2>4 DEF MessagesIn
  <2> QED BY <2>1, <2>5, <2>6 DEF MessagesFit
<1> QED BY <1>10, <1>11 DEF commands

LEMMA RasterHolds ==
  ASSUME TableInv, SeenInv, CommandsInv, IndexInv, NEW p \in Known, NEW columns \in Nat, columns > 0
  PROVE  RasterIsWhole(p, columns)
<1> DEFINE raster == PeerRaster(p, columns, 2)
           in(k) == AcrossColumns(k, raster.cell, columns, "in")
           out(k) == AcrossColumns(k, raster.cell, columns, "out")
<1>1. /\ raster.totals = [k \in KindsOf(p) |-> [inbound |-> Cardinality(Going(p, k, "in")),
                                                outbound |-> Cardinality(Going(p, k, "out"))]]
      /\ raster.partial = store.full
  BY PeerRasterIs
<1>2. \A k \in KindsOf(p) : in(k) = Cardinality(Going(p, k, "in")) /\ out(k) = Cardinality(Going(p, k, "out"))
  BY CellsAddUp
<1> HIDE DEF raster, in, out
<1>3. DOMAIN raster.totals = KindsOf(p)
  BY <1>1
<1>4. \A k \in KindsOf(p) : /\ raster.totals[k].inbound = Cardinality(Going(p, k, "in"))
                            /\ raster.totals[k].outbound = Cardinality(Going(p, k, "out"))
  BY <1>1
<1>5. \A k \in DOMAIN raster.totals : in(k) = raster.totals[k].inbound /\ out(k) = raster.totals[k].outbound
  BY <1>2, <1>3, <1>4
<1>6. ASSUME ~raster.partial
      PROVE  /\ DOMAIN raster.totals = DOMAIN PeerOf(p).commands
             /\ \A k \in DOMAIN raster.totals :
                  /\ in(k) = PeerOf(p).commands[k].inbound.count
                  /\ out(k) = PeerOf(p).commands[k].outbound.count
  <2>1. ~store.full
    BY <1>1, <1>6
  <2> QED BY <1>2, <1>3, <2>1, RowsAreTheTally
<1> QED BY <1>5, <1>6 DEF RasterIsWhole, raster, in, out

(* In the window, a message is in one cell of the activity; outside, in none. *)
LEMMA ActivityHolds ==
  ASSUME TableInv, SeenInv, IndexInv, NEW columns \in Nat, columns > 0,
         NEW from \in Nat, NEW to \in Nat, from < to
  PROVE  ActivityIsWhole(from, to, columns)
<1> DEFINE cell == ActivityOf(from, to, columns, 0).cell
           shown == {p \in Known : /\ Duration(PeerOf(p)) >= 0
                                   /\ PeerOf(p).lastSeen >= from /\ PeerOf(p).firstSeen <= to}
           drawn == {i \in Directed : from <= store.rows[i].timestamp /\ store.rows[i].timestamp <= to}
           places == shown \X (0..(columns - 1)) \X {"in", "out"}
           column(i) == Column(store.rows[i].timestamp, from, to - from, columns)
           at(i) == <<log[i].peer, column(i), store.rows[i].direction>>
<1>1. cell = [c \in places |->
                {i \in drawn : /\ store.rows[i].peer = PeerOf(c[1]).index
                               /\ store.rows[i].direction = c[3] /\ column(i) = c[2]}]
  BY DEF ActivityOf
<1>2. LogInv /\ PeersInv /\ RowsInv
  BY DEF TableInv
<1>3. ASSUME NEW i \in Directed
      PROVE  /\ store.rows[i].timestamp = log[i].timestamp /\ log[i].timestamp \in Nat
             /\ i \in Of(log[i].peer) /\ log[i].peer \in Known
             /\ store.rows[i].direction \in {"in", "out"}
             /\ \A p \in Known : store.rows[i].peer = PeerOf(p).index <=> p = log[i].peer
  <2> DEFINE row == store.rows[i]
             e == log[i]
  <2>1. /\ i \in DOMAIN store.rows /\ row.direction # "none"
        /\ RowMeans(row, e, kinds, table.byIndex)
    BY <1>2 DEF Directed, RowsInv
  <2>2. i \in DOMAIN log
    BY <1>2, <2>1, LenProperties DEF RowsInv, LogInv
  <2>3. e \in AllEvents
    BY <1>2, <2>2, LenProperties, ElementOfSeq DEF LogInv
  <2>4. e.class = "message" /\ e.timestamp \in Nat /\ e.inbound \in BOOLEAN
    BY <2>1, <2>3, EventIs DEF RowMeans, DirectionOf
  <2>5. row.direction \in {"in", "out"} /\ row.timestamp = e.timestamp
    BY <2>1, <2>4 DEF RowMeans, DirectionOf
  <2>6. i \in Of(e.peer) /\ e.peer \in Known
    BY <1>2, <2>2, <2>4 DEF Of, HasPeer, PeersInv, Known
  <2>7. row.peer \in DOMAIN table.byIndex /\ table.byIndex[row.peer] = e.peer
    BY <2>1, <2>4 DEF RowMeans, HasPeer
  <2>8. \A p \in Known : row.peer = PeerOf(p).index <=> p = e.peer
    <3> TAKE p \in Known
    <3>1. table.byIndex[PeerOf(p).index] = p
      BY <1>2 DEF PeersInv, IndexFits, Known, PeerOf
    <3>2. row.peer = PeerOf(p).index => p = e.peer
      BY <2>7, <3>1
    <3>3. row.peer = PeerOf(e.peer).index
      BY <2>7 DEF IndexInv
    <3> QED BY <3>2, <3>3
  <2> QED BY <2>4, <2>5, <2>6, <2>8
<1>4. ASSUME NEW i \in Directed, from <= log[i].timestamp, log[i].timestamp <= to
      PROVE  {c \in DOMAIN cell : i \in cell[c]} = {at(i)}
  <2>1. i \in drawn
    BY <1>3, <1>4
  <2>2. log[i].peer \in shown
    <3> DEFINE peer == PeerOf(log[i].peer)
    <3>1. SpanFits(peer.firstSeen, peer.lastSeen, Of(log[i].peer), log)
      BY <1>3 DEF SeenInv, SeenFits, Known, PeerOf
    <3>2. /\ peer.firstSeen \in Nat /\ peer.lastSeen \in Nat /\ log[i].timestamp \in Nat
          /\ peer.firstSeen <= log[i].timestamp /\ log[i].timestamp <= peer.lastSeen
      BY <1>3, <3>1 DEF SpanFits
    <3> HIDE DEF peer
    <3>3. peer.lastSeen - peer.firstSeen >= 0 /\ peer.lastSeen >= from /\ peer.firstSeen <= to
      BY <1>4, <3>2
    <3> QED BY <1>3, <3>3 DEF peer, Duration
  <2>3. column(i) \in 0 .. columns - 1
    <3> DEFINE span == to - from
    <3>1. span \in Nat /\ span > 0
      OBVIOUS
    <3>2. store.rows[i].timestamp \in Nat
      BY <1>3
    <3> HIDE DEF span
    <3>3. Column(store.rows[i].timestamp, from, span, columns) \in 0 .. columns - 1
      BY <3>1, <3>2, ColumnInRange
    <3> QED BY <3>3 DEF span
  <2>4. at(i) \in places
    BY <1>3, <2>2, <2>3
  <2>5. \A p \in shown : p \in Known
    OBVIOUS
  <2> HIDE DEF cell, shown, drawn, column
  <2>6. i \in cell[at(i)]
    BY <1>1, <1>3, <2>1, <2>4
  <2>7. ASSUME NEW c \in places, i \in cell[c]
        PROVE  c = at(i)
    <3>1. store.rows[i].peer = PeerOf(c[1]).index /\ store.rows[i].direction = c[3] /\ column(i) = c[2]
      BY <1>1, <2>7
    <3>2. c[1] = log[i].peer
      BY <1>3, <2>5, <3>1
    <3>3. c = <<c[1], c[2], c[3]>>
      OBVIOUS
    <3> QED BY <3>1, <3>2, <3>3
  <2>8. DOMAIN cell = places
    BY <1>1
  <2> HIDE DEF places, at
  <2> QED BY <2>4, <2>6, <2>7, <2>8
<1>5. ASSUME NEW i \in Directed, ~(from <= log[i].timestamp /\ log[i].timestamp <= to)
      PROVE  {c \in DOMAIN cell : i \in cell[c]} = {}
  <2>1. i \notin drawn
    BY <1>3, <1>5
  <2> HIDE DEF cell, shown, drawn, column, places
  <2> QED BY <1>1, <2>1
<1>6. ASSUME NEW i \in Directed
      PROVE  Cardinality({c \in DOMAIN cell : i \in cell[c]}) =
               IF from <= log[i].timestamp /\ log[i].timestamp <= to THEN 1 ELSE 0
  <2>1. \A x : Cardinality({x}) = 1
    BY FS_Singleton
  <2> DEFINE here == {c \in DOMAIN cell : i \in cell[c]}
  <2>2. CASE from <= log[i].timestamp /\ log[i].timestamp <= to
    <3>1. here = {at(i)}
      BY <1>4, <2>2
    <3> HIDE DEF here, at
    <3>2. Cardinality(here) = 1
      BY <2>1, <3>1
    <3> QED BY <2>2, <3>2 DEF here
  <2>3. CASE ~(from <= log[i].timestamp /\ log[i].timestamp <= to)
    <3>1. here = {}
      BY <1>5, <2>3
    <3> HIDE DEF here
    <3>2. Cardinality(here) = 0
      BY <3>1, FS_EmptySet
    <3> QED BY <2>3, <3>2 DEF here
  <2> QED BY <2>2, <2>3
<1> HIDE DEF cell
<1> QED BY <1>6 DEF ActivityIsWhole, cell

(***************************************************************************)
(* The two rasters and the peer table agree (view.rs, peer_raster and      *)
(* peer_activity; peers.rs, count), in every session of every archive:     *)
(* a retained message is in one cell of its peer's row, those at the edges *)
(* too, and when all are retained a peer's rows are its tallies.           *)
(***************************************************************************)
THEOREM RastersAreWhole == Spec => []RastersAgree
<1>1. Init => SeenInv /\ CommandsInv /\ IndexInv
  <2> SUFFICES ASSUME Init PROVE SeenInv /\ CommandsInv /\ IndexInv
    OBVIOUS
  <2>1. DOMAIN table.peers = {} /\ DOMAIN table.byIndex = {}
    BY DEF Init, NewTable
  <2> QED BY <2>1 DEF SeenInv, CommandsInv, IndexInv
<1>2. TableInv /\ SeenInv /\ CommandsInv /\ IndexInv /\ [Next]_vars => SeenInv' /\ CommandsInv' /\ IndexInv'
  <2> SUFFICES ASSUME TableInv, SeenInv, CommandsInv, IndexInv, [Next]_vars
               PROVE  SeenInv' /\ CommandsInv' /\ IndexInv'
    OBVIOUS
  <2>1. CASE UNCHANGED vars
    <3>1. table' = table /\ log' = log /\ kinds' = kinds
      BY <2>1 DEF vars
    <3>2. \A p : Of(p)' = Of(p)
      BY <3>1 DEF Of
    <3>3. SeenInv'
      BY <3>1, <3>2 DEF SeenInv
    <3>4. CommandsInv'
      BY <3>1, <3>2 DEF CommandsInv
    <3>5. IndexInv'
      BY <3>1 DEF IndexInv, Known, PeerOf
    <3> QED BY <3>3, <3>4, <3>5
  <2>2. ASSUME NEW e \in archive, IngestEvent(e) PROVE SeenInv' /\ CommandsInv' /\ IndexInv'
    BY <2>2, SeenStep, CommandsStep, IndexStep
  <2> QED BY <2>1, <2>2 DEF Next
<1>3. ASSUME TableInv, SeenInv, CommandsInv, IndexInv PROVE RastersAgree
  <2>1. ASSUME NEW columns \in 1 .. 3
        PROVE  /\ \A p \in Known : RasterIsWhole(p, columns)
               /\ \A from, to \in {log[i].timestamp : i \in DOMAIN log} :
                    from < to => ActivityIsWhole(from, to, columns)
    <3>1. columns \in Nat /\ columns > 0
      OBVIOUS
    <3>2. \A p \in Known : RasterIsWhole(p, columns)
      BY <1>3, <3>1, RasterHolds
    <3>3. \A i \in DOMAIN log : log[i].timestamp \in Nat
      <4>1. \A i \in DOMAIN log : log[i] \in AllEvents
        BY <1>3, LenProperties, ElementOfSeq DEF TableInv, LogInv
      <4> QED BY <4>1, EventIs
    <3>4. \A from, to \in Nat : from < to => ActivityIsWhole(from, to, columns)
      BY <1>3, <3>1, ActivityHolds
    <3> QED BY <3>2, <3>3, <3>4
  <2> QED BY <2>1 DEF RastersAgree
<1> QED BY <1>1, <1>2, <1>3, TablesHoldTogether, PTL DEF Spec

=============================================================================

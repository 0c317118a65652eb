-------------------------------- MODULE Relay --------------------------------
(***************************************************************************)
(* Who announced each transaction first, and what the duplicates cost      *)
(* (crates/core/src/relay.rs, Relay), as operators on one record: the      *)
(* ingest step applies them with the peer table's.                         *)
(*                                                                         *)
(* The 16-bit counters of an item saturate in the code; only whether they  *)
(* are zero is ever read, so they count freely here.                       *)
(*                                                                         *)
(* A definition named X_Y is X with the mistake Y in it.                   *)
(***************************************************************************)
EXTENDS Latencies, Payload, SequencesExt

CONSTANTS
  MaxItems,   \* MAX_ITEMS
  MaxOffset   \* u32::MAX, the last offset from the origin that is told apart

ASSUME RelayAssumption == {MaxItems, MaxOffset} \subseteq Nat

NoOrigin == -1

NoRelay == [first |-> 0, late |-> 0, lag |-> NoSamples, delivered |-> 0, duplicate |-> 0,
            duplicateBytes |-> 0, heardToHeld |-> NoSamples]

NewRelay ==
  [items |-> <<>>, origin |-> NoOrigin, peers |-> <<>>, announcements |-> 0,
   deliveries |-> 0, duplicateDeliveries |-> 0, deliveredBytes |-> 0,
   duplicateBytes |-> 0, lateAnnouncements |-> 0, untracked |-> 0,
   lag |-> NoSamples, heardToHeld |-> NoSamples]

(***************************************************************************)
(* offset: the first call, whoever makes it, sets the origin.              *)
(***************************************************************************)
Anchored(r, timestamp) == IF r.origin = NoOrigin THEN [r EXCEPT !.origin = timestamp] ELSE r

Offset(r, timestamp) == Smaller(MaxOffset, Larger(0, timestamp - r.origin))

Lag(now, entry) == Larger(0, now - entry.first)

PeerRelay(r, p) == IF p \in DOMAIN r.peers THEN r.peers[p] ELSE NoRelay
WithPeer(r, p, record) == [r EXCEPT !.peers = With(@, p, record)]
WithItem(r, hash, entry) == [r EXCEPT !.items = With(@, hash, entry)]

IsFull(r) == Cardinality(DOMAIN r.items) >= MaxItems
Untrack(r) == [r EXCEPT !.untracked = @ + 1]

-----------------------------------------------------------------------------
(***************************************************************************)
(* announce, for one item of the inventory.                                *)
(***************************************************************************)
LateAnnouncement_LagForAll(r, p, hash, now) ==
  LET lag == Lag(now, r.items[hash])
      peer == PeerRelay(r, p)
      counted == [r EXCEPT !.items[hash].announcements = @ + 1,
                           !.lateAnnouncements = @ + 1, !.lag = Add(@, lag)]
  IN WithPeer(counted, p, [peer EXCEPT !.late = @ + 1,
                             !.lag = IF lag = 0 THEN @ ELSE Add(@, lag)])
LateAnnouncement(r, p, hash, now) ==
  LET lag == Lag(now, r.items[hash])
      peer == PeerRelay(r, p)
      counted == [r EXCEPT !.items[hash].announcements = @ + 1,
                           !.lateAnnouncements = @ + 1, !.lag = Add(@, lag)]
  IN WithPeer(counted, p, [peer EXCEPT !.late = @ + 1, !.lag = Add(@, lag)])

FirstAnnouncement(r, p, hash, now) ==
  WithPeer(WithItem(r, hash, [first |-> now, announcements |-> 1, deliveries |-> 0]),
           p, [PeerRelay(r, p) EXCEPT !.first = @ + 1])

AnnounceItem(r, p, now, hash) ==
  LET counted == [r EXCEPT !.announcements = @ + 1]
  IN IF hash = NoHash THEN r
     ELSE IF hash \in DOMAIN r.items THEN LateAnnouncement(counted, p, hash, now)
     ELSE IF IsFull(r) THEN Untrack(counted)
     ELSE FirstAnnouncement(counted, p, hash, now)

Announce(r, timestamp, p, items) ==
  LET anchored == Anchored(r, timestamp)
      now == Offset(anchored, timestamp)
  IN FoldLeft(LAMBDA s, item : AnnounceItem(s, p, now, TransactionHash(item)), anchored, items)

-----------------------------------------------------------------------------
(***************************************************************************)
(* deliver.  The entry is looked up under the txid, then the wtxid; a new  *)
(* one is kept under the txid.                                             *)
(***************************************************************************)
DeliveryKey_TxidOnly(r, txid, wtxid) == txid
DeliveryKey(r, txid, wtxid) ==
  IF txid \notin DOMAIN r.items /\ wtxid \in DOMAIN r.items THEN wtxid ELSE txid

KnownDelivery(r, p, key, now, size) ==
  LET entry == r.items[key]
      already == entry.deliveries > 0
      timed == ~already /\ entry.announcements > 0
      wait == Lag(now, entry)
      peer == [PeerRelay(r, p) EXCEPT !.delivered = @ + 1]
      counted == [r EXCEPT !.items[key].deliveries = @ + 1]
  IN IF already
     THEN WithPeer([counted EXCEPT !.duplicateDeliveries = @ + 1, !.duplicateBytes = @ + size],
                   p, [peer EXCEPT !.duplicate = @ + 1, !.duplicateBytes = @ + size])
     ELSE IF timed
     THEN WithPeer([counted EXCEPT !.heardToHeld = Add(@, wait)],
                   p, [peer EXCEPT !.heardToHeld = Add(@, wait)])
     ELSE WithPeer(counted, p, peer)

UnannouncedDelivery(r, p, key, now) ==
  WithPeer(WithItem(r, key, [first |-> now, announcements |-> 0, deliveries |-> 1]),
           p, [PeerRelay(r, p) EXCEPT !.delivered = @ + 1])

Deliver(r, timestamp, p, txid, wtxid, size) ==
  LET counted == [Anchored(r, timestamp) EXCEPT !.deliveries = @ + 1, !.deliveredBytes = @ + size]
      now == Offset(counted, timestamp)
      key == DeliveryKey(r, txid, wtxid)
  IN IF txid = NoHash THEN r
     ELSE IF key \in DOMAIN r.items THEN KnownDelivery(counted, p, key, now, size)
     ELSE IF IsFull(r) THEN Untrack(counted)
     ELSE UnannouncedDelivery(counted, p, key, now)

(***************************************************************************)
(* record: only what peers send says anything about relay.                 *)
(***************************************************************************)
RecordRelay(r, e) ==
  IF ~e.inbound THEN r
  ELSE IF e.message.command = "inv" THEN Announce(r, e.timestamp, e.peer, e.message.items)
  ELSE IF e.message.command = "tx"
  THEN Deliver(r, e.timestamp, e.peer, e.message.ids[1], e.message.ids[2], e.size)
  ELSE r

-----------------------------------------------------------------------------
(***************************************************************************)
(* totals: every peer's record folded into one.                            *)
(***************************************************************************)
MergeRelay(x, y) ==
  [first |-> x.first + y.first, late |-> x.late + y.late, lag |-> Merge(x.lag, y.lag),
   delivered |-> x.delivered + y.delivered, duplicate |-> x.duplicate + y.duplicate,
   duplicateBytes |-> x.duplicateBytes + y.duplicateBytes,
   heardToHeld |-> Merge(x.heardToHeld, y.heardToHeld)]

Totals(r) == FoldSet(LAMBDA p, total : MergeRelay(total, r.peers[p]), NoRelay, DOMAIN r.peers)

=============================================================================

-------------------------- MODULE ExchangeTracker --------------------------
(***************************************************************************)
(* The streaming request/reply tracker (crates/core/src/exchange.rs,       *)
(* Tracker) and the tallies the session keeps from it                      *)
(* (crates/core/src/analysis.rs), over one archive fed file by file.       *)
(*                                                                         *)
(* A definition named X_Y is X with the mistake Y in it: the properties    *)
(* are checked to notice it.                                               *)
(***************************************************************************)
EXTENDS Integers, Sequences, FiniteSets, Functions

CONSTANTS
  Peers,       \* Bitcoin Core peer ids
  Table,       \* the exchanges followed: a sequence of rows of EXCHANGES
  Times,       \* the timestamps events may carry
  Messages,    \* the P2P messages an archive may hold
  Backstep,    \* how far behind the newest timestamp an event may lie
  MaxOpen,     \* MAX_OPEN
  SweepEvery,  \* SWEEP_EVERY
  MaxEvents    \* bound of the model: events in the whole archive

Exchanges == DOMAIN Table
Rows == [request : STRING, replies : SUBSET STRING, multi : BOOLEAN,
         optional : BOOLEAN, window : Nat]

ASSUME TableAssumption ==
  /\ Table \in Seq(Rows)
  /\ \A d, e \in Exchanges : Table[d].request = Table[e].request => d = e
ASSUME MessagesAssumption ==
  Messages \subseteq [peer : Peers, command : STRING, inbound : BOOLEAN, timestamp : Times]
ASSUME BoundsAssumption ==
  /\ Times \subseteq Nat
  /\ {Backstep, MaxOpen, MaxEvents} \subseteq Nat
  /\ SweepEvery \in Nat \ {0}

VARIABLES
  open,           \* Tracker.open: key of a request |-> Pending
  dropped,        \* Tracker.dropped
  exchanges,      \* Analysis.exchanges: an ExchangeStats per exchange
  latency,        \* samples in reply_latency (peers) and our_reply_latency (us)
  sinceSweep,     \* Analysis.since_sweep
  lastTimestamp,  \* Analysis.last_timestamp (0 for None: nothing is open then)
  totalEvents,    \* Analysis.total_events
  reading         \* Analysis.decoder.is_some()

vars == <<open, dropped, exchanges, latency, sinceSweep, lastTimestamp,
          totalEvents, reading>>

(***************************************************************************)
(* A request is keyed by its peer, its exchange and the way it went: both  *)
(* ends of a connection send version and ping.                             *)
(***************************************************************************)
Keys == [peer : Peers, exchange : Exchanges, inbound : BOOLEAN]
Pending == [position : Nat, timestamp : Times, replied : BOOLEAN]
Stats == [opened : Nat, answered : Nat, byPeers : Nat, byUs : Nat]

TypeOK ==
  /\ DOMAIN open \subseteq Keys
  /\ open \in [DOMAIN open -> Pending]
  /\ dropped \in Nat
  /\ exchanges \in [Exchanges -> Stats]
  /\ latency \in [Exchanges -> [peers : Nat, us : Nat]]
  /\ sinceSweep \in Nat
  /\ lastTimestamp \in Nat
  /\ totalEvents \in Nat
  /\ reading \in BOOLEAN

-----------------------------------------------------------------------------
(***************************************************************************)
(* Tracker::observe, first half: the reply.                                *)
(***************************************************************************)
Age(now, then) == IF now >= then THEN now - then ELSE 0

RequestKey_FromZero(m, e) == [peer |-> m.peer, exchange |-> e - 1, inbound |-> m.inbound]
RequestKey(m, e) == [peer |-> m.peer, exchange |-> e, inbound |-> m.inbound]
AnswerKey_SameDirection(m, e) == [peer |-> m.peer, exchange |-> e, inbound |-> m.inbound]
AnswerKey(m, e) == [peer |-> m.peer, exchange |-> e, inbound |-> ~m.inbound]

Candidates_BeforeWindow(m) ==
  {k \in DOMAIN open :
     /\ k = AnswerKey(m, k.exchange)
     /\ m.command \in Table[k.exchange].replies
     /\ Age(m.timestamp, open[k].timestamp) < Table[k.exchange].window}

(* The open requests that message m could answer. *)
Candidates(m) ==
  {k \in DOMAIN open :
     /\ k = AnswerKey(m, k.exchange)
     /\ m.command \in Table[k.exchange].replies
     /\ Age(m.timestamp, open[k].timestamp) <= Table[k.exchange].window}

(* The oldest of them, the first in the table among equally old ones. *)
Better(k, other) ==
  \/ open[k].timestamp < open[other].timestamp
  \/ open[k].timestamp = open[other].timestamp /\ k.exchange < other.exchange

Answered(m) == Candidates(m) # {}
AnsweredKey(m) ==
  CHOOSE k \in Candidates(m) : \A other \in Candidates(m) \ {k} : Better(k, other)

FirstReply_Every(m) == Answered(m)
FirstReply(m) ==
  Answered(m) /\ (Table[AnsweredKey(m).exchange].multi => ~open[AnsweredKey(m)].replied)

AfterReply(m) ==
  IF ~Answered(m) THEN open
  ELSE IF Table[AnsweredKey(m).exchange].multi
       THEN [open EXCEPT ![AnsweredKey(m)].replied = TRUE]
       ELSE Restrict(open, DOMAIN open \ {AnsweredKey(m)})

(***************************************************************************)
(* Tracker::observe, second half: the request.  The newest request of a    *)
(* key takes the place of the one before it.                               *)
(***************************************************************************)
Asks(m, e) == Table[e].request = m.command
IsRequest(m) == \E e \in Exchanges : Asks(m, e)
Registers(m) == IsRequest(m) /\ Cardinality(DOMAIN AfterReply(m)) < MaxOpen
Opened(m, e) == Registers(m) /\ Asks(m, e)
OpenedKey(m) == RequestKey(m, CHOOSE e \in Exchanges : Asks(m, e))

AfterObserve(m, position) ==
  IF ~Registers(m) THEN AfterReply(m)
  ELSE [k \in DOMAIN AfterReply(m) \cup {OpenedKey(m)} |->
          IF k = OpenedKey(m)
          THEN [position |-> position, timestamp |-> m.timestamp, replied |-> FALSE]
          ELSE AfterReply(m)[k]]

(* Displacement proves silence only where requests are not pipelined. *)
Judged(e) == ~Table[e].optional /\ ~Table[e].multi
Displaced_IfReplied(m) ==
  {k \in DOMAIN AfterReply(m) :
     Registers(m) /\ k = OpenedKey(m) /\ Judged(k.exchange) /\ AfterReply(m)[k].replied}

Displaced(m) ==
  {k \in DOMAIN AfterReply(m) :
     Registers(m) /\ k = OpenedKey(m) /\ Judged(k.exchange) /\ ~AfterReply(m)[k].replied}

(***************************************************************************)
(* Tracker::sweep and the tallies of sweep_exchanges and note_unanswered.  *)
(***************************************************************************)
Overdue(o, now) ==
  {k \in DOMAIN o : Age(now, o[k].timestamp) > Table[k.exchange].window}
TimedOut_Optional(o, now) == {k \in Overdue(o, now) : ~o[k].replied}
TimedOut(o, now) ==
  {k \in Overdue(o, now) : ~o[k].replied /\ ~Table[k.exchange].optional}

Swept_OnlyReported(o, now) == Restrict(o, DOMAIN o \ TimedOut(o, now))
Swept(o, now) == Restrict(o, DOMAIN o \ Overdue(o, now))

Blame(S, e, inbound) == Cardinality({k \in S : k.exchange = e /\ k.inbound = inbound})
NoteUnanswered(stats, S) ==
  [e \in Exchanges |-> [opened   |-> stats[e].opened,
                        answered |-> stats[e].answered,
                        byPeers  |-> stats[e].byPeers + Blame(S, e, FALSE),
                        byUs     |-> stats[e].byUs + Blame(S, e, TRUE)]]

-----------------------------------------------------------------------------
Init ==
  /\ open = [k \in {} |-> k]
  /\ dropped = 0
  /\ exchanges = [e \in Exchanges |-> [opened |-> 0, answered |-> 0, byPeers |-> 0, byUs |-> 0]]
  /\ latency = [e \in Exchanges |-> [peers |-> 0, us |-> 0]]
  /\ sinceSweep = 0
  /\ lastTimestamp = 0
  /\ totalEvents = 0
  /\ reading = FALSE

(* What ingest_event does for every event, before it looks at the payload. *)
CountEvent(timestamp) ==
  /\ reading
  /\ totalEvents < MaxEvents
  /\ timestamp + Backstep >= lastTimestamp
  /\ totalEvents' = totalEvents + 1
  /\ lastTimestamp' = IF timestamp > lastTimestamp THEN timestamp ELSE lastTimestamp
  /\ UNCHANGED reading

(* observe_exchange without the sweep at its end. *)
CountObserved(m) ==
  [e \in Exchanges |->
     [opened   |-> exchanges[e].opened + (IF Opened(m, e) THEN 1 ELSE 0),
      answered |-> exchanges[e].answered
                     + (IF FirstReply(m) /\ AnsweredKey(m).exchange = e THEN 1 ELSE 0),
      byPeers  |-> exchanges[e].byPeers,
      byUs     |-> exchanges[e].byUs]]

TimeReply_PeersOnly(m) ==
  latency' =
    [e \in Exchanges |->
       LET sample == IF Answered(m) /\ AnsweredKey(m).exchange = e THEN 1 ELSE 0 IN
       [peers |-> latency[e].peers + (IF m.inbound THEN sample ELSE 0),
        us    |-> latency[e].us]]

TimeReply(m) ==
  latency' =
    [e \in Exchanges |->
       LET sample == IF Answered(m) /\ AnsweredKey(m).exchange = e THEN 1 ELSE 0 IN
       [peers |-> latency[e].peers + (IF m.inbound THEN sample ELSE 0),
        us    |-> latency[e].us + (IF m.inbound THEN 0 ELSE sample)]]

Noted(m) == NoteUnanswered(CountObserved(m), Displaced(m))

(* One P2P message; every SweepEvery-th of them sweeps at its own timestamp. *)
Message(m, position) ==
  /\ CountEvent(m.timestamp)
  /\ dropped' = IF IsRequest(m) /\ ~Registers(m) THEN dropped + 1 ELSE dropped
  /\ TimeReply(m)
  /\ IF sinceSweep + 1 >= SweepEvery
     THEN /\ sinceSweep' = 0
          /\ open' = Swept(AfterObserve(m, position), m.timestamp)
          /\ exchanges' = NoteUnanswered(Noted(m), TimedOut(AfterObserve(m, position), m.timestamp))
     ELSE /\ sinceSweep' = sinceSweep + 1
          /\ open' = AfterObserve(m, position)
          /\ exchanges' = Noted(m)

(* An event of any other kind: it only moves the clock. *)
OtherEvent(timestamp) ==
  /\ CountEvent(timestamp)
  /\ UNCHANGED <<open, dropped, exchanges, latency, sinceSweep>>

(* begin_file ends the file before it, if one is still being read. *)
SweepAtEnd ==
  /\ open' = Swept(open, lastTimestamp)
  /\ exchanges' = NoteUnanswered(exchanges, TimedOut(open, lastTimestamp))

BeginFile ==
  /\ reading' = TRUE
  /\ IF reading THEN SweepAtEnd ELSE UNCHANGED <<open, exchanges>>
  /\ UNCHANGED <<dropped, latency, sinceSweep, lastTimestamp, totalEvents>>

(* end_file, whether the decoder finishes cleanly or not. *)
EndFile ==
  /\ reading
  /\ reading' = FALSE
  /\ SweepAtEnd
  /\ UNCHANGED <<dropped, latency, sinceSweep, lastTimestamp, totalEvents>>

(* push met bytes that cannot be framed: fail_current_file drops the decoder,
   and the end_file that follows finds none and returns at once. *)
FailFile ==
  /\ reading
  /\ reading' = FALSE
  /\ UNCHANGED <<open, dropped, exchanges, latency, sinceSweep, lastTimestamp, totalEvents>>

Next ==
  \/ \E m \in Messages : Message(m, 0)
  \/ \E t \in Times : OtherEvent(t)
  \/ BeginFile
  \/ EndFile
  \/ FailFile

Spec == Init /\ [][Next]_vars

-----------------------------------------------------------------------------
(***************************************************************************)
(* Properties.                                                             *)
(***************************************************************************)
Waiting(e) == {k \in DOMAIN open : k.exchange = e /\ ~open[k].replied}

(* ExchangeStats::undetermined subtracts with saturation.  The saturation is
   never reached: every request is counted at most once as answered or
   unanswered, and the ones still waiting are counted as neither. *)
EveryRequestSettledOnce ==
  \A e \in Exchanges :
    exchanges[e].opened >=
      exchanges[e].answered + exchanges[e].byPeers + exchanges[e].byUs
        + Cardinality(Waiting(e))

(* A single-reply exchange is timed once per request it answers; only an
   exchange of several replies may time one request more than once. *)
LatencySamplesMatchAnswers ==
  \A e \in Exchanges :
    LET samples == latency[e].peers + latency[e].us IN
      IF Table[e].multi THEN samples >= exchanges[e].answered
                        ELSE samples = exchanges[e].answered

=============================================================================

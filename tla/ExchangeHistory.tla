-------------------------- MODULE ExchangeHistory --------------------------
(***************************************************************************)
(* ExchangeTracker with the history it needs to be judged by: the messages *)
(* seen, and what the tracker reported about them (Answered, Unanswered).  *)
(* Requests are named by their position among the messages, the use        *)
(* Tracker::observe offers its position argument for.                      *)
(***************************************************************************)
EXTENDS ExchangeTracker

VARIABLES
  log,    \* the messages seen, in archive order
  asked,  \* positions of the requests the tracker took up
  pairs,  \* the Answered reported: request and reply positions
  silent  \* the Unanswered reported: request, when (time) and after how many messages

hvars == <<vars, log, asked, pairs, silent>>

Position == Len(log) + 1

HInit ==
  /\ Init
  /\ log = <<>>
  /\ asked = {}
  /\ pairs = {}
  /\ silent = {}

Reports(o, S, after, time) ==
  {[request |-> o[k].position, after |-> after, time |-> time] : k \in S}

HMessage(m) ==
  /\ Message(m, Position)
  /\ log' = Append(log, m)
  /\ asked' = IF Registers(m) THEN asked \cup {Position} ELSE asked
  /\ pairs' = IF Answered(m)
              THEN pairs \cup {[request |-> open[AnsweredKey(m)].position, reply |-> Position]}
              ELSE pairs
  /\ silent' =
       silent \cup Reports(AfterReply(m), Displaced(m), Position, m.timestamp)
              \cup (IF sinceSweep' = 0
                    THEN Reports(AfterObserve(m, Position),
                                 TimedOut(AfterObserve(m, Position), m.timestamp),
                                 Position, m.timestamp)
                    ELSE {})

(* BeginFile and EndFile report what their sweep retires. *)
HFile ==
  /\ BeginFile \/ EndFile \/ FailFile
  /\ silent' = IF open' = open THEN silent
               ELSE silent \cup Reports(open, TimedOut(open, lastTimestamp),
                                        Len(log), lastTimestamp)
  /\ UNCHANGED <<log, asked, pairs>>

HOtherEvent(t) == OtherEvent(t) /\ UNCHANGED <<log, asked, pairs, silent>>

HNext ==
  \/ \E m \in Messages : HMessage(m)
  \/ \E t \in Times : HOtherEvent(t)
  \/ HFile

HSpec == HInit /\ [][HNext]_hvars

-----------------------------------------------------------------------------
ExchangeOf(p) == CHOOSE e \in Exchanges : Asks(log[p], e)
KeyOf(p) == RequestKey(log[p], ExchangeOf(p))
SinceAsked(p, time) == Age(time, log[p].timestamp)
WindowOf(p) == Table[ExchangeOf(p)].window

IsAnswered(p) == \E pair \in pairs : pair.request = p
IsSilent(p) == \E report \in silent : report.request = p
IsOpen(p) == KeyOf(p) \in DOMAIN open /\ open[KeyOf(p)].position = p

(* Message j could be the reply to request p. *)
Answers(j, p) ==
  /\ j > p
  /\ log[j].peer = log[p].peer
  /\ log[j].inbound # log[p].inbound
  /\ log[j].command \in Table[ExchangeOf(p)].replies
  /\ SinceAsked(p, log[j].timestamp) <= WindowOf(p)

(* A reported silence is real: the request was given up on because its window
   had passed or because its sender repeated it, and until then every message
   that could have answered it was taken as the answer to another request,
   no younger than it. *)
SilenceIsProven ==
  \A report \in silent :
    LET p == report.request IN
      /\ \/ SinceAsked(p, report.time) > WindowOf(p)
         \/ /\ report.after \in asked
            /\ report.after > p
            /\ KeyOf(report.after) = KeyOf(p)
            /\ Judged(ExchangeOf(p))
      /\ \A j \in p + 1 .. report.after :
           Answers(j, p) =>
             \E pair \in pairs :
               /\ pair.reply = j
               /\ pair.request # p
               /\ log[pair.request].timestamp <= log[p].timestamp

(* A pairing is plausible: it links a request to a message that can answer it,
   no newer request of the same key stood between the two, and an exchange with
   one reply is answered by one message. *)
PairsArePlausible ==
  \A pair \in pairs :
    /\ pair.request \in asked
    /\ Answers(pair.reply, pair.request)
    /\ \A q \in asked :
         q > pair.request /\ q < pair.reply => KeyOf(q) # KeyOf(pair.request)
    /\ ~Table[ExchangeOf(pair.request)].multi =>
         \A other \in pairs : other.request = pair.request => other = pair

(* Once a file has ended with its sweep done, every request of a judged
   exchange whose window has passed and that nothing answered is reported. *)
EverySilenceIsReported ==
  ~reading /\ Overdue(open, lastTimestamp) = {} =>
    \A p \in asked :
      Judged(ExchangeOf(p)) /\ SinceAsked(p, lastTimestamp) > WindowOf(p)
        => IsAnswered(p) \/ IsSilent(p)

(* The periodic sweep bounds how long an overdue request lingers: fewer than
   SweepEvery messages in a row, each past its window. *)
OverdueIsSweptSoon ==
  \A k \in DOMAIN open :
    Len(log) >= SweepEvery =>
      \E j \in Len(log) - SweepEvery + 1 .. Len(log) :
        Age(log[j].timestamp, open[k].timestamp) <= Table[k.exchange].window

(***************************************************************************)
(* The tracker keeps the ledger's promise.                                 *)
(***************************************************************************)
Fate(p) ==
  CASE IsAnswered(p) -> "answered"
    [] ~IsAnswered(p) /\ IsSilent(p) -> "unanswered"
    [] ~IsAnswered(p) /\ ~IsSilent(p) /\ IsOpen(p) -> "waiting"
    [] OTHER -> "undetermined"

LedgerRequests ==
  [p \in asked |-> [exchange |-> ExchangeOf(p), inbound |-> log[p].inbound, fate |-> Fate(p)]]

Ledger == INSTANCE RequestLedger WITH
  Ids <- 1 .. MaxEvents,
  Optional <- {e \in Exchanges : Table[e].optional},
  requests <- LedgerRequests,
  tallies <- exchanges

(* Whatever is matched with what, every request taken up has one final fate
   and the tallies of the session are the counts of those fates. *)
KeepsLedger == Ledger!Spec

-----------------------------------------------------------------------------
(***************************************************************************)
(* What a comment of the code says, and the code does not do.              *)
(***************************************************************************)
(* exchange.rs: "the oldest unanswered request of a matching kind, on the same
   peer, in the opposite direction, inside a window". *)
OldestRequestIsPaired ==
  \A pair \in pairs, p \in asked :
    /\ KeyOf(p) = KeyOf(pair.request)
    /\ Answers(pair.reply, p)
    /\ ~IsAnswered(p)
    => pair.request <= p

=============================================================================

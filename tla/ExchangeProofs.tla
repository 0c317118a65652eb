--------------------------- MODULE ExchangeProofs ---------------------------
(***************************************************************************)
(* For every exchange table, set of peers, bound and archive: the tracker  *)
(* settles each request once; what it reports is true of the messages it   *)
(* saw, nothing it should report is lost, and the session's tallies are    *)
(* the ledger's.                                                           *)
(***************************************************************************)
EXTENDS ExchangeHistory, SequenceTheorems, FiniteSetTheorems, WellFoundedInduction, TLAPS

(* An open table as the tracker keeps it: finite, and with no single-reply
   request that has been replied to (its reply removed it). *)
WellFormed(o) ==
  /\ DOMAIN o \subseteq Keys
  /\ o \in [DOMAIN o -> Pending]
  /\ IsFiniteSet(DOMAIN o)
  /\ \A k \in DOMAIN o : o[k].replied => Table[k.exchange].multi

WaitingIn(o, e) == {k \in DOMAIN o : k.exchange = e /\ ~o[k].replied}
Settled(stats, o) ==
  \A e \in Exchanges :
    stats[e].opened >=
      stats[e].answered + stats[e].byPeers + stats[e].byUs + Cardinality(WaitingIn(o, e))
Within(S, e) == {k \in S : k.exchange = e}

IInv ==
  /\ TypeOK
  /\ WellFormed(open)
  /\ EveryRequestSettledOnce
  /\ LatencySamplesMatchAnswers

-----------------------------------------------------------------------------
(* The table's rows, and its indices, have the types the operators expect. *)
LEMMA TableRows ==
  /\ Exchanges \subseteq Nat
  /\ \A e \in Exchanges : Table[e] \in Rows
BY TableAssumption DEF Exchanges

(* Every nonempty set of natural numbers has a least element. *)
LEMMA LeastNat ==
  ASSUME NEW T \in SUBSET Nat, T # {}
  PROVE  \E x \in T : \A y \in T : x <= y
<1>1. PICK x \in T : \A y \in T : ~(<<y, x>> \in OpToRel(<, Nat))
  BY NatLessThanWellFounded, WFMin
<1>2. \A y \in T : ~(y < x)
  BY <1>1 DEF OpToRel
<1> QED BY <1>2

(* Among the open requests a message could answer there is a best one. *)
LEMMA AnsweredKeyIsBest ==
  ASSUME WellFormed(open), NEW m \in Messages, Answered(m)
  PROVE  /\ AnsweredKey(m) \in Candidates(m)
         /\ \A other \in Candidates(m) \ {AnsweredKey(m)} : Better(AnsweredKey(m), other)
<1> DEFINE C == Candidates(m)
           stamps == {open[k].timestamp : k \in C}
<1>1. /\ \A k \in C : k \in Keys /\ open[k].timestamp \in Nat /\ k.exchange \in Nat
      /\ \A k \in C : k = AnswerKey(m, k.exchange)
  BY TableRows, BoundsAssumption DEF Candidates, WellFormed, Keys, Pending
<1>2. PICK first \in stamps : \A t \in stamps : first <= t
  <2>1. stamps \in SUBSET Nat /\ stamps # {}
    BY <1>1 DEF Answered
  <2> QED BY <2>1, LeastNat
<1> DEFINE oldest == {k \in C : open[k].timestamp = first}
           rows == {k.exchange : k \in oldest}
<1>3. PICK row \in rows : \A r \in rows : row <= r
  <2>1. rows \in SUBSET Nat /\ rows # {}
    BY <1>1, <1>2
  <2> QED BY <2>1, LeastNat
<1>4. PICK best \in oldest : best.exchange = row
  BY <1>3
<1>5. \A other \in C \ {best} : Better(best, other)
  <2> SUFFICES ASSUME NEW other \in C, other # best
               PROVE  Better(best, other)
    OBVIOUS
  <2>1. open[best].timestamp <= open[other].timestamp
    BY <1>2, <1>4
  <2>2. other.exchange # best.exchange
    BY <1>1, <1>4
  <2>3. open[other].timestamp = open[best].timestamp => best.exchange <= other.exchange
    BY <1>3, <1>4
  <2> QED BY <1>1, <1>4, <2>1, <2>2, <2>3 DEF Better
<1> QED BY <1>4, <1>5 DEF AnsweredKey

-----------------------------------------------------------------------------
(* Observe, first half: a first reply takes one request out of those waiting. *)
LEMMA ReplyStep ==
  ASSUME WellFormed(open), NEW m \in Messages
  PROVE  /\ WellFormed(AfterReply(m))
         /\ \A e \in Exchanges :
              Cardinality(WaitingIn(open, e)) =
                Cardinality(WaitingIn(AfterReply(m), e))
                  + (IF FirstReply(m) /\ AnsweredKey(m).exchange = e THEN 1 ELSE 0)
<1> DEFINE a == AnsweredKey(m)
           o == AfterReply(m)
<1>1. CASE ~Answered(m)
  <2>1. o = open /\ ~FirstReply(m)
    BY <1>1 DEF AfterReply, FirstReply
  <2>2. \A e \in Exchanges : Cardinality(WaitingIn(open, e)) \in Nat
    BY FS_Subset, FS_CardinalityType DEF WaitingIn, WellFormed
  <2> QED BY <2>1, <2>2
<1>2. CASE Answered(m)
  <2>1. a \in DOMAIN open /\ a \in Keys /\ a.exchange \in Exchanges
    BY <1>2, AnsweredKeyIsBest DEF Candidates, WellFormed, Keys
  <2>2. open[a].replied \in BOOLEAN /\ Table[a.exchange].multi \in BOOLEAN
    BY <2>1, TableRows DEF WellFormed, Pending, Rows
  <2>3. FirstReply(m) <=> ~open[a].replied
    BY <1>2, <2>1, <2>2 DEF FirstReply, WellFormed
  <2>4. WellFormed(o)
    <3>1. CASE Table[a.exchange].multi
      <4>1. o = [open EXCEPT ![a].replied = TRUE]
        BY <1>2, <3>1 DEF AfterReply
      <4>2. DOMAIN o = DOMAIN open
        BY <4>1
      <4>3. \A k \in DOMAIN open \ {a} : o[k] = open[k]
        BY <4>1
      <4>4. o[a] = [open[a] EXCEPT !.replied = TRUE]
        BY <2>1, <4>1
      <4>5. o[a] \in Pending
        BY <2>1, <4>4 DEF WellFormed, Pending
      <4>6. o \in [DOMAIN open -> Pending]
        BY <4>1, <4>3, <4>5 DEF WellFormed
      <4> QED BY <3>1, <4>2, <4>3, <4>6 DEF WellFormed
    <3>2. CASE ~Table[a.exchange].multi
      <4>1. o = [k \in DOMAIN open \ {a} |-> open[k]]
        BY <1>2, <3>2 DEF AfterReply, Restrict
      <4>2. IsFiniteSet(DOMAIN o)
        BY <4>1, FS_RemoveElement DEF WellFormed
      <4> QED BY <4>1, <4>2 DEF WellFormed
    <3> QED BY <3>1, <3>2
  <2>5. ASSUME NEW e \in Exchanges
        PROVE  WaitingIn(o, e) = WaitingIn(open, e) \ {a}
    <3>1. CASE Table[a.exchange].multi
      <4>1. o = [open EXCEPT ![a].replied = TRUE]
        BY <1>2, <3>1 DEF AfterReply
      <4>2. DOMAIN o = DOMAIN open /\ o[a].replied = TRUE
        BY <2>1, <4>1 DEF WellFormed, Pending
      <4>3. \A k \in DOMAIN open \ {a} : o[k] = open[k]
        BY <4>1
      <4> QED BY <4>2, <4>3 DEF WaitingIn
    <3>2. CASE ~Table[a.exchange].multi
      <4>1. o = [k \in DOMAIN open \ {a} |-> open[k]]
        BY <1>2, <3>2 DEF AfterReply, Restrict
      <4> QED BY <4>1 DEF WaitingIn
    <3> QED BY <3>1, <3>2
  <2>6. ASSUME NEW e \in Exchanges
        PROVE  Cardinality(WaitingIn(open, e)) =
                 Cardinality(WaitingIn(o, e)) + (IF FirstReply(m) /\ a.exchange = e THEN 1 ELSE 0)
    <3>1. IsFiniteSet(WaitingIn(open, e))
      BY FS_Subset DEF WaitingIn, WellFormed
    <3>2. a \in WaitingIn(open, e) <=> FirstReply(m) /\ a.exchange = e
      BY <2>1, <2>3 DEF WaitingIn
    <3>3. Cardinality(WaitingIn(open, e)) \in Nat
      BY <3>1, FS_CardinalityType
    <3>4. Cardinality(WaitingIn(o, e)) =
            IF a \in WaitingIn(open, e) THEN Cardinality(WaitingIn(open, e)) - 1
                                        ELSE Cardinality(WaitingIn(open, e))
      BY <2>5, <3>1, FS_RemoveElement
    <3> QED BY <3>2, <3>3, <3>4
  <2> QED BY <2>4, <2>6
<1> QED BY <1>1, <1>2

-----------------------------------------------------------------------------
(* Observe, second half: a request adds at most one to those waiting, and a
   request reported as displaced was one of them. *)
LEMMA RegisterStep ==
  ASSUME NEW m \in Messages, NEW position \in Nat, WellFormed(AfterReply(m))
  PROVE  /\ WellFormed(AfterObserve(m, position))
         /\ IsFiniteSet(Displaced(m)) /\ Displaced(m) \subseteq Keys
         /\ \A e \in Exchanges :
              Cardinality(WaitingIn(AfterObserve(m, position), e))
                + Cardinality(Within(Displaced(m), e))
                <= Cardinality(WaitingIn(AfterReply(m), e))
                     + (IF Opened(m, e) THEN 1 ELSE 0)
<1> DEFINE o1 == AfterReply(m)
           o2 == AfterObserve(m, position)
           new == OpenedKey(m)
<1>0. \A e \in Exchanges : /\ IsFiniteSet(WaitingIn(o1, e))
                           /\ Cardinality(WaitingIn(o1, e)) \in Nat
  BY FS_Subset, FS_CardinalityType DEF WaitingIn, WellFormed
<1>1. CASE ~Registers(m)
  <2>1. o2 = o1 /\ Displaced(m) = {} /\ \A e \in Exchanges : ~Opened(m, e)
    BY <1>1 DEF AfterObserve, Displaced, Opened
  <2>2. \A e \in Exchanges : Within(Displaced(m), e) = {}
    BY <2>1 DEF Within
  <2> QED BY <1>0, <2>1, <2>2, FS_EmptySet
<1>2. CASE Registers(m)
  <2>1. PICK row \in Exchanges : Asks(m, row) /\ \A e \in Exchanges : Asks(m, e) <=> e = row
    BY <1>2, TableAssumption DEF Registers, IsRequest, Asks
  <2>2. new = RequestKey(m, row) /\ new.exchange = row /\ new \in Keys
    BY <2>1, MessagesAssumption DEF OpenedKey, RequestKey, Keys
  <2>3. o2 = [k \in DOMAIN o1 \cup {new} |->
                IF k = new
                THEN [position |-> position, timestamp |-> m.timestamp, replied |-> FALSE]
                ELSE o1[k]]
    BY <1>2 DEF AfterObserve
  <2>4. [position |-> position, timestamp |-> m.timestamp, replied |-> FALSE] \in Pending
    BY MessagesAssumption DEF Pending
  <2>5. WellFormed(o2)
    <3>1. IsFiniteSet(DOMAIN o2)
      BY <2>3, FS_AddElement DEF WellFormed
    <3>2. DOMAIN o2 \subseteq Keys
      BY <2>2, <2>3 DEF WellFormed
    <3>3. o2 \in [DOMAIN o2 -> Pending]
      BY <2>3, <2>4 DEF WellFormed
    <3>4. \A k \in DOMAIN o2 : o2[k].replied => Table[k.exchange].multi
      BY <2>3 DEF WellFormed
    <3> QED BY <3>1, <3>2, <3>3, <3>4 DEF WellFormed
  <2>6. Displaced(m) \subseteq {new} /\ (new \in Displaced(m) => new \in WaitingIn(o1, row))
    BY <2>2 DEF Displaced, WaitingIn
  <2>7. IsFiniteSet(Displaced(m)) /\ Displaced(m) \subseteq Keys
    BY <2>2, <2>6, FS_Singleton, FS_Subset
  <2>8. ASSUME NEW e \in Exchanges
        PROVE  Cardinality(WaitingIn(o2, e)) + Cardinality(Within(Displaced(m), e))
                 <= Cardinality(WaitingIn(o1, e)) + (IF Opened(m, e) THEN 1 ELSE 0)
    <3>1. CASE e # row
      <4>1. WaitingIn(o2, e) = WaitingIn(o1, e)
        BY <2>2, <2>3, <3>1 DEF WaitingIn
      <4>2. Within(Displaced(m), e) = {}
        BY <2>2, <2>6, <3>1 DEF Within
      <4> QED BY <1>0, <4>1, <4>2, FS_EmptySet
    <3>2. CASE e = row
      <4>1. Opened(m, e)
        BY <1>2, <2>1, <3>2 DEF Opened
      <4>2. WaitingIn(o2, e) = WaitingIn(o1, e) \cup {new}
        BY <2>2, <2>3, <3>2 DEF WaitingIn
      <4>3. Cardinality(WaitingIn(o2, e)) =
              IF new \in WaitingIn(o1, e) THEN Cardinality(WaitingIn(o1, e))
                                          ELSE Cardinality(WaitingIn(o1, e)) + 1
        BY <1>0, <4>2, FS_AddElement
      <4>4. \/ Within(Displaced(m), e) = {}
            \/ Within(Displaced(m), e) = {new} /\ new \in WaitingIn(o1, e)
        BY <2>6, <3>2 DEF Within
      <4>5. Cardinality({new}) = 1 /\ Cardinality({}) = 0
        BY FS_Singleton, FS_EmptySet
      <4> QED BY <1>0, <4>1, <4>3, <4>4, <4>5
    <3> QED BY <3>1, <3>2
  <2> QED BY <2>5, <2>7, <2>8
<1> QED BY <1>1, <1>2

(* A sweep takes at least the requests it reports out of those waiting. *)
LEMMA SweepStep ==
  ASSUME NEW o, WellFormed(o), NEW now \in Nat
  PROVE  /\ WellFormed(Swept(o, now))
         /\ IsFiniteSet(TimedOut(o, now)) /\ TimedOut(o, now) \subseteq Keys
         /\ \A e \in Exchanges :
              Cardinality(WaitingIn(Swept(o, now), e))
                + Cardinality(Within(TimedOut(o, now), e))
                <= Cardinality(WaitingIn(o, e))
<1> DEFINE s == Swept(o, now)
           out == TimedOut(o, now)
<1>1. s = [k \in DOMAIN o \ Overdue(o, now) |-> o[k]]
  BY DEF Swept, Restrict
<1>2. out \subseteq DOMAIN o /\ out \subseteq Overdue(o, now) /\ \A k \in out : ~o[k].replied
  BY DEF TimedOut, Overdue
<1>3. WellFormed(s)
  <2>1. IsFiniteSet(DOMAIN s)
    BY <1>1, FS_Subset DEF WellFormed
  <2> QED BY <1>1, <2>1 DEF WellFormed
<1>4. IsFiniteSet(out) /\ out \subseteq Keys
  BY <1>2, FS_Subset DEF WellFormed
<1>5. ASSUME NEW e \in Exchanges
      PROVE  Cardinality(WaitingIn(s, e)) + Cardinality(Within(out, e))
               <= Cardinality(WaitingIn(o, e))
  <2> DEFINE W == WaitingIn(o, e)
             gone == Within(out, e)
  <2>1. gone \subseteq W /\ WaitingIn(s, e) \subseteq W \ gone
    BY <1>1, <1>2 DEF WaitingIn, Within
  <2>2. IsFiniteSet(W) /\ Cardinality(W) \in Nat
    BY FS_Subset, FS_CardinalityType DEF WaitingIn, WellFormed
  <2>3. /\ IsFiniteSet(W \ gone)
        /\ Cardinality(W \ gone) = Cardinality(W) - Cardinality(W \cap gone)
    BY <2>2, FS_Difference
  <2>4. W \cap gone = gone
    BY <2>1
  <2>5. Cardinality(WaitingIn(s, e)) <= Cardinality(W \ gone)
    BY <2>1, <2>3, FS_Subset
  <2>6. /\ Cardinality(gone) \in Nat
        /\ Cardinality(WaitingIn(s, e)) \in Nat
    BY <2>1, <2>2, <2>3, FS_Subset, FS_CardinalityType
  <2>7. Cardinality(W \ gone) = Cardinality(W) - Cardinality(gone)
    BY <2>3, <2>4
  <2> QED BY <2>2, <2>5, <2>6, <2>7
<1> QED BY <1>3, <1>4, <1>5

(* Both sides' share of the blame for a set of requests is the whole of it. *)
LEMMA NoteStep ==
  ASSUME NEW stats \in [Exchanges -> Stats],
         NEW S \in SUBSET Keys, IsFiniteSet(S)
  PROVE  /\ NoteUnanswered(stats, S) \in [Exchanges -> Stats]
         /\ \A e \in Exchanges :
              /\ NoteUnanswered(stats, S)[e].opened = stats[e].opened
              /\ NoteUnanswered(stats, S)[e].answered = stats[e].answered
              /\ NoteUnanswered(stats, S)[e].byPeers + NoteUnanswered(stats, S)[e].byUs =
                   stats[e].byPeers + stats[e].byUs + Cardinality(Within(S, e))
<1> SUFFICES ASSUME NEW e \in Exchanges
             PROVE  LET n == NoteUnanswered(stats, S)[e] IN
                    /\ n \in Stats
                    /\ n.opened = stats[e].opened
                    /\ n.answered = stats[e].answered
                    /\ n.byPeers + n.byUs =
                         stats[e].byPeers + stats[e].byUs + Cardinality(Within(S, e))
  BY DEF NoteUnanswered
<1> DEFINE sent == {k \in S : k.exchange = e /\ k.inbound = FALSE}
           got == {k \in S : k.exchange = e /\ k.inbound = TRUE}
<1>1. IsFiniteSet(sent) /\ IsFiniteSet(got)
  BY FS_Subset
<1>2. sent \cup got = Within(S, e) /\ sent \cap got = {}
  BY DEF Keys, Within
<1>3. Blame(S, e, FALSE) = Cardinality(sent) /\ Blame(S, e, TRUE) = Cardinality(got)
  BY DEF Blame
<1>4. PICK p \in Nat, q \in Nat : /\ Blame(S, e, FALSE) = p /\ Blame(S, e, TRUE) = q
                                  /\ Cardinality(Within(S, e)) = p + q
  <2>1. Cardinality(sent \cup got) =
          Cardinality(sent) + Cardinality(got) - Cardinality(sent \cap got)
    BY <1>1, FS_Union
  <2>2. Cardinality(sent \cup got) = Cardinality(Within(S, e)) /\ Cardinality(sent \cap got) = 0
    BY <1>2, FS_EmptySet, Zenon
  <2>3. Cardinality(sent) \in Nat /\ Cardinality(got) \in Nat
    BY <1>1, FS_CardinalityType
  <2>4. Cardinality(Within(S, e)) = Cardinality(sent) + Cardinality(got)
    BY <2>1, <2>2, <2>3
  <2> QED BY <1>3, <2>3, <2>4
<1>5. NoteUnanswered(stats, S)[e] =
        [opened |-> stats[e].opened, answered |-> stats[e].answered,
         byPeers |-> stats[e].byPeers + p, byUs |-> stats[e].byUs + q]
  BY <1>4 DEF NoteUnanswered
<1>6. /\ stats[e].opened \in Nat /\ stats[e].answered \in Nat
      /\ stats[e].byPeers \in Nat /\ stats[e].byUs \in Nat
  BY DEF Stats
<1> QED BY <1>4, <1>5, <1>6 DEF Stats

(* Tallying what a sweep retires keeps every request settled at most once. *)
LEMMA SweepKeepsSettled ==
  ASSUME NEW o, WellFormed(o), NEW now \in Nat,
         NEW stats \in [Exchanges -> Stats], Settled(stats, o)
  PROVE  /\ NoteUnanswered(stats, TimedOut(o, now)) \in [Exchanges -> Stats]
         /\ Settled(NoteUnanswered(stats, TimedOut(o, now)), Swept(o, now))
         /\ \A e \in Exchanges :
              NoteUnanswered(stats, TimedOut(o, now))[e].answered = stats[e].answered
<1> DEFINE out == TimedOut(o, now)
           noted == NoteUnanswered(stats, out)
<1>1. /\ WellFormed(Swept(o, now)) /\ IsFiniteSet(out) /\ out \in SUBSET Keys
      /\ \A e \in Exchanges :
           Cardinality(WaitingIn(Swept(o, now), e)) + Cardinality(Within(out, e))
             <= Cardinality(WaitingIn(o, e))
  BY SweepStep
<1>2. /\ noted \in [Exchanges -> Stats]
      /\ \A e \in Exchanges :
           /\ noted[e].opened = stats[e].opened
           /\ noted[e].answered = stats[e].answered
           /\ noted[e].byPeers + noted[e].byUs =
                stats[e].byPeers + stats[e].byUs + Cardinality(Within(out, e))
  BY <1>1, NoteStep
<1>3. ASSUME NEW e \in Exchanges
      PROVE  noted[e].opened >=
               noted[e].answered + noted[e].byPeers + noted[e].byUs
                 + Cardinality(WaitingIn(Swept(o, now), e))
  <2>1. /\ Cardinality(WaitingIn(Swept(o, now), e)) \in Nat
        /\ Cardinality(WaitingIn(o, e)) \in Nat
        /\ Cardinality(Within(out, e)) \in Nat
    BY <1>1, FS_Subset, FS_CardinalityType DEF WaitingIn, Within, WellFormed
  <2>2. /\ stats[e].opened \in Nat /\ stats[e].answered \in Nat
        /\ stats[e].byPeers \in Nat /\ stats[e].byUs \in Nat
        /\ noted[e].byPeers \in Nat /\ noted[e].byUs \in Nat
    BY <1>2 DEF Stats
  <2>3. stats[e].opened >= stats[e].answered + stats[e].byPeers + stats[e].byUs
                             + Cardinality(WaitingIn(o, e))
    BY DEF Settled
  <2> QED BY <1>1, <1>2, <2>1, <2>2, <2>3
<1> QED BY <1>2, <1>3 DEF Settled

(* The same for the sweep at the end of a file. *)
LEMMA EndStep ==
  ASSUME IInv, SweepAtEnd, UNCHANGED latency
  PROVE  /\ WellFormed(open') /\ exchanges' \in [Exchanges -> Stats]
         /\ Settled(exchanges', open') /\ LatencySamplesMatchAnswers'
<1>1. /\ exchanges \in [Exchanges -> Stats] /\ lastTimestamp \in Nat
      /\ Settled(exchanges, open)
  BY DEF IInv, TypeOK, Settled, EveryRequestSettledOnce, Waiting, WaitingIn
<1>2. /\ exchanges' \in [Exchanges -> Stats] /\ Settled(exchanges', open')
      /\ \A e \in Exchanges : exchanges'[e].answered = exchanges[e].answered
  BY <1>1, SweepKeepsSettled DEF SweepAtEnd, IInv
<1>3. WellFormed(open')
  BY <1>1, SweepStep DEF SweepAtEnd, IInv
<1>4. LatencySamplesMatchAnswers'
  BY <1>2 DEF IInv, LatencySamplesMatchAnswers
<1> QED BY <1>2, <1>3, <1>4

(* One message keeps the invariant, with or without the periodic sweep. *)
LEMMA MessageStep ==
  ASSUME IInv, NEW m \in Messages, NEW position \in Nat, Message(m, position)
  PROVE  IInv'
<1> DEFINE o1 == AfterReply(m)
           o2 == AfterObserve(m, position)
           first(e) == IF FirstReply(m) /\ AnsweredKey(m).exchange = e THEN 1 ELSE 0
           asks(e) == IF Opened(m, e) THEN 1 ELSE 0
           counted == CountObserved(m)
           noted == Noted(m)
<1>1. /\ exchanges \in [Exchanges -> Stats]
      /\ latency \in [Exchanges -> [peers : Nat, us : Nat]]
      /\ sinceSweep \in Nat /\ lastTimestamp \in Nat /\ totalEvents \in Nat
      /\ dropped \in Nat /\ reading \in BOOLEAN
      /\ m.timestamp \in Nat /\ m.inbound \in BOOLEAN
  BY MessagesAssumption, BoundsAssumption DEF IInv, TypeOK
<1>2. /\ WellFormed(o1)
      /\ \A e \in Exchanges :
           Cardinality(WaitingIn(open, e)) = Cardinality(WaitingIn(o1, e)) + first(e)
  BY ReplyStep DEF IInv
<1>3. /\ WellFormed(o2) /\ IsFiniteSet(Displaced(m)) /\ Displaced(m) \in SUBSET Keys
      /\ \A e \in Exchanges :
           Cardinality(WaitingIn(o2, e)) + Cardinality(Within(Displaced(m), e))
             <= Cardinality(WaitingIn(o1, e)) + asks(e)
  BY <1>2, RegisterStep
<1>4. /\ counted \in [Exchanges -> Stats]
      /\ \A e \in Exchanges :
           /\ counted[e].opened = exchanges[e].opened + asks(e)
           /\ counted[e].answered = exchanges[e].answered + first(e)
           /\ counted[e].byPeers = exchanges[e].byPeers
           /\ counted[e].byUs = exchanges[e].byUs
  BY <1>1 DEF CountObserved, Stats
<1>5. /\ noted \in [Exchanges -> Stats]
      /\ \A e \in Exchanges :
           /\ noted[e].opened = counted[e].opened
           /\ noted[e].answered = counted[e].answered
           /\ noted[e].byPeers + noted[e].byUs =
                counted[e].byPeers + counted[e].byUs + Cardinality(Within(Displaced(m), e))
  BY <1>3, <1>4, NoteStep DEF Noted
<1>6. Settled(noted, o2)
  <2> SUFFICES ASSUME NEW e \in Exchanges
               PROVE  noted[e].opened >=
                        noted[e].answered + noted[e].byPeers + noted[e].byUs
                          + Cardinality(WaitingIn(o2, e))
    BY DEF Settled
  <2>1. /\ Cardinality(WaitingIn(open, e)) \in Nat
        /\ Cardinality(WaitingIn(o1, e)) \in Nat
        /\ Cardinality(WaitingIn(o2, e)) \in Nat
        /\ Cardinality(Within(Displaced(m), e)) \in Nat
    BY <1>2, <1>3, FS_Subset, FS_CardinalityType DEF WaitingIn, Within, WellFormed, IInv
  <2>2. /\ exchanges[e].opened \in Nat /\ exchanges[e].answered \in Nat
        /\ exchanges[e].byPeers \in Nat /\ exchanges[e].byUs \in Nat
        /\ noted[e].byPeers \in Nat /\ noted[e].byUs \in Nat
    BY <1>1, <1>5 DEF Stats
  <2>3. exchanges[e].opened >= exchanges[e].answered + exchanges[e].byPeers
                                 + exchanges[e].byUs + Cardinality(WaitingIn(open, e))
    BY DEF IInv, EveryRequestSettledOnce, Waiting, WaitingIn
  <2>4. first(e) \in Nat /\ asks(e) \in Nat
    OBVIOUS
  <2> HIDE DEF first, asks, counted, noted, o1, o2
  <2> QED BY <1>2, <1>3, <1>4, <1>5, <2>1, <2>2, <2>3, <2>4
<1>7. /\ WellFormed(open') /\ exchanges' \in [Exchanges -> Stats] /\ Settled(exchanges', open')
      /\ \A e \in Exchanges : exchanges'[e].answered = noted[e].answered
      /\ sinceSweep' \in Nat
  <2>1. CASE sinceSweep + 1 >= SweepEvery
    <3>1. /\ open' = Swept(o2, m.timestamp)
          /\ exchanges' = NoteUnanswered(noted, TimedOut(o2, m.timestamp))
          /\ sinceSweep' = 0
      BY <2>1 DEF Message
    <3>2. WellFormed(Swept(o2, m.timestamp))
      BY <1>1, <1>3, SweepStep
    <3>3. /\ NoteUnanswered(noted, TimedOut(o2, m.timestamp)) \in [Exchanges -> Stats]
          /\ Settled(NoteUnanswered(noted, TimedOut(o2, m.timestamp)), Swept(o2, m.timestamp))
          /\ \A e \in Exchanges :
               NoteUnanswered(noted, TimedOut(o2, m.timestamp))[e].answered = noted[e].answered
      BY <1>1, <1>3, <1>5, <1>6, SweepKeepsSettled
    <3> QED BY <3>1, <3>2, <3>3
  <2>2. CASE ~(sinceSweep + 1 >= SweepEvery)
    BY <1>1, <1>3, <1>5, <1>6, <2>2 DEF Message
  <2> QED BY <2>1, <2>2
<1>8. TypeOK'
  <2>1. latency' \in [Exchanges -> [peers : Nat, us : Nat]]
    BY <1>1 DEF Message, TimeReply
  <2>2. lastTimestamp' \in Nat /\ totalEvents' \in Nat /\ reading' \in BOOLEAN /\ dropped' \in Nat
    BY <1>1 DEF Message, CountEvent
  <2> QED BY <1>7, <2>1, <2>2 DEF TypeOK, WellFormed
<1>9. LatencySamplesMatchAnswers'
  <2> SUFFICES ASSUME NEW e \in Exchanges
               PROVE  LET samples == latency'[e].peers + latency'[e].us IN
                        IF Table[e].multi THEN samples >= exchanges'[e].answered
                                          ELSE samples = exchanges'[e].answered
    BY DEF LatencySamplesMatchAnswers
  <2> DEFINE sample == IF Answered(m) /\ AnsweredKey(m).exchange = e THEN 1 ELSE 0
  <2>1. latency'[e].peers + latency'[e].us = latency[e].peers + latency[e].us + sample
    BY <1>1 DEF Message, TimeReply
  <2>2. exchanges'[e].answered = exchanges[e].answered + first(e)
    BY <1>4, <1>5, <1>7
  <2>3. /\ first(e) <= sample
        /\ ~Table[e].multi => first(e) = sample
    BY DEF FirstReply
  <2>4. /\ latency[e].peers + latency[e].us \in Nat
        /\ exchanges[e].answered \in Nat
        /\ IF Table[e].multi
           THEN latency[e].peers + latency[e].us >= exchanges[e].answered
           ELSE latency[e].peers + latency[e].us = exchanges[e].answered
    BY <1>1 DEF IInv, LatencySamplesMatchAnswers, Stats
  <2>5. first(e) \in Nat /\ sample \in Nat
    OBVIOUS
  <2> HIDE DEF first, sample
  <2> QED BY <2>1, <2>2, <2>3, <2>4, <2>5
<1>10. EveryRequestSettledOnce'
  BY <1>7 DEF Settled, EveryRequestSettledOnce, Waiting, WaitingIn
<1> QED BY <1>7, <1>8, <1>9, <1>10 DEF IInv

-----------------------------------------------------------------------------
(* The invariant holds before the first file. *)
LEMMA InitStep == Init => IInv
<1> SUFFICES ASSUME Init PROVE IInv
  OBVIOUS
<1>1. open = [k \in {} |-> k] /\ DOMAIN open = {}
  BY DEF Init
<1>2. WellFormed(open)
  BY <1>1, FS_EmptySet DEF WellFormed
<1>3. TypeOK
  BY <1>2 DEF Init, TypeOK, WellFormed, Stats
<1>4. EveryRequestSettledOnce
  <2>1. \A e \in Exchanges : Waiting(e) = {}
    BY <1>1 DEF Waiting
  <2> QED BY <2>1, FS_EmptySet DEF Init, EveryRequestSettledOnce
<1>5. LatencySamplesMatchAnswers
  BY DEF Init, LatencySamplesMatchAnswers
<1> QED BY <1>2, <1>3, <1>4, <1>5 DEF IInv

(* Events of other kinds keep it, and so do the boundaries of files, whether
   they sweep or not. *)
LEMMA OtherStep ==
  ASSUME IInv,
         \/ \E t \in Times : OtherEvent(t)
         \/ BeginFile \/ EndFile \/ FailFile
         \/ UNCHANGED vars
  PROVE  IInv'
<1>1. ASSUME NEW t \in Times, OtherEvent(t) PROVE IInv'
  BY <1>1, BoundsAssumption
  DEF IInv, OtherEvent, CountEvent, TypeOK, WellFormed, EveryRequestSettledOnce,
      LatencySamplesMatchAnswers, Waiting
<1>2. CASE BeginFile
  <2>1. CASE reading
    <3>1. SweepAtEnd /\ UNCHANGED latency
      BY <1>2, <2>1 DEF BeginFile
    <3> QED
      BY <1>2, <3>1, EndStep
      DEF BeginFile, IInv, TypeOK, WellFormed, Settled, EveryRequestSettledOnce, Waiting, WaitingIn
  <2>2. CASE ~reading
    BY <1>2, <2>2
    DEF BeginFile, IInv, TypeOK, WellFormed, EveryRequestSettledOnce,
        LatencySamplesMatchAnswers, Waiting
  <2> QED BY <2>1, <2>2
<1>3. CASE EndFile
  <2>1. SweepAtEnd /\ UNCHANGED latency
    BY <1>3 DEF EndFile
  <2> QED
    BY <1>3, <2>1, EndStep
    DEF EndFile, IInv, TypeOK, WellFormed, Settled, EveryRequestSettledOnce, Waiting, WaitingIn
<1>4. CASE FailFile
  BY <1>4
  DEF FailFile, IInv, TypeOK, WellFormed, EveryRequestSettledOnce,
      LatencySamplesMatchAnswers, Waiting
<1>5. CASE UNCHANGED vars
  BY <1>5
  DEF vars, IInv, TypeOK, WellFormed, EveryRequestSettledOnce,
      LatencySamplesMatchAnswers, Waiting
<1> QED BY <1>1, <1>2, <1>3, <1>4, <1>5

(* The inductive invariant holds initially and every step of the session keeps
   it, whichever files end, fail or are cut short by the next. *)
THEOREM Invariant == Spec => []IInv
<1>1. IInv /\ [Next]_vars => IInv'
  <2> SUFFICES ASSUME IInv, [Next]_vars PROVE IInv'
    OBVIOUS
  <2>1. ASSUME NEW m \in Messages, Message(m, 0) PROVE IInv'
    BY <2>1, MessageStep
  <2> QED BY <2>1, OtherStep DEF Next
<1> QED BY <1>1, InitStep, PTL DEF Spec

(* The state keeps its types. *)
THEOREM TypeCorrect == Spec => []TypeOK
BY Invariant, PTL DEF IInv

(* ExchangeStats::undetermined never saturates: answered and unanswered never
   exceed opened, whatever the archive holds. *)
THEOREM SettledOnce == Spec => []EveryRequestSettledOnce
BY Invariant, PTL DEF IInv

(* The latency distributions hold one sample per answered request of a
   single-reply exchange, and at least one of any other. *)
THEOREM LatencyAgrees == Spec => []LatencySamplesMatchAnswers
BY Invariant, PTL DEF IInv

-----------------------------------------------------------------------------
(***************************************************************************)
(* The tracker with its history.  The invariant is a predicate over the    *)
(* log, what was asked and reported, and the open table, so that it can be *)
(* followed through the stages of one message: the reply, the request, the *)
(* sweep.                                                                  *)
(***************************************************************************)
KindOf(m) == OpenedKey(m).exchange
Replied(prs) == {pair.request : pair \in prs}
GivenUp(reports) == {report.request : report \in reports}

(* Message m could be the reply to request r. *)
CouldAnswer(m, r) ==
  /\ m.peer = r.peer
  /\ m.inbound # r.inbound
  /\ m.command \in Table[KindOf(r)].replies
  /\ Age(m.timestamp, r.timestamp) <= Table[KindOf(r)].window

(* Up to message n, whatever could have answered p answered another request,
   no younger than it. *)
PassedOver(lg, prs, p, n) ==
  \A j \in p + 1 .. n :
    CouldAnswer(lg[j], lg[p]) =>
      \E pair \in prs : /\ pair.reply = j
                        /\ pair.request # p
                        /\ lg[pair.request].timestamp <= lg[p].timestamp

AskedInLog(lg, reqs) ==
  /\ lg \in Seq(Messages)
  /\ reqs \subseteq 1 .. Len(lg)
  /\ \A p \in reqs : IsRequest(lg[p])

Plausible(lg, reqs, prs) ==
  \A pair \in prs :
    /\ pair.request \in reqs
    /\ pair.reply \in pair.request + 1 .. Len(lg)
    /\ CouldAnswer(lg[pair.reply], lg[pair.request])
    /\ \A q \in reqs : q > pair.request /\ q < pair.reply =>
                       OpenedKey(lg[q]) # OpenedKey(lg[pair.request])
    /\ ~Table[KindOf(lg[pair.request])].multi =>
         \A other \in prs : other.request = pair.request => other = pair

(* What justified giving up on p: its window had passed, or it was repeated. *)
Justified(lg, reqs, report) ==
  LET p == report.request IN
  \/ Age(report.time, lg[p].timestamp) > Table[KindOf(lg[p])].window
  \/ /\ report.after \in reqs
     /\ report.after > p
     /\ OpenedKey(lg[report.after]) = OpenedKey(lg[p])
     /\ Judged(KindOf(lg[p]))

Proven(lg, reqs, prs, reports) ==
  \A report \in reports :
    LET p == report.request IN
    /\ p \in reqs \ Replied(prs)
    /\ ~Table[KindOf(lg[p])].optional
    /\ report.after \in 0 .. Len(lg)
    /\ Justified(lg, reqs, report)
    /\ PassedOver(lg, prs, p, report.after)

(* An open entry is the newest request of its key; it is marked as replied to
   exactly if it was paired, nobody gave up on it, and until it is paired no
   message that could have answered it was left unpaired. *)
OpenEntry(lg, reqs, prs, reports, k, entry) ==
  /\ entry.position \in reqs \ GivenUp(reports)
  /\ k = OpenedKey(lg[entry.position])
  /\ entry.timestamp = lg[entry.position].timestamp
  /\ entry.replied <=> entry.position \in Replied(prs)
  /\ \A q \in reqs : OpenedKey(lg[q]) = k => q <= entry.position
  /\ ~entry.replied => PassedOver(lg, prs, entry.position, Len(lg))

Entries(lg, reqs, prs, reports, o) ==
  \A k \in DOMAIN o : OpenEntry(lg, reqs, prs, reports, k, o[k])

Positions(o, S) == {o[k].position : k \in S}

(* No request of a judged exchange is lost sight of. *)
Followed(lg, reqs, prs, reports, o) ==
  \A p \in reqs : Judged(KindOf(lg[p])) =>
                  p \in Replied(prs) \cup GivenUp(reports) \cup Positions(o, DOMAIN o)

History(lg, reqs, prs, reports, o) ==
  /\ WellFormed(o)
  /\ AskedInLog(lg, reqs)
  /\ Plausible(lg, reqs, prs)
  /\ Proven(lg, reqs, prs, reports)
  /\ Entries(lg, reqs, prs, reports, o)
  /\ Followed(lg, reqs, prs, reports, o)

(* The tallies count the fates. *)
OfKind(lg, S, e) == {p \in S : KindOf(lg[p]) = e}
OfSide(lg, S, e, inbound) == {p \in OfKind(lg, S, e) : lg[p].inbound = inbound}
Counts(lg, reqs, prs, reports, e) ==
  [opened   |-> Cardinality(OfKind(lg, reqs, e)),
   answered |-> Cardinality(OfKind(lg, Replied(prs), e)),
   byPeers  |-> Cardinality(OfSide(lg, GivenUp(reports), e, FALSE)),
   byUs     |-> Cardinality(OfSide(lg, GivenUp(reports), e, TRUE))]
Tallied(lg, reqs, prs, reports, stats) ==
  \A e \in Exchanges : stats[e] = Counts(lg, reqs, prs, reports, e)

(* Some message no older than the last sweep lies in the window of every open
   request. *)
Fresh(lg, n, o) ==
  \A k \in DOMAIN o :
    \E j \in 1 .. Len(lg) :
      /\ j >= Len(lg) - n
      /\ Age(lg[j].timestamp, o[k].timestamp) <= Table[k.exchange].window

HInv ==
  /\ IInv
  /\ History(log, asked, pairs, silent, open)
  /\ Tallied(log, asked, pairs, silent, exchanges)
  /\ sinceSweep < SweepEvery
  /\ Fresh(log, sinceSweep, open)

-----------------------------------------------------------------------------
(* A request asks by exactly one row of the table. *)
LEMMA RequestKind ==
  ASSUME NEW m \in Messages, IsRequest(m)
  PROVE  /\ KindOf(m) \in Exchanges
         /\ \A e \in Exchanges : Asks(m, e) <=> e = KindOf(m)
         /\ OpenedKey(m) \in Keys
         /\ OpenedKey(m) = [peer |-> m.peer, exchange |-> KindOf(m), inbound |-> m.inbound]
<1>1. PICK row \in Exchanges : \A e \in Exchanges : Asks(m, e) <=> e = row
  BY TableAssumption DEF IsRequest, Asks
<1>2. (CHOOSE e \in Exchanges : Asks(m, e)) = row
  BY <1>1
<1>3. OpenedKey(m) = [peer |-> m.peer, exchange |-> row, inbound |-> m.inbound]
  BY <1>2 DEF OpenedKey, RequestKey
<1>4. m.peer \in Peers /\ m.inbound \in BOOLEAN
  BY MessagesAssumption
<1> QED BY <1>1, <1>3, <1>4 DEF KindOf, Keys

(* A message at the end of the log leaves what is before it alone. *)
LEMMA LogGrows ==
  ASSUME NEW lg \in Seq(Messages), NEW m \in Messages
  PROVE  /\ Append(lg, m) \in Seq(Messages)
         /\ Len(lg) \in Nat
         /\ Len(Append(lg, m)) = Len(lg) + 1
         /\ \A p \in 1 .. Len(lg) : Append(lg, m)[p] = lg[p]
         /\ Append(lg, m)[Len(lg) + 1] = m
BY AppendProperties, LenProperties

LEMMA LogMessage ==
  ASSUME NEW lg \in Seq(Messages), NEW p \in 1 .. Len(lg)
  PROVE  lg[p] \in Messages
BY ElementOfSeq

(* What was passed over stays so as the log and the pairs grow. *)
LEMMA PassedStays ==
  ASSUME NEW lg, NEW longer, NEW prs, NEW more, prs \subseteq more,
         NEW n \in Nat, \A q \in 1 .. n : longer[q] = lg[q],
         \A pair \in prs : pair.request \in 1 .. n,
         NEW p \in 1 .. n, NEW last \in 0 .. n,
         PassedOver(lg, prs, p, last)
  PROVE  PassedOver(longer, more, p, last)
<1> SUFFICES ASSUME NEW j \in p + 1 .. last, CouldAnswer(longer[j], longer[p])
             PROVE  \E pair \in more : /\ pair.reply = j
                                       /\ pair.request # p
                                       /\ longer[pair.request].timestamp <= longer[p].timestamp
  BY DEF PassedOver
<1>1. j \in 1 .. n
  OBVIOUS
<1>2. longer[j] = lg[j] /\ longer[p] = lg[p]
  BY <1>1
<1>3. CouldAnswer(lg[j], lg[p])
  BY <1>2
<1>4. PICK pair \in prs : /\ pair.reply = j
                          /\ pair.request # p
                          /\ lg[pair.request].timestamp <= lg[p].timestamp
  BY <1>3 DEF PassedOver
<1>5. longer[pair.request] = lg[pair.request]
  BY <1>4
<1>6. pair \in more
  BY <1>4
<1> QED BY <1>2, <1>4, <1>5, <1>6

LEMMA RepliedGrows ==
  ASSUME NEW prs, NEW p, NEW j
  PROVE  Replied(prs \cup {[request |-> p, reply |-> j]}) = Replied(prs) \cup {p}
<1> DEFINE pair == [request |-> p, reply |-> j]
<1>1. pair.request = p
  OBVIOUS
<1> HIDE DEF pair
<1>2. \A x : x \in Replied(prs \cup {pair}) <=> x \in Replied(prs) \/ x = pair.request
  BY DEF Replied
<1>3. \A x : x \in Replied(prs \cup {pair}) <=> x \in Replied(prs) \cup {p}
  BY <1>1, <1>2
<1>4. Replied(prs \cup {pair}) = Replied(prs) \cup {p}
  BY <1>3
<1> QED BY <1>4 DEF pair

(* The facts of one open entry that its history gives. *)
LEMMA EntryFacts ==
  ASSUME NEW lg, NEW reqs, NEW prs, NEW reports, NEW o,
         History(lg, reqs, prs, reports, o), NEW k \in DOMAIN o
  PROVE  /\ o[k].position \in reqs /\ o[k].position \in 1 .. Len(lg)
         /\ o[k].position \notin GivenUp(reports)
         /\ lg[o[k].position] \in Messages /\ IsRequest(lg[o[k].position])
         /\ k = OpenedKey(lg[o[k].position])
         /\ k \in Keys /\ k.exchange = KindOf(lg[o[k].position])
         /\ k.peer = lg[o[k].position].peer /\ k.inbound = lg[o[k].position].inbound
         /\ o[k].timestamp = lg[o[k].position].timestamp
         /\ o[k].timestamp \in Nat
         /\ o[k].replied \in BOOLEAN
         /\ o[k].replied <=> o[k].position \in Replied(prs)
         /\ o[k].replied => Table[k.exchange].multi
         /\ \A q \in reqs : OpenedKey(lg[q]) = k => q <= o[k].position
         /\ ~o[k].replied => PassedOver(lg, prs, o[k].position, Len(lg))
<1> DEFINE p == o[k].position
<1>1. OpenEntry(lg, reqs, prs, reports, k, o[k])
  BY DEF History, Entries
<1>2. p \in reqs /\ p \in 1 .. Len(lg) /\ p \notin GivenUp(reports)
  BY <1>1 DEF OpenEntry, History, AskedInLog
<1>3. lg[p] \in Messages /\ IsRequest(lg[p])
  BY <1>2, LogMessage DEF History, AskedInLog
<1>4. k = OpenedKey(lg[p]) /\ k \in Keys
  BY <1>1 DEF OpenEntry, History, WellFormed
<1>5. OpenedKey(lg[p]) = [peer |-> lg[p].peer, exchange |-> KindOf(lg[p]), inbound |-> lg[p].inbound]
  BY <1>3, RequestKind
<1>6. k.exchange = KindOf(lg[p]) /\ k.peer = lg[p].peer /\ k.inbound = lg[p].inbound
  BY <1>4, <1>5
<1>7. o[k].replied \in BOOLEAN /\ (o[k].replied => Table[k.exchange].multi)
  BY DEF History, WellFormed, Pending
<1>8. o[k].timestamp = lg[p].timestamp /\ o[k].timestamp \in Nat
  BY <1>1, BoundsAssumption DEF OpenEntry, History, WellFormed, Pending
<1>9. o[k].replied <=> p \in Replied(prs)
  BY <1>1 DEF OpenEntry
<1>10. \A q \in reqs : OpenedKey(lg[q]) = k => q <= p
  BY <1>1 DEF OpenEntry
<1>11. ~o[k].replied => PassedOver(lg, prs, p, Len(lg))
  BY <1>1 DEF OpenEntry
<1> QED BY <1>2, <1>3, <1>4, <1>6, <1>7, <1>8, <1>9, <1>10, <1>11

(* Different keys wait for different requests. *)
LEMMA OnePosition ==
  ASSUME NEW lg, NEW reqs, NEW prs, NEW reports, NEW o,
         History(lg, reqs, prs, reports, o), NEW k \in DOMAIN o, NEW l \in DOMAIN o
  PROVE  o[k].position = o[l].position <=> k = l
<1>1. k = OpenedKey(lg[o[k].position])
  BY DEF History, Entries, OpenEntry
<1>2. l = OpenedKey(lg[o[l].position])
  BY DEF History, Entries, OpenEntry
<1> QED BY <1>1, <1>2

(* The pairs and reports point into the log. *)
LEMMA HistoryTypes ==
  ASSUME NEW lg, NEW reqs, NEW prs, NEW reports, NEW o,
         History(lg, reqs, prs, reports, o)
  PROVE  /\ lg \in Seq(Messages) /\ Len(lg) \in Nat
         /\ reqs \subseteq 1 .. Len(lg)
         /\ Replied(prs) \subseteq reqs /\ GivenUp(reports) \subseteq reqs
         /\ Replied(prs) \cap GivenUp(reports) = {}
         /\ \A pair \in prs : pair.request \in reqs /\ pair.request \in 1 .. Len(lg)
                              /\ pair.reply \in pair.request + 1 .. Len(lg)
         /\ \A p \in 1 .. Len(lg) : lg[p] \in Messages
         /\ \A p \in reqs : IsRequest(lg[p]) /\ lg[p] \in Messages
<1>1. lg \in Seq(Messages) /\ reqs \subseteq 1 .. Len(lg) /\ \A p \in reqs : IsRequest(lg[p])
  BY DEF History, AskedInLog
<1>2. Len(lg) \in Nat /\ \A p \in 1 .. Len(lg) : lg[p] \in Messages
  BY <1>1, LenProperties, LogMessage
<1>3. \A pair \in prs : pair.request \in reqs /\ pair.reply \in pair.request + 1 .. Len(lg)
  BY DEF History, Plausible
<1>4. \A report \in reports : report.request \in reqs \ Replied(prs)
  BY DEF History, Proven
<1> QED BY <1>1, <1>2, <1>3, <1>4 DEF Replied, GivenUp

-----------------------------------------------------------------------------
(* The open requests a message could answer are the candidates of observe. *)
LEMMA CandidateAnswers ==
  ASSUME History(log, asked, pairs, silent, open), NEW m \in Messages,
         NEW k \in DOMAIN open
  PROVE  k \in Candidates(m) <=> CouldAnswer(m, log[open[k].position])
<1> DEFINE r == log[open[k].position]
<1>1. /\ k.exchange = KindOf(r) /\ k.peer = r.peer /\ k.inbound = r.inbound
      /\ open[k].timestamp = r.timestamp /\ k \in Keys
  BY EntryFacts
<1>2. m.inbound \in BOOLEAN
  BY MessagesAssumption
<1>3. k = AnswerKey(m, k.exchange) <=> m.peer = r.peer /\ m.inbound # r.inbound
  <2>1. k = [peer |-> k.peer, exchange |-> k.exchange, inbound |-> k.inbound]
    BY <1>1 DEF Keys
  <2>2. k.inbound \in BOOLEAN
    BY <1>1 DEF Keys
  <2>3. k = AnswerKey(m, k.exchange) <=> k.peer = m.peer /\ k.inbound = ~m.inbound
    BY <2>1 DEF AnswerKey
  <2>4. k.inbound = ~m.inbound <=> m.inbound # k.inbound
    BY <1>2, <2>2
  <2> QED BY <1>1, <2>3, <2>4
<1> QED BY <1>1, <1>3 DEF Candidates, CouldAnswer

(* What the reply half of observe does to the open table. *)
LEMMA ReplyEffect ==
  ASSUME WellFormed(open), NEW m \in Messages
  PROVE  /\ Answered(m) => AnsweredKey(m) \in DOMAIN open /\ AnsweredKey(m) \in Candidates(m)
         /\ \A k \in DOMAIN AfterReply(m) :
              /\ k \in DOMAIN open
              /\ AfterReply(m)[k].position = open[k].position
              /\ AfterReply(m)[k].timestamp = open[k].timestamp
              /\ Answered(m) /\ k = AnsweredKey(m) => AfterReply(m)[k].replied = TRUE
              /\ ~(Answered(m) /\ k = AnsweredKey(m)) => AfterReply(m)[k] = open[k]
         /\ \A k \in DOMAIN open :
              \/ k \in DOMAIN AfterReply(m)
              \/ Answered(m) /\ k = AnsweredKey(m) /\ ~Table[k.exchange].multi
<1> DEFINE a == AnsweredKey(m)
           o == AfterReply(m)
<1>1. CASE ~Answered(m)
  BY <1>1 DEF AfterReply
<1>2. CASE Answered(m)
  <2>1. a \in Candidates(m) /\ a \in DOMAIN open
    BY <1>2, AnsweredKeyIsBest DEF Candidates
  <2>2. CASE Table[a.exchange].multi
    <3>1. o = [open EXCEPT ![a].replied = TRUE]
      BY <1>2, <2>2 DEF AfterReply
    <3>2. DOMAIN o = DOMAIN open /\ \A k \in DOMAIN open \ {a} : o[k] = open[k]
      BY <3>1
    <3>3. o[a] = [open[a] EXCEPT !.replied = TRUE]
      BY <2>1, <3>1
    <3>4. open[a] \in Pending
      BY <2>1 DEF WellFormed
    <3>5. o[a].position = open[a].position /\ o[a].timestamp = open[a].timestamp /\ o[a].replied = TRUE
      BY <3>3, <3>4 DEF Pending
    <3> QED BY <1>2, <2>1, <3>2, <3>5
  <2>3. CASE ~Table[a.exchange].multi
    <3>1. o = [k \in DOMAIN open \ {a} |-> open[k]]
      BY <1>2, <2>3 DEF AfterReply, Restrict
    <3> QED BY <1>2, <2>1, <2>3, <3>1
  <2> QED BY <2>2, <2>3
<1> QED BY <1>1, <1>2

(* The reply half of observe: the pair it reports is plausible, and every
   request it leaves unanswered was passed over for one no younger. *)
PairsAfter(m) ==
  IF Answered(m)
  THEN pairs \cup {[request |-> open[AnsweredKey(m)].position, reply |-> Position]}
  ELSE pairs

LEMMA ReplyKeepsHistory ==
  ASSUME History(log, asked, pairs, silent, open), NEW m \in Messages
  PROVE  History(Append(log, m), asked, PairsAfter(m), silent, AfterReply(m))
<1> DEFINE lg == Append(log, m)
           prs == PairsAfter(m)
           o == AfterReply(m)
           a == AnsweredKey(m)
           p0 == open[a].position
<1>1. /\ log \in Seq(Messages) /\ Len(log) \in Nat
      /\ asked \subseteq 1 .. Len(log)
      /\ Replied(pairs) \subseteq asked /\ GivenUp(silent) \subseteq asked
      /\ Replied(pairs) \cap GivenUp(silent) = {}
      /\ \A pair \in pairs : pair.request \in asked /\ pair.request \in 1 .. Len(log)
                             /\ pair.reply \in pair.request + 1 .. Len(log)
      /\ \A p \in 1 .. Len(log) : log[p] \in Messages
      /\ \A p \in asked : IsRequest(log[p])
  BY HistoryTypes
<1>2. PICK n \in Nat : n = Len(log) /\ Position = n + 1
  BY <1>1 DEF Position
<1>3. /\ lg \in Seq(Messages) /\ Len(lg) = n + 1
      /\ \A p \in 1 .. n : lg[p] = log[p]
      /\ lg[n + 1] = m
  BY <1>1, <1>2, LogGrows
<1>4. WellFormed(open) /\ WellFormed(o)
  BY ReplyStep DEF History
<1>5. /\ Answered(m) => a \in DOMAIN open /\ a \in Candidates(m)
      /\ \A k \in DOMAIN o : /\ k \in DOMAIN open
                             /\ o[k].position = open[k].position
                             /\ o[k].timestamp = open[k].timestamp
                             /\ Answered(m) /\ k = a => o[k].replied = TRUE
                             /\ ~(Answered(m) /\ k = a) => o[k] = open[k]
      /\ \A k \in DOMAIN open : \/ k \in DOMAIN o
                                \/ Answered(m) /\ k = a /\ ~Table[k.exchange].multi
  BY <1>4, ReplyEffect
<1>6. pairs \subseteq prs
  BY DEF PairsAfter
<1>7. Answered(m) => prs = pairs \cup {[request |-> p0, reply |-> n + 1]}
  BY <1>2 DEF PairsAfter
<1>8. ~Answered(m) => prs = pairs
  BY DEF PairsAfter
<1>9. Replied(prs) = IF Answered(m) THEN Replied(pairs) \cup {p0} ELSE Replied(pairs)
  <2>1. CASE Answered(m)
    <3>1. prs = pairs \cup {[request |-> p0, reply |-> n + 1]}
      BY <1>7, <2>1
    <3> HIDE DEF prs, p0
    <3>2. Replied(prs) = Replied(pairs) \cup {p0}
      BY <3>1, RepliedGrows
    <3> QED BY <2>1, <3>2
  <2>2. CASE ~Answered(m)
    BY <1>8, <2>2
  <2> QED BY <2>1, <2>2
<1>10. ASSUME Answered(m)
       PROVE  /\ p0 \in asked /\ p0 \in 1 .. n /\ p0 \notin GivenUp(silent)
              /\ a = OpenedKey(log[p0]) /\ a.exchange = KindOf(log[p0])
              /\ open[a].timestamp = log[p0].timestamp
              /\ open[a].replied <=> p0 \in Replied(pairs)
              /\ open[a].replied => Table[a.exchange].multi
              /\ \A q \in asked : OpenedKey(log[q]) = a => q <= p0
              /\ CouldAnswer(m, log[p0])
  <2>1. a \in DOMAIN open /\ a \in Candidates(m)
    BY <1>5, <1>10
  <2>2. CouldAnswer(m, log[p0])
    BY <2>1, CandidateAnswers
  <2> QED BY <1>2, <2>1, <2>2, EntryFacts
<1> HIDE DEF lg, prs, o, a, p0
<1>11. AskedInLog(lg, asked)
  BY <1>1, <1>2, <1>3 DEF AskedInLog
<1>12. Plausible(lg, asked, prs)
  <2> SUFFICES ASSUME NEW pair \in prs
               PROVE  /\ pair.request \in asked
                      /\ pair.reply \in pair.request + 1 .. Len(lg)
                      /\ CouldAnswer(lg[pair.reply], lg[pair.request])
                      /\ \A q \in asked : q > pair.request /\ q < pair.reply =>
                                            OpenedKey(lg[q]) # OpenedKey(lg[pair.request])
                      /\ ~Table[KindOf(lg[pair.request])].multi =>
                           \A other \in prs : other.request = pair.request => other = pair
    BY DEF Plausible
  <2>1. CASE pair \in pairs
    <3>1. /\ pair.request \in asked /\ pair.request \in 1 .. n
          /\ pair.reply \in pair.request + 1 .. n
      BY <1>1, <1>2, <2>1
    <3>2. pair.reply \in 1 .. n
      BY <3>1
    <3>3. lg[pair.reply] = log[pair.reply] /\ lg[pair.request] = log[pair.request]
      BY <1>3, <3>1, <3>2
    <3>4. \A q \in asked : lg[q] = log[q]
      BY <1>1, <1>2, <1>3
    <3>5. /\ CouldAnswer(log[pair.reply], log[pair.request])
          /\ \A q \in asked : q > pair.request /\ q < pair.reply =>
                                OpenedKey(log[q]) # OpenedKey(log[pair.request])
          /\ ~Table[KindOf(log[pair.request])].multi =>
               \A other \in pairs : other.request = pair.request => other = pair
      BY <2>1 DEF History, Plausible
    <3>6. ASSUME ~Table[KindOf(log[pair.request])].multi,
                 NEW other \in prs, other.request = pair.request
          PROVE  other = pair
      <4>1. CASE other \in pairs
        BY <3>5, <3>6, <4>1
      <4>2. CASE other \notin pairs
        <5>1. Answered(m) /\ other = [request |-> p0, reply |-> n + 1]
          BY <1>7, <1>8, <4>2
        <5>2. p0 = pair.request
          BY <3>6, <5>1
        <5>3. p0 \in Replied(pairs)
          BY <2>1, <5>2 DEF Replied
        <5>4. Table[KindOf(log[p0])].multi
          BY <1>10, <5>1, <5>3
        <5> QED BY <3>6, <5>2, <5>4
      <4> QED BY <4>1, <4>2
    <3>7. pair.reply \in pair.request + 1 .. Len(lg)
      BY <1>3, <3>1
    <3> QED BY <3>1, <3>3, <3>4, <3>5, <3>6, <3>7
  <2>2. CASE pair \notin pairs
    <3>1. Answered(m) /\ pair = [request |-> p0, reply |-> n + 1]
      BY <1>7, <1>8, <2>2
    <3>2. pair.request = p0 /\ pair.reply = n + 1
      BY <3>1
    <3>3. lg[p0] = log[p0] /\ lg[n + 1] = m
      BY <1>3, <1>10, <3>1
    <3>4. pair.reply \in pair.request + 1 .. Len(lg)
      BY <1>3, <1>10, <3>1, <3>2
    <3>5. ASSUME NEW q \in asked, q > p0
          PROVE  OpenedKey(lg[q]) # OpenedKey(lg[p0])
      <4>1. q \in 1 .. n
        BY <1>1, <1>2
      <4>2. lg[q] = log[q]
        BY <1>3, <4>1
      <4>3. OpenedKey(log[q]) # a
        BY <1>10, <3>1, <3>5, <4>1
      <4> QED BY <1>10, <3>1, <3>3, <4>2, <4>3
    <3>6. ASSUME ~Table[KindOf(lg[p0])].multi, NEW other \in prs, other.request = p0
          PROVE  other = pair
      <4>1. p0 \notin Replied(pairs)
        BY <1>10, <3>1, <3>3, <3>6
      <4>2. other \notin pairs
        BY <3>6, <4>1 DEF Replied
      <4> QED BY <1>7, <3>1, <4>2
    <3> QED BY <1>10, <3>1, <3>2, <3>3, <3>4, <3>5, <3>6
  <2> QED BY <2>1, <2>2
<1>13. \A p \in 1 .. n, last \in 0 .. n : PassedOver(log, pairs, p, last) => PassedOver(lg, prs, p, last)
  <2> TAKE p \in 1 .. n, last \in 0 .. n
  <2> HAVE PassedOver(log, pairs, p, last)
  <2>1. \A pair \in pairs : pair.request \in 1 .. n
    BY <1>1, <1>2
  <2> QED BY <1>3, <1>6, <2>1, PassedStays
<1>14. Proven(lg, asked, prs, silent)
  <2> SUFFICES ASSUME NEW report \in silent
               PROVE  LET p == report.request IN
                      /\ p \in asked \ Replied(prs)
                      /\ ~Table[KindOf(lg[p])].optional
                      /\ report.after \in 0 .. Len(lg)
                      /\ Justified(lg, asked, report)
                      /\ PassedOver(lg, prs, p, report.after)
    BY DEF Proven
  <2> DEFINE p == report.request
  <2>1. /\ p \in asked \ Replied(pairs)
        /\ ~Table[KindOf(log[p])].optional
        /\ report.after \in 0 .. n
        /\ Justified(log, asked, report)
        /\ PassedOver(log, pairs, p, report.after)
    BY <1>2 DEF History, Proven
  <2>2. p \in GivenUp(silent)
    BY DEF GivenUp
  <2>3. p \in 1 .. n /\ lg[p] = log[p]
    BY <1>1, <1>2, <1>3, <2>1
  <2>4. p \notin Replied(prs)
    BY <1>9, <1>10, <2>1, <2>2
  <2>5. report.after \in asked => lg[report.after] = log[report.after]
    BY <1>1, <1>2, <1>3
  <2>6. Justified(lg, asked, report)
    BY <2>1, <2>3, <2>5 DEF Justified
  <2>7. PassedOver(lg, prs, p, report.after)
    BY <1>13, <2>1, <2>3
  <2>8. report.after \in 0 .. Len(lg)
    BY <1>3, <2>1
  <2> QED BY <2>1, <2>3, <2>4, <2>6, <2>7, <2>8
<1>15. Entries(lg, asked, prs, silent, o)
  <2> SUFFICES ASSUME NEW k \in DOMAIN o
               PROVE  OpenEntry(lg, asked, prs, silent, k, o[k])
    BY DEF Entries
  <2> DEFINE p == open[k].position
  <2>1. k \in DOMAIN open /\ o[k].position = p /\ o[k].timestamp = open[k].timestamp
    BY <1>5
  <2>2. /\ p \in asked /\ p \in 1 .. n /\ p \notin GivenUp(silent)
        /\ k = OpenedKey(log[p]) /\ open[k].timestamp = log[p].timestamp
        /\ open[k].replied \in BOOLEAN
        /\ open[k].replied <=> p \in Replied(pairs)
        /\ \A q \in asked : OpenedKey(log[q]) = k => q <= p
        /\ ~open[k].replied => PassedOver(log, pairs, p, n)
    BY <1>2, <2>1, EntryFacts
  <2>3. lg[p] = log[p] /\ \A q \in asked : lg[q] = log[q]
    BY <1>1, <1>2, <1>3, <2>2
  <2>4. Answered(m) => (p = p0 <=> k = a)
    BY <1>5, <2>1, OnePosition DEF p0
  <2>5. o[k].replied <=> p \in Replied(prs)
    <3>1. CASE Answered(m) /\ k = a
      BY <1>5, <1>9, <2>4, <3>1
    <3>2. CASE ~(Answered(m) /\ k = a)
      <4>1. o[k].replied = open[k].replied
        BY <1>5, <3>2
      <4>2. p \in Replied(prs) <=> p \in Replied(pairs)
        BY <1>9, <2>4, <3>2
      <4> QED BY <2>2, <4>1, <4>2
    <3> QED BY <3>1, <3>2
  <2>6. ~o[k].replied => PassedOver(lg, prs, p, n + 1)
    <3> HAVE ~o[k].replied
    <3>1. ~(Answered(m) /\ k = a)
      BY <1>5
    <3>2. PassedOver(lg, prs, p, n)
      <4>1. ~open[k].replied
        BY <1>5, <3>1
      <4>2. PassedOver(log, pairs, p, n)
        BY <2>2, <4>1
      <4>3. n \in 0 .. n
        OBVIOUS
      <4> QED BY <1>13, <2>2, <4>2, <4>3
    <3>3. ASSUME CouldAnswer(m, log[p])
          PROVE  \E pair \in prs : /\ pair.reply = n + 1
                                   /\ pair.request # p
                                   /\ lg[pair.request].timestamp <= lg[p].timestamp
      <4>1. k \in Candidates(m)
        BY <2>1, <3>3, CandidateAnswers
      <4>2. Answered(m)
        BY <4>1 DEF Answered
      <4>3. Better(a, k)
        BY <1>4, <3>1, <4>1, <4>2, AnsweredKeyIsBest DEF a
      <4>4. open[a].timestamp <= open[k].timestamp
        <5>1. a \in DOMAIN open
          BY <1>5, <4>2
        <5>2. open[a].timestamp \in Nat /\ open[k].timestamp \in Nat
          BY <2>1, <5>1, EntryFacts
        <5> QED BY <4>3, <5>2 DEF Better
      <4>5. lg[p0] = log[p0]
        BY <1>3, <1>10, <4>2
      <4>6. [request |-> p0, reply |-> n + 1] \in prs
        BY <1>7, <4>2
      <4>7. p0 # p
        BY <2>4, <3>1, <4>2
      <4>8. lg[p0].timestamp <= lg[p].timestamp
        BY <1>10, <2>2, <2>3, <4>2, <4>4, <4>5
      <4> WITNESS [request |-> p0, reply |-> n + 1] \in prs
      <4> QED BY <4>7, <4>8
    <3> SUFFICES ASSUME NEW j \in p + 1 .. n + 1, CouldAnswer(lg[j], lg[p])
                 PROVE  \E pair \in prs : /\ pair.reply = j
                                          /\ pair.request # p
                                          /\ lg[pair.request].timestamp <= lg[p].timestamp
      BY DEF PassedOver
    <3>4. CASE j = n + 1
      <4>1. CouldAnswer(m, log[p])
        BY <1>3, <2>3, <3>4
      <4> QED BY <3>3, <3>4, <4>1
    <3>5. CASE j # n + 1
      <4>1. j \in p + 1 .. n
        BY <2>2, <3>5
      <4> QED BY <3>2, <4>1 DEF PassedOver
    <3> QED BY <3>4, <3>5
  <2> HIDE DEF p
  <2> QED BY <1>3, <2>1, <2>2, <2>3, <2>5, <2>6 DEF OpenEntry
<1>16. Followed(lg, asked, prs, silent, o)
  <2> SUFFICES ASSUME NEW p \in asked, Judged(KindOf(lg[p]))
               PROVE  p \in Replied(prs) \cup GivenUp(silent) \cup Positions(o, DOMAIN o)
    BY DEF Followed
  <2>1. lg[p] = log[p]
    BY <1>1, <1>2, <1>3
  <2>2. p \in Replied(pairs) \cup GivenUp(silent) \cup Positions(open, DOMAIN open)
    BY <2>1 DEF History, Followed
  <2>3. CASE p \in Positions(open, DOMAIN open)
    <3>1. PICK k \in DOMAIN open : open[k].position = p
      BY <2>3 DEF Positions
    <3>2. CASE k \in DOMAIN o
      BY <1>5, <3>1, <3>2 DEF Positions
    <3>3. CASE k \notin DOMAIN o
      <4>1. Answered(m) /\ k = a
        BY <1>5, <3>3
      <4> QED BY <1>9, <3>1, <4>1 DEF p0
    <3> QED BY <3>2, <3>3
  <2>4. CASE p \notin Positions(open, DOMAIN open)
    BY <1>9, <2>2, <2>4
  <2> QED BY <2>3, <2>4
<1> QED BY <1>4, <1>11, <1>12, <1>14, <1>15, <1>16 DEF History, lg, prs, o

-----------------------------------------------------------------------------
LEMMA ReportFields ==
  ASSUME NEW o, NEW S, NEW after, NEW time
  PROVE  \A report \in Reports(o, S, after, time) :
           /\ report.after = after /\ report.time = time
           /\ \E k \in S : report.request = o[k].position
BY DEF Reports

LEMMA GivenUpGrows ==
  ASSUME NEW reports, NEW o, NEW S, NEW after, NEW time
  PROVE  GivenUp(reports \cup Reports(o, S, after, time)) = GivenUp(reports) \cup Positions(o, S)
<1> DEFINE R == Reports(o, S, after, time)
           report(k) == [request |-> o[k].position, after |-> after, time |-> time]
<1>1. R = {report(k) : k \in S}
  BY DEF Reports
<1>2. \A k : report(k).request = o[k].position
  OBVIOUS
<1> HIDE DEF report, R
<1>3. \A x : x \in GivenUp(reports \cup R) <=> x \in GivenUp(reports) \/ \E k \in S : x = report(k).request
  BY <1>1 DEF GivenUp
<1>4. \A x : x \in Positions(o, S) <=> \E k \in S : x = o[k].position
  BY DEF Positions
<1>5. \A x : x \in GivenUp(reports \cup R) <=> x \in GivenUp(reports) \cup Positions(o, S)
  BY <1>2, <1>3, <1>4
<1>6. GivenUp(reports \cup R) = GivenUp(reports) \cup Positions(o, S)
  BY <1>5
<1> QED BY <1>6 DEF R

(* The request half of observe: what it displaces was asked again before any
   message answered it. *)
AskedAfter(m) == IF Registers(m) THEN asked \cup {Position} ELSE asked
SilentAfter(m) == silent \cup Reports(AfterReply(m), Displaced(m), Position, m.timestamp)

LEMMA ObserveKeepsHistory ==
  ASSUME NEW m \in Messages, NEW prs, log \in Seq(Messages), asked \subseteq 1 .. Len(log),
         History(Append(log, m), asked, prs, silent, AfterReply(m))
  PROVE  History(Append(log, m), AskedAfter(m), prs, SilentAfter(m), AfterObserve(m, Position))
<1> DEFINE lg == Append(log, m)
           o1 == AfterReply(m)
           o2 == AfterObserve(m, Position)
           new == OpenedKey(m)
           D == Displaced(m)
           reports == SilentAfter(m)
<1>1. PICK n \in Nat : n = Len(log) /\ Position = n + 1
  BY LogGrows DEF Position
<1>2. /\ lg \in Seq(Messages) /\ Len(lg) = n + 1
      /\ lg[n + 1] = m
      /\ asked \subseteq 1 .. n
  BY <1>1, LogGrows
<1>3. /\ Replied(prs) \subseteq asked /\ GivenUp(silent) \subseteq asked
      /\ \A p \in asked : IsRequest(lg[p])
  BY HistoryTypes
<1>4. WellFormed(o1) /\ WellFormed(o2)
  <2>1. WellFormed(o1)
    BY DEF History
  <2>2. Position \in Nat
    BY <1>1
  <2> QED BY <2>1, <2>2, RegisterStep
<1>5. CASE ~Registers(m)
  <2>1. o2 = o1 /\ D = {} /\ AskedAfter(m) = asked
    BY <1>5 DEF AfterObserve, Displaced, AskedAfter
  <2>2. reports = silent
    BY <2>1 DEF SilentAfter, Reports
  <2> QED BY <2>1, <2>2
<1>6. CASE Registers(m)
  <2>1. AskedAfter(m) = asked \cup {n + 1}
    BY <1>1, <1>6 DEF AskedAfter
  <2>2. /\ DOMAIN o2 = DOMAIN o1 \cup {new}
        /\ o2[new] = [position |-> n + 1, timestamp |-> m.timestamp, replied |-> FALSE]
        /\ \A k \in DOMAIN o1 : k # new => o2[k] = o1[k]
    BY <1>1, <1>6 DEF AfterObserve
  <2>3. IsRequest(m)
    BY <1>6 DEF Registers
  <2>4. \A k \in D : k \in DOMAIN o1 /\ k = new /\ Judged(k.exchange) /\ ~o1[k].replied
    BY DEF Displaced
  <2>5. \A k \in DOMAIN o1 : k = new /\ Judged(k.exchange) /\ ~o1[k].replied => k \in D
    BY <1>6 DEF Displaced
  <2>6. /\ reports = silent \cup Reports(o1, D, n + 1, m.timestamp)
        /\ GivenUp(reports) = GivenUp(silent) \cup Positions(o1, D)
    BY <1>1, GivenUpGrows DEF SilentAfter
  <2>7. \A report \in Reports(o1, D, n + 1, m.timestamp) :
          report.after = n + 1 /\ \E k \in D : report.request = o1[k].position
    <3> HIDE DEF o1, D
    <3> QED BY ReportFields
  <2>8. \A k \in DOMAIN o1 : /\ o1[k].position \in asked
                             /\ o1[k].position \notin GivenUp(silent)
                             /\ k = OpenedKey(lg[o1[k].position])
                             /\ k.exchange = KindOf(lg[o1[k].position])
                             /\ o1[k].replied <=> o1[k].position \in Replied(prs)
                             /\ ~o1[k].replied => PassedOver(lg, prs, o1[k].position, n + 1)
    <3> TAKE k \in DOMAIN o1
    <3> HIDE DEF o1, lg
    <3>1. History(lg, asked, prs, silent, o1)
      BY DEF o1, lg
    <3> QED BY <1>2, <3>1, EntryFacts
  <2>9. Positions(o1, D) \subseteq asked
    BY <2>4, <2>8 DEF Positions
  <2> HIDE DEF o1, o2, lg, D, reports, new
  <2>10. AskedInLog(lg, asked \cup {n + 1})
    BY <1>2, <1>3, <2>3 DEF AskedInLog
  <2>11. Plausible(lg, asked \cup {n + 1}, prs)
    <3>1. Plausible(lg, asked, prs)
      BY DEF History, lg
    <3>2. \A pair \in prs : ~(n + 1 < pair.reply)
      BY <1>2, <3>1 DEF Plausible
    <3> QED BY <3>1, <3>2 DEF Plausible
  <2>12. Proven(lg, asked \cup {n + 1}, prs, reports)
    <3> SUFFICES ASSUME NEW report \in reports
                 PROVE  LET p == report.request IN
                        /\ p \in (asked \cup {n + 1}) \ Replied(prs)
                        /\ ~Table[KindOf(lg[p])].optional
                        /\ report.after \in 0 .. Len(lg)
                        /\ Justified(lg, asked \cup {n + 1}, report)
                        /\ PassedOver(lg, prs, p, report.after)
      BY DEF Proven
    <3>1. CASE report \in silent
      <4>1. Proven(lg, asked, prs, silent)
        BY DEF History, lg
      <4> QED BY <3>1, <4>1 DEF Proven, Justified
    <3>2. CASE report \notin silent
      <4>1. report \in Reports(o1, D, n + 1, m.timestamp)
        BY <2>6, <3>2
      <4>2. PICK k \in D : report.request = o1[k].position
        BY <2>7, <4>1
      <4>3. report.after = n + 1
        BY <2>7, <4>1
      <4> DEFINE p == o1[k].position
      <4>4. /\ p \in asked /\ p \notin Replied(prs) /\ p \in 1 .. n
            /\ KindOf(lg[p]) = k.exchange /\ Judged(k.exchange)
            /\ OpenedKey(lg[p]) = new
            /\ PassedOver(lg, prs, p, n + 1)
        BY <1>2, <2>4, <2>8, <4>2
      <4>5. OpenedKey(lg[n + 1]) = new
        BY <1>2 DEF new
      <4>6. Justified(lg, asked \cup {n + 1}, report)
        BY <4>2, <4>3, <4>4, <4>5 DEF Justified
      <4>7. ~Table[KindOf(lg[p])].optional
        BY <4>4 DEF Judged
      <4>8. report.after \in 0 .. Len(lg)
        BY <1>2, <4>3
      <4> QED BY <4>2, <4>3, <4>4, <4>6, <4>7, <4>8
    <3> QED BY <3>1, <3>2
  <2>13. Entries(lg, asked \cup {n + 1}, prs, reports, o2)
    <3> SUFFICES ASSUME NEW k \in DOMAIN o2
                 PROVE  OpenEntry(lg, asked \cup {n + 1}, prs, reports, k, o2[k])
      BY DEF Entries
    <3>1. CASE k = new
      <4>1. o2[k].position = n + 1 /\ o2[k].timestamp = m.timestamp /\ o2[k].replied = FALSE
        BY <2>2, <3>1
      <4>2. n + 1 \notin asked
        BY <1>2
      <4>3. n + 1 \notin GivenUp(reports) /\ n + 1 \notin Replied(prs)
        BY <1>3, <2>6, <2>9, <4>2
      <4>4. k = OpenedKey(lg[n + 1]) /\ m = lg[n + 1]
        BY <1>2, <3>1 DEF new
      <4>5. \A q \in asked \cup {n + 1} : q <= n + 1
        BY <1>2
      <4>6. PassedOver(lg, prs, n + 1, Len(lg))
        BY <1>2 DEF PassedOver
      <4> QED BY <4>1, <4>3, <4>4, <4>5, <4>6 DEF OpenEntry
    <3>2. CASE k # new
      <4>1. k \in DOMAIN o1 /\ o2[k] = o1[k]
        BY <2>2, <3>2
      <4>2. OpenEntry(lg, asked, prs, silent, k, o1[k])
        BY <4>1 DEF History, Entries, lg, o1
      <4>3. o1[k].position \notin Positions(o1, D)
        <5>1. \A l \in D : o1[l].position # o1[k].position
          BY <2>4, <2>8, <3>2, <4>1
        <5> QED BY <5>1 DEF Positions
      <4>4. OpenedKey(lg[n + 1]) # k
        BY <1>2, <3>2 DEF new
      <4> QED BY <2>6, <4>1, <4>2, <4>3, <4>4 DEF OpenEntry
    <3> QED BY <3>1, <3>2
  <2>14. Followed(lg, asked \cup {n + 1}, prs, reports, o2)
    <3> SUFFICES ASSUME NEW p \in asked \cup {n + 1}, Judged(KindOf(lg[p]))
                 PROVE  p \in Replied(prs) \cup GivenUp(reports) \cup Positions(o2, DOMAIN o2)
      BY DEF Followed
    <3>1. CASE p = n + 1
      <4>1. o2[new].position = n + 1 /\ new \in DOMAIN o2
        BY <2>2
      <4> QED BY <3>1, <4>1 DEF Positions
    <3>2. CASE p \in asked
      <4>1. p \in Replied(prs) \cup GivenUp(silent) \cup Positions(o1, DOMAIN o1)
        BY <3>2 DEF History, Followed, lg, o1
      <4>2. CASE p \in Positions(o1, DOMAIN o1)
        <5>1. PICK k \in DOMAIN o1 : o1[k].position = p
          BY <4>2 DEF Positions
        <5>2. CASE k # new
          <6>1. k \in DOMAIN o2 /\ o2[k].position = p
            BY <2>2, <5>1, <5>2
          <6> QED BY <6>1 DEF Positions
        <5>3. CASE k = new
          <6>1. Judged(k.exchange)
            BY <2>8, <5>1
          <6>2. CASE o1[k].replied
            BY <2>8, <5>1, <6>2
          <6>3. CASE ~o1[k].replied
            <7>1. k \in D
              BY <2>5, <5>3, <6>1, <6>3
            <7> QED BY <2>6, <5>1, <7>1 DEF Positions
          <6> QED BY <6>2, <6>3
        <5> QED BY <5>2, <5>3
      <4> QED BY <2>6, <4>1, <4>2
    <3> QED BY <3>1, <3>2
  <2> QED BY <1>4, <2>1, <2>10, <2>11, <2>12, <2>13, <2>14 DEF History, lg, o2, reports
<1> QED BY <1>5, <1>6

(* A sweep: what it reports had its window pass unanswered. *)
LEMMA SweepKeepsHistory ==
  ASSUME NEW lg, NEW reqs, NEW prs, NEW reports, NEW o,
         History(lg, reqs, prs, reports, o), NEW now \in Nat
  PROVE  History(lg, reqs, prs, reports \cup Reports(o, TimedOut(o, now), Len(lg), now),
                 Swept(o, now))
<1> DEFINE out == TimedOut(o, now)
           more == reports \cup Reports(o, out, Len(lg), now)
           s == Swept(o, now)
<1>1. /\ s = [k \in DOMAIN o \ Overdue(o, now) |-> o[k]]
      /\ DOMAIN s \subseteq DOMAIN o
      /\ \A k \in DOMAIN s : s[k] = o[k] /\ k \notin Overdue(o, now)
      /\ \A k \in DOMAIN o : k \notin DOMAIN s => k \in Overdue(o, now)
  BY DEF Swept, Restrict
<1>2. \A k \in out : /\ k \in DOMAIN o /\ k \in Overdue(o, now)
                     /\ Age(now, o[k].timestamp) > Table[k.exchange].window
                     /\ ~o[k].replied /\ ~Table[k.exchange].optional
  BY DEF TimedOut, Overdue
<1>3. \A k \in Overdue(o, now) : ~o[k].replied /\ ~Table[k.exchange].optional => k \in out
  BY DEF TimedOut
<1>4. GivenUp(more) = GivenUp(reports) \cup Positions(o, out)
  BY GivenUpGrows
<1>5. \A report \in Reports(o, out, Len(lg), now) :
        /\ report.after = Len(lg) /\ report.time = now
        /\ \E k \in out : report.request = o[k].position
  <2> HIDE DEF out
  <2> QED BY ReportFields
<1>6. \A k \in DOMAIN o : /\ o[k].position \in reqs
                          /\ k = OpenedKey(lg[o[k].position])
                          /\ k.exchange = KindOf(lg[o[k].position])
                          /\ o[k].timestamp = lg[o[k].position].timestamp
                          /\ o[k].replied <=> o[k].position \in Replied(prs)
                          /\ ~o[k].replied => PassedOver(lg, prs, o[k].position, Len(lg))
  <2> TAKE k \in DOMAIN o
  <2>1. o[k].position \in reqs
    BY EntryFacts
  <2>2. k = OpenedKey(lg[o[k].position])
    BY EntryFacts
  <2>3. k.exchange = KindOf(lg[o[k].position])
    BY EntryFacts
  <2>4. o[k].timestamp = lg[o[k].position].timestamp
    BY EntryFacts
  <2>5. o[k].replied <=> o[k].position \in Replied(prs)
    BY EntryFacts, Zenon
  <2>6. ~o[k].replied => PassedOver(lg, prs, o[k].position, Len(lg))
    BY EntryFacts
  <2> QED BY <2>1, <2>2, <2>3, <2>4, <2>5, <2>6
<1>7. Len(lg) \in Nat
  BY HistoryTypes
<1>8. WellFormed(s)
  BY SweepStep DEF History
<1> HIDE DEF out, more, s
<1>9. Proven(lg, reqs, prs, more)
  <2> SUFFICES ASSUME NEW report \in more
               PROVE  LET p == report.request IN
                      /\ p \in reqs \ Replied(prs)
                      /\ ~Table[KindOf(lg[p])].optional
                      /\ report.after \in 0 .. Len(lg)
                      /\ Justified(lg, reqs, report)
                      /\ PassedOver(lg, prs, p, report.after)
    BY DEF Proven
  <2>1. CASE report \in reports
    BY <2>1 DEF History, Proven
  <2>2. CASE report \notin reports
    <3>1. report \in Reports(o, out, Len(lg), now)
      BY <2>2 DEF more
    <3>2. PICK k \in out : report.request = o[k].position
      BY <1>5, <3>1
    <3>3. report.after = Len(lg) /\ report.time = now
      BY <1>5, <3>1
    <3>4. Justified(lg, reqs, report)
      <4>1. /\ o[k].timestamp = lg[o[k].position].timestamp
            /\ k.exchange = KindOf(lg[o[k].position])
            /\ Age(now, o[k].timestamp) > Table[k.exchange].window
        BY <1>2, <1>6, <3>2
      <4>2. Age(report.time, lg[report.request].timestamp) > Table[KindOf(lg[report.request])].window
        BY <3>2, <3>3, <4>1
      <4> QED BY <4>2 DEF Justified
    <3>5. report.after \in 0 .. Len(lg)
      BY <1>7, <3>3
    <3> QED BY <1>2, <1>6, <3>2, <3>3, <3>4, <3>5
  <2> QED BY <2>1, <2>2
<1>10. Entries(lg, reqs, prs, more, s)
  <2> SUFFICES ASSUME NEW k \in DOMAIN s
               PROVE  OpenEntry(lg, reqs, prs, more, k, s[k])
    BY DEF Entries
  <2>1. k \in DOMAIN o /\ s[k] = o[k] /\ k \notin out
    BY <1>1, <1>2
  <2>2. OpenEntry(lg, reqs, prs, reports, k, o[k])
    BY <2>1 DEF History, Entries
  <2>3. o[k].position \notin Positions(o, out)
    <3>1. \A l \in out : o[l].position # o[k].position
      BY <1>2, <1>6, <2>1
    <3> QED BY <3>1 DEF Positions
  <2> QED BY <1>4, <2>1, <2>2, <2>3 DEF OpenEntry
<1>11. Followed(lg, reqs, prs, more, s)
  <2> SUFFICES ASSUME NEW p \in reqs, Judged(KindOf(lg[p]))
               PROVE  p \in Replied(prs) \cup GivenUp(more) \cup Positions(s, DOMAIN s)
    BY DEF Followed
  <2>1. p \in Replied(prs) \cup GivenUp(reports) \cup Positions(o, DOMAIN o)
    BY DEF History, Followed
  <2>2. CASE p \in Positions(o, DOMAIN o)
    <3>1. PICK k \in DOMAIN o : o[k].position = p
      BY <2>2 DEF Positions
    <3>2. CASE k \in DOMAIN s
      BY <1>1, <3>1, <3>2 DEF Positions
    <3>3. CASE k \notin DOMAIN s /\ ~o[k].replied
      <4>1. k \in out
        BY <1>1, <1>3, <1>6, <3>1, <3>3 DEF Judged
      <4> QED BY <1>4, <3>1, <4>1 DEF Positions
    <3>4. CASE o[k].replied
      BY <1>6, <3>1, <3>4
    <3> QED BY <3>2, <3>3, <3>4
  <2> QED BY <1>4, <2>1, <2>2
<1> QED BY <1>8, <1>9, <1>10, <1>11 DEF History, more, s, out

-----------------------------------------------------------------------------
LEMMA FiniteHistory ==
  ASSUME NEW lg, NEW reqs, NEW prs, NEW reports, NEW o,
         History(lg, reqs, prs, reports, o)
  PROVE  IsFiniteSet(reqs) /\ \A S \in SUBSET reqs : IsFiniteSet(S) /\ Cardinality(S) \in Nat
<1>1. Len(lg) \in Nat /\ reqs \subseteq 1 .. Len(lg)
  BY HistoryTypes
<1>2. IsFiniteSet(1 .. Len(lg))
  BY <1>1, FS_Interval
<1>3. \A S \in SUBSET reqs : IsFiniteSet(S)
  BY <1>1, <1>2, FS_Subset
<1> QED BY <1>3, FS_CardinalityType

(* Blaming a set of open requests on one side counts as many as it reports. *)
LEMMA BlameCounts ==
  ASSUME NEW lg, NEW reqs, NEW prs, NEW reports, NEW o,
         History(lg, reqs, prs, reports, o),
         NEW S \in SUBSET DOMAIN o, NEW e, NEW side, NEW after, NEW time
  PROVE  Cardinality(OfSide(lg, GivenUp(reports \cup Reports(o, S, after, time)), e, side))
           = Cardinality(OfSide(lg, GivenUp(reports), e, side)) + Blame(S, e, side)
<1> DEFINE B == {k \in S : k.exchange = e /\ k.inbound = side}
           P == {o[k].position : k \in B}
           before == OfSide(lg, GivenUp(reports), e, side)
           all == OfSide(lg, GivenUp(reports \cup Reports(o, S, after, time)), e, side)
<1>1. \A k \in S : /\ o[k].position \in reqs
                   /\ o[k].position \notin GivenUp(reports)
                   /\ k.exchange = KindOf(lg[o[k].position])
                   /\ k.inbound = lg[o[k].position].inbound
  <2> TAKE k \in S
  <2>1. k \in DOMAIN o
    OBVIOUS
  <2> QED BY <2>1, EntryFacts
<1>2. \A k, l \in S : o[k].position = o[l].position => k = l
  <2> TAKE k, l \in S
  <2>1. k \in DOMAIN o /\ l \in DOMAIN o
    OBVIOUS
  <2> QED BY <2>1, OnePosition
<1>3. GivenUp(reports) \subseteq reqs
  BY HistoryTypes
<1>4. all = before \cup P
  <2>1. GivenUp(reports \cup Reports(o, S, after, time)) = GivenUp(reports) \cup Positions(o, S)
    BY GivenUpGrows
  <2>2. OfSide(lg, GivenUp(reports) \cup Positions(o, S), e, side) =
          before \cup {p \in Positions(o, S) : KindOf(lg[p]) = e /\ lg[p].inbound = side}
    BY DEF OfSide, OfKind
  <2>3. {p \in Positions(o, S) : KindOf(lg[p]) = e /\ lg[p].inbound = side} = P
    BY <1>1 DEF Positions
  <2> QED BY <2>1, <2>2, <2>3
<1>5. before \in SUBSET reqs /\ P \in SUBSET reqs /\ before \cap P = {}
  BY <1>1, <1>3 DEF OfSide, OfKind
<1>6. /\ IsFiniteSet(before) /\ IsFiniteSet(P)
      /\ Cardinality(before) \in Nat /\ Cardinality(P) \in Nat
  BY <1>5, FiniteHistory
<1>7. Cardinality(before \cup P) = Cardinality(before) + Cardinality(P)
  <2>1. Cardinality(before \cup P) = Cardinality(before) + Cardinality(P) - Cardinality(before \cap P)
    BY <1>6, FS_Union
  <2>2. Cardinality(before \cap P) = 0
    BY <1>5, FS_EmptySet, Zenon
  <2> HIDE DEF before, P
  <2> QED BY <1>6, <2>1, <2>2
<1>8. Cardinality(P) = Cardinality(B)
  <2> DEFINE f == [k \in B |-> o[k].position]
  <2>1. IsFiniteSet(B)
    <3>1. IsFiniteSet(DOMAIN o)
      BY DEF History, WellFormed
    <3> QED BY <3>1, FS_Subset
  <2>2. f \in Bijection(B, P)
    BY <1>2 DEF Bijection, Injection, Surjection, IsInjective
  <2>3. ExistsBijection(B, P)
    BY <2>2, Zenon DEF ExistsBijection
  <2> HIDE DEF B, P
  <2> QED BY <2>1, <2>3, FS_Bijection
<1>9. Blame(S, e, side) = Cardinality(B)
  BY DEF Blame
<1> HIDE DEF before, P, B, all
<1>10. Cardinality(all) = Cardinality(before) + Blame(S, e, side)
  BY <1>4, <1>7, <1>8, <1>9
<1> QED BY <1>10 DEF all, before

(* Noting a set of open requests tallies their reports. *)
LEMMA NoteTallies ==
  ASSUME NEW lg, NEW reqs, NEW prs, NEW reports, NEW o,
         History(lg, reqs, prs, reports, o),
         NEW S \in SUBSET DOMAIN o, NEW after, NEW time, NEW stats, NEW more,
         Tallied(lg, more, prs, reports, stats)
  PROVE  Tallied(lg, more, prs, reports \cup Reports(o, S, after, time), NoteUnanswered(stats, S))
<1> DEFINE all == reports \cup Reports(o, S, after, time)
<1> SUFFICES ASSUME NEW e \in Exchanges
             PROVE  NoteUnanswered(stats, S)[e] = Counts(lg, more, prs, all, e)
  BY DEF Tallied
<1>1. stats[e] = Counts(lg, more, prs, reports, e)
  BY DEF Tallied
<1>2. \A side : Cardinality(OfSide(lg, GivenUp(all), e, side))
                  = Cardinality(OfSide(lg, GivenUp(reports), e, side)) + Blame(S, e, side)
  BY BlameCounts
<1> HIDE DEF all
<1>3. /\ Cardinality(OfSide(lg, GivenUp(all), e, FALSE))
           = Cardinality(OfSide(lg, GivenUp(reports), e, FALSE)) + Blame(S, e, FALSE)
      /\ Cardinality(OfSide(lg, GivenUp(all), e, TRUE))
           = Cardinality(OfSide(lg, GivenUp(reports), e, TRUE)) + Blame(S, e, TRUE)
  BY <1>2, Zenon
<1>4. NoteUnanswered(stats, S)[e] =
        [opened   |-> stats[e].opened, answered |-> stats[e].answered,
         byPeers  |-> stats[e].byPeers + Blame(S, e, FALSE),
         byUs     |-> stats[e].byUs + Blame(S, e, TRUE)]
  BY DEF NoteUnanswered
<1>5. /\ stats[e].opened = Cardinality(OfKind(lg, more, e))
      /\ stats[e].answered = Cardinality(OfKind(lg, Replied(prs), e))
      /\ stats[e].byPeers = Cardinality(OfSide(lg, GivenUp(reports), e, FALSE))
      /\ stats[e].byUs = Cardinality(OfSide(lg, GivenUp(reports), e, TRUE))
  BY <1>1 DEF Counts
<1> QED BY <1>3, <1>4, <1>5 DEF Counts

(* What observe counts is what it adds to the requests asked and answered. *)
LEMMA ObserveTallies ==
  ASSUME History(log, asked, pairs, silent, open), NEW m \in Messages,
         Tallied(log, asked, pairs, silent, exchanges)
  PROVE  Tallied(Append(log, m), AskedAfter(m), PairsAfter(m), silent, CountObserved(m))
<1> DEFINE lg == Append(log, m)
           a == AnsweredKey(m)
           p0 == open[a].position
<1> SUFFICES ASSUME NEW e \in Exchanges
             PROVE  CountObserved(m)[e] = Counts(lg, AskedAfter(m), PairsAfter(m), silent, e)
  BY DEF Tallied
<1> DEFINE asks == IF Opened(m, e) THEN 1 ELSE 0
           first == IF FirstReply(m) /\ a.exchange = e THEN 1 ELSE 0
<1>1. /\ log \in Seq(Messages) /\ asked \subseteq 1 .. Len(log)
      /\ Replied(pairs) \subseteq asked /\ GivenUp(silent) \subseteq asked
  BY HistoryTypes
<1>2. PICK n \in Nat : n = Len(log) /\ Position = n + 1
  BY <1>1, LogGrows DEF Position
<1>3. (\A p \in asked : lg[p] = log[p] /\ p # n + 1) /\ lg[n + 1] = m
  BY <1>1, <1>2, LogGrows
<1>4. exchanges[e] = Counts(log, asked, pairs, silent, e)
  BY DEF Tallied
<1>5. CountObserved(m)[e] =
        [opened |-> exchanges[e].opened + asks, answered |-> exchanges[e].answered + first,
         byPeers |-> exchanges[e].byPeers, byUs |-> exchanges[e].byUs]
  BY DEF CountObserved
<1> HIDE DEF lg
<1>6. \A S \in SUBSET asked : /\ OfKind(lg, S, e) = OfKind(log, S, e)
                              /\ OfKind(lg, S, e) \in SUBSET asked
  BY <1>3 DEF OfKind
<1>7. Cardinality(OfKind(lg, AskedAfter(m), e)) = Cardinality(OfKind(log, asked, e)) + asks
  <2> DEFINE K == OfKind(log, asked, e)
  <2>1. K \in SUBSET asked /\ OfKind(lg, asked, e) = K
    BY <1>6
  <2>2. IsFiniteSet(K) /\ Cardinality(K) \in Nat
    BY <2>1, FiniteHistory
  <2>3. CASE Opened(m, e)
    <3>1. Registers(m) /\ KindOf(m) = e
      BY <2>3, RequestKind DEF Opened, Registers
    <3>2. AskedAfter(m) = asked \cup {n + 1}
      BY <1>2, <3>1 DEF AskedAfter
    <3>3. OfKind(lg, AskedAfter(m), e) = K \cup {n + 1}
      BY <1>3, <2>1, <3>1, <3>2 DEF OfKind
    <3>4. n + 1 \notin K
      BY <1>3, <2>1
    <3>5. Cardinality(K \cup {n + 1}) = Cardinality(K) + 1
      BY <2>2, <3>4, FS_AddElement
    <3> QED BY <2>3, <3>3, <3>5
  <2>4. CASE ~Opened(m, e)
    <3>1. OfKind(lg, AskedAfter(m), e) = K
      <4>1. CASE Registers(m)
        <5>1. IsRequest(m) /\ KindOf(m) # e
          BY <2>4, <4>1, RequestKind DEF Opened, Registers
        <5>2. AskedAfter(m) = asked \cup {n + 1}
          BY <1>2, <4>1 DEF AskedAfter
        <5> QED BY <1>3, <2>1, <5>1, <5>2 DEF OfKind
      <4>2. CASE ~Registers(m)
        BY <2>1, <4>2 DEF AskedAfter
      <4> QED BY <4>1, <4>2
    <3> QED BY <2>2, <2>4, <3>1
  <2> QED BY <2>3, <2>4
<1>8. Cardinality(OfKind(lg, Replied(PairsAfter(m)), e))
        = Cardinality(OfKind(log, Replied(pairs), e)) + first
  <2> DEFINE R == OfKind(log, Replied(pairs), e)
  <2>1. R \in SUBSET asked /\ OfKind(lg, Replied(pairs), e) = R
    BY <1>1, <1>6
  <2>2. IsFiniteSet(R) /\ Cardinality(R) \in Nat
    BY <2>1, FiniteHistory
  <2>3. CASE ~Answered(m)
    <3>1. PairsAfter(m) = pairs /\ ~FirstReply(m)
      BY <2>3 DEF PairsAfter, FirstReply
    <3> QED BY <2>1, <2>2, <3>1
  <2>4. CASE Answered(m)
    <3>1. Replied(PairsAfter(m)) = Replied(pairs) \cup {p0}
      BY <1>2, <2>4, RepliedGrows DEF PairsAfter
    <3>2. a \in DOMAIN open
      BY <2>4, ReplyEffect DEF History
    <3>3. /\ p0 \in asked /\ a.exchange = KindOf(log[p0])
          /\ open[a].replied \in BOOLEAN
          /\ open[a].replied <=> p0 \in Replied(pairs)
          /\ open[a].replied => Table[a.exchange].multi
      BY <3>2, EntryFacts
    <3>4. FirstReply(m) <=> p0 \notin Replied(pairs)
      BY <2>4, <3>3 DEF FirstReply
    <3>5. OfKind(lg, Replied(pairs) \cup {p0}, e) =
            IF a.exchange = e THEN R \cup {p0} ELSE R
      BY <1>3, <2>1, <3>3 DEF OfKind
    <3>6. CASE a.exchange = e
      <4>1. p0 \in R <=> p0 \in Replied(pairs)
        BY <3>3, <3>6 DEF OfKind
      <4>2. Cardinality(R \cup {p0}) = IF p0 \in R THEN Cardinality(R) ELSE Cardinality(R) + 1
        BY <2>2, FS_AddElement
      <4> QED BY <2>2, <3>1, <3>4, <3>5, <3>6, <4>1, <4>2
    <3>7. CASE a.exchange # e
      <4> QED BY <2>2, <3>1, <3>5, <3>7
    <3> QED BY <3>6, <3>7
  <2> QED BY <2>3, <2>4
<1>9. \A side : OfSide(lg, GivenUp(silent), e, side) = OfSide(log, GivenUp(silent), e, side)
  BY <1>1, <1>3 DEF OfSide, OfKind
<1>10. /\ exchanges[e].opened = Cardinality(OfKind(log, asked, e))
       /\ exchanges[e].answered = Cardinality(OfKind(log, Replied(pairs), e))
       /\ exchanges[e].byPeers = Cardinality(OfSide(log, GivenUp(silent), e, FALSE))
       /\ exchanges[e].byUs = Cardinality(OfSide(log, GivenUp(silent), e, TRUE))
  BY <1>4 DEF Counts
<1> HIDE DEF asks, first
<1>11. CountObserved(m)[e] =
         [opened   |-> Cardinality(OfKind(lg, AskedAfter(m), e)),
          answered |-> Cardinality(OfKind(lg, Replied(PairsAfter(m)), e)),
          byPeers  |-> Cardinality(OfSide(lg, GivenUp(silent), e, FALSE)),
          byUs     |-> Cardinality(OfSide(lg, GivenUp(silent), e, TRUE))]
  <2>1. /\ OfSide(lg, GivenUp(silent), e, FALSE) = OfSide(log, GivenUp(silent), e, FALSE)
        /\ OfSide(lg, GivenUp(silent), e, TRUE) = OfSide(log, GivenUp(silent), e, TRUE)
    BY <1>9, Zenon
  <2> QED BY <1>5, <1>7, <1>8, <1>10, <2>1
<1> QED BY <1>11 DEF Counts

-----------------------------------------------------------------------------
(* What is open after a message was open before it, or is the message. *)
LEMMA ObserveOrigins ==
  ASSUME WellFormed(open), NEW m \in Messages, NEW position
  PROVE  /\ \A k \in DOMAIN AfterObserve(m, position) :
              \/ /\ AfterObserve(m, position)[k].position = position
                 /\ AfterObserve(m, position)[k].timestamp = m.timestamp
              \/ /\ k \in DOMAIN open
                 /\ AfterObserve(m, position)[k].position = open[k].position
                 /\ AfterObserve(m, position)[k].timestamp = open[k].timestamp
         /\ Registers(m) => /\ OpenedKey(m) \in DOMAIN AfterObserve(m, position)
                            /\ AfterObserve(m, position)[OpenedKey(m)].position = position
                            /\ AfterObserve(m, position)[OpenedKey(m)].timestamp = m.timestamp
<1> DEFINE o1 == AfterReply(m)
           o2 == AfterObserve(m, position)
<1>1. \A k \in DOMAIN o1 : /\ k \in DOMAIN open
                           /\ o1[k].position = open[k].position
                           /\ o1[k].timestamp = open[k].timestamp
  BY ReplyEffect
<1>2. CASE ~Registers(m)
  <2>1. o2 = o1
    BY <1>2 DEF AfterObserve
  <2> QED BY <1>1, <1>2, <2>1
<1>3. CASE Registers(m)
  <2> DEFINE fresh == [position |-> position, timestamp |-> m.timestamp, replied |-> FALSE]
  <2>1. /\ DOMAIN o2 = DOMAIN o1 \cup {OpenedKey(m)}
        /\ o2[OpenedKey(m)] = fresh
        /\ \A k \in DOMAIN o1 : k # OpenedKey(m) => o2[k] = o1[k]
    BY <1>3 DEF AfterObserve
  <2>2. o2[OpenedKey(m)].position = position /\ o2[OpenedKey(m)].timestamp = m.timestamp
    BY <2>1
  <2> QED BY <1>1, <1>3, <2>1, <2>2
<1> QED BY <1>2, <1>3

(* No window is so short that a request outlives it at once. *)
LEMMA AgeZero ==
  ASSUME NEW m \in Messages, NEW e \in Exchanges
  PROVE  ~(Age(m.timestamp, m.timestamp) > Table[e].window)
         /\ Age(m.timestamp, m.timestamp) <= Table[e].window
<1>1. m.timestamp \in Nat /\ Table[e].window \in Nat
  BY MessagesAssumption, BoundsAssumption, TableRows DEF Rows
<1> QED BY <1>1 DEF Age

(* The two halves of a message, without the sweep at its end. *)
LEMMA ObserveStep ==
  ASSUME HInv, NEW m \in Messages
  PROVE  /\ Len(Append(log, m)) = Position
         /\ History(Append(log, m), AskedAfter(m), PairsAfter(m), SilentAfter(m),
                    AfterObserve(m, Position))
         /\ Tallied(Append(log, m), AskedAfter(m), PairsAfter(m), SilentAfter(m), Noted(m))
         /\ Fresh(Append(log, m), sinceSweep + 1, AfterObserve(m, Position))
<1> DEFINE lg == Append(log, m)
           o2 == AfterObserve(m, Position)
<1>1. History(log, asked, pairs, silent, open) /\ WellFormed(open)
  BY DEF HInv, History
<1>2. log \in Seq(Messages) /\ asked \subseteq 1 .. Len(log)
  BY <1>1, HistoryTypes
<1>3. PICK n \in Nat : n = Len(log) /\ Position = n + 1
  BY <1>2, LogGrows DEF Position
<1>4. /\ Len(lg) = n + 1 /\ lg[n + 1] = m
      /\ \A p \in 1 .. n : lg[p] = log[p]
  BY <1>2, <1>3, LogGrows
<1>5. History(lg, asked, PairsAfter(m), silent, AfterReply(m))
  BY <1>1, ReplyKeepsHistory
<1>6. History(lg, AskedAfter(m), PairsAfter(m), SilentAfter(m), o2)
  BY <1>2, <1>5, ObserveKeepsHistory
<1>7. Tallied(lg, AskedAfter(m), PairsAfter(m), SilentAfter(m), Noted(m))
  <2>1. Tallied(lg, AskedAfter(m), PairsAfter(m), silent, CountObserved(m))
    BY <1>1, ObserveTallies DEF HInv
  <2>2. Displaced(m) \in SUBSET DOMAIN AfterReply(m)
    BY DEF Displaced
  <2> QED BY <1>5, <2>1, <2>2, NoteTallies DEF SilentAfter, Noted
<1>8. Fresh(lg, sinceSweep + 1, o2)
  <2>1. \A k \in DOMAIN o2 :
          \/ o2[k].timestamp = m.timestamp
          \/ k \in DOMAIN open /\ o2[k].timestamp = open[k].timestamp
    BY <1>1, ObserveOrigins
  <2>2. WellFormed(o2)
    BY <1>6 DEF History
  <2> HIDE DEF lg, o2
  <2> SUFFICES ASSUME NEW k \in DOMAIN o2
               PROVE  \E j \in 1 .. Len(lg) :
                        /\ j >= Len(lg) - (sinceSweep + 1)
                        /\ Age(lg[j].timestamp, o2[k].timestamp) <= Table[k.exchange].window
    BY DEF Fresh
  <2>3. sinceSweep \in Nat
    BY DEF HInv, IInv, TypeOK
  <2>4. k.exchange \in Exchanges
    BY <2>2 DEF WellFormed, Keys
  <2>5. CASE o2[k].timestamp = m.timestamp
    <3>1. Age(lg[n + 1].timestamp, o2[k].timestamp) <= Table[k.exchange].window
      BY <1>4, <2>4, <2>5, AgeZero
    <3>2. n + 1 \in 1 .. Len(lg) /\ n + 1 >= Len(lg) - (sinceSweep + 1)
      BY <1>4, <2>3
    <3> QED BY <3>1, <3>2
  <2>6. CASE k \in DOMAIN open /\ o2[k].timestamp = open[k].timestamp
    <3>1. PICK j \in 1 .. n : /\ j >= n - sinceSweep
                              /\ Age(log[j].timestamp, open[k].timestamp) <= Table[k.exchange].window
      BY <1>3, <2>6 DEF HInv, Fresh
    <3>2. lg[j] = log[j]
      BY <1>4
    <3>3. j \in 1 .. Len(lg) /\ j >= Len(lg) - (sinceSweep + 1)
      BY <1>4, <2>3, <3>1
    <3> QED BY <2>6, <3>1, <3>2, <3>3
  <2> QED BY <2>1, <2>5, <2>6
<1> QED BY <1>3, <1>4, <1>6, <1>7, <1>8

(* One message, with or without the periodic sweep. *)
LEMMA MessageKeepsHistory ==
  ASSUME HInv, NEW m \in Messages, HMessage(m)
  PROVE  HInv'
<1> DEFINE lg == Append(log, m)
           o2 == AfterObserve(m, Position)
           now == m.timestamp
<1>1. /\ Len(lg) = Position
      /\ History(lg, AskedAfter(m), PairsAfter(m), SilentAfter(m), o2)
      /\ Tallied(lg, AskedAfter(m), PairsAfter(m), SilentAfter(m), Noted(m))
      /\ Fresh(lg, sinceSweep + 1, o2)
  BY ObserveStep
<1>2. log' = lg /\ asked' = AskedAfter(m) /\ pairs' = PairsAfter(m)
  BY DEF HMessage, AskedAfter, PairsAfter
<1>3. sinceSweep \in Nat /\ SweepEvery \in Nat /\ SweepEvery > 0
  BY BoundsAssumption DEF HInv, IInv, TypeOK
<1>4. Position \in Nat /\ Position >= 1 /\ lg[Position] = m
  <2>1. log \in Seq(Messages)
    BY HistoryTypes DEF HInv
  <2> QED BY <2>1, LogGrows DEF Position
<1>5. IInv'
  BY <1>4, MessageStep DEF HInv, HMessage
<1>6. now \in Nat
  BY MessagesAssumption, BoundsAssumption
<1>7. CASE sinceSweep + 1 >= SweepEvery
  <2> DEFINE out == TimedOut(o2, now)
  <2>1. /\ sinceSweep' = 0 /\ open' = Swept(o2, now)
        /\ exchanges' = NoteUnanswered(Noted(m), out)
    BY <1>7 DEF HMessage, Message
  <2>2. silent' = SilentAfter(m) \cup Reports(o2, out, Position, now)
    BY <2>1 DEF HMessage, SilentAfter
  <2>3. History(lg, AskedAfter(m), PairsAfter(m), silent', Swept(o2, now))
    BY <1>1, <1>6, <2>2, SweepKeepsHistory
  <2>4. Tallied(lg, AskedAfter(m), PairsAfter(m), silent', NoteUnanswered(Noted(m), out))
    <3>1. out \in SUBSET DOMAIN o2
      BY DEF TimedOut, Overdue
    <3> QED BY <1>1, <2>2, <3>1, NoteTallies
  <2>5. Fresh(lg, 0, Swept(o2, now))
    <3> SUFFICES ASSUME NEW k \in DOMAIN Swept(o2, now)
                 PROVE  Age(now, Swept(o2, now)[k].timestamp) <= Table[k.exchange].window
      <4>1. Position \in 1 .. Len(lg) /\ Position >= Len(lg) - 0
        BY <1>1, <1>4
      <4> QED BY <1>4, <4>1 DEF Fresh
    <3>1. /\ k \in DOMAIN o2 /\ Swept(o2, now)[k] = o2[k]
          /\ ~(Age(now, o2[k].timestamp) > Table[k.exchange].window)
      BY DEF Swept, Restrict, Overdue
    <3>2. o2[k].timestamp \in Nat /\ Table[k.exchange].window \in Nat
      <4>1. o2[k].timestamp \in Times /\ k \in Keys
        BY <1>1, <3>1 DEF History, WellFormed, Pending
      <4> QED BY <4>1, BoundsAssumption, TableRows DEF Keys, Rows
    <3>3. Age(now, o2[k].timestamp) \in Nat
      BY <1>6, <3>2 DEF Age
    <3> QED BY <3>1, <3>2, <3>3
  <2> HIDE DEF lg, o2, out, now
  <2> QED BY <1>2, <1>3, <1>5, <2>1, <2>3, <2>4, <2>5 DEF HInv
<1>8. CASE ~(sinceSweep + 1 >= SweepEvery)
  <2>1. sinceSweep' = sinceSweep + 1 /\ open' = o2 /\ exchanges' = Noted(m)
    BY <1>8 DEF HMessage, Message
  <2>2. sinceSweep' # 0
    BY <1>3, <2>1
  <2>3. silent' = SilentAfter(m)
    BY <2>2 DEF HMessage, SilentAfter
  <2>4. sinceSweep' < SweepEvery
    BY <1>3, <1>8, <2>1
  <2> HIDE DEF lg, o2, now
  <2> QED BY <1>1, <1>2, <1>5, <2>1, <2>3, <2>4 DEF HInv
<1> QED BY <1>7, <1>8

-----------------------------------------------------------------------------
(* A file boundary sweeps, or changes nothing the history speaks of. *)
FileSweeps ==
  /\ SweepAtEnd
  /\ silent' = silent \cup Reports(open, TimedOut(open, lastTimestamp), Len(log), lastTimestamp)
FileLeaves == UNCHANGED <<open, exchanges, silent>>

LEMMA FileCases ==
  ASSUME HFile
  PROVE  /\ FileSweeps \/ FileLeaves
         /\ UNCHANGED <<log, asked, pairs, sinceSweep>>
<1>1. UNCHANGED <<log, asked, pairs, sinceSweep>>
  BY DEF HFile, BeginFile, EndFile, FailFile
<1>2. SweepAtEnd \/ UNCHANGED <<open, exchanges>>
  BY DEF HFile, BeginFile, EndFile, FailFile
<1>3. CASE UNCHANGED <<open, exchanges>>
  BY <1>1, <1>3 DEF HFile, FileLeaves
<1>4. CASE SweepAtEnd
  <2>1. CASE open' = open
    <3>1. Overdue(open, lastTimestamp) = {}
      <4>1. DOMAIN Swept(open, lastTimestamp) = DOMAIN open \ Overdue(open, lastTimestamp)
        BY DEF Swept, Restrict
      <4>2. DOMAIN open \ Overdue(open, lastTimestamp) = DOMAIN open
        BY <1>4, <2>1, <4>1 DEF SweepAtEnd
      <4> QED BY <4>2 DEF Overdue
    <3>2. TimedOut(open, lastTimestamp) = {}
      BY <3>1 DEF TimedOut
    <3>3. Reports(open, TimedOut(open, lastTimestamp), Len(log), lastTimestamp) = {}
      BY <3>2 DEF Reports
    <3>4. silent' = silent
      BY <2>1 DEF HFile
    <3> QED BY <1>1, <1>4, <3>3, <3>4 DEF FileSweeps
  <2>2. CASE open' # open
    BY <1>1, <1>4, <2>2 DEF HFile, FileSweeps
  <2> QED BY <2>1, <2>2
<1> QED BY <1>1, <1>2, <1>3, <1>4

LEMMA FileKeepsHistory ==
  ASSUME HInv, HFile
  PROVE  HInv'
<1>1. IInv'
  BY OtherStep DEF HInv, HFile
<1>2. UNCHANGED <<log, asked, pairs, sinceSweep>>
  BY FileCases
<1>3. CASE FileLeaves
  BY <1>1, <1>2, <1>3 DEF HInv, FileLeaves
<1>4. CASE FileSweeps
  <2> DEFINE out == TimedOut(open, lastTimestamp)
  <2>1. lastTimestamp \in Nat
    BY DEF HInv, IInv, TypeOK
  <2>2. /\ open' = Swept(open, lastTimestamp)
        /\ exchanges' = NoteUnanswered(exchanges, out)
        /\ silent' = silent \cup Reports(open, out, Len(log), lastTimestamp)
    BY <1>4 DEF FileSweeps, SweepAtEnd
  <2>3. History(log, asked, pairs, silent', Swept(open, lastTimestamp))
    BY <2>1, <2>2, SweepKeepsHistory DEF HInv
  <2>4. Tallied(log, asked, pairs, silent', NoteUnanswered(exchanges, out))
    <3>1. out \in SUBSET DOMAIN open
      BY DEF TimedOut, Overdue
    <3> QED BY <2>2, <3>1, NoteTallies DEF HInv
  <2>5. Fresh(log, sinceSweep, Swept(open, lastTimestamp))
    <3>1. \A k \in DOMAIN Swept(open, lastTimestamp) :
            k \in DOMAIN open /\ Swept(open, lastTimestamp)[k] = open[k]
      BY DEF Swept, Restrict
    <3> QED BY <3>1 DEF HInv, Fresh
  <2>6. sinceSweep' < SweepEvery
    BY <1>2 DEF HInv
  <2> HIDE DEF out
  <2> QED BY <1>1, <1>2, <2>2, <2>3, <2>4, <2>5, <2>6 DEF HInv
<1> QED BY <1>3, <1>4, FileCases

LEMMA HistoryInit == HInit => HInv
<1> SUFFICES ASSUME HInit PROVE HInv
  OBVIOUS
<1>1. IInv
  BY InitStep DEF HInit
<1>2. /\ log = <<>> /\ asked = {} /\ pairs = {} /\ silent = {}
      /\ open = [k \in {} |-> k] /\ DOMAIN open = {} /\ sinceSweep = 0
      /\ exchanges = [e \in Exchanges |-> [opened |-> 0, answered |-> 0, byPeers |-> 0, byUs |-> 0]]
  BY DEF HInit, Init
<1>3. History(log, asked, pairs, silent, open)
  <2>1. WellFormed(open)
    BY <1>1 DEF IInv
  <2>2. AskedInLog(log, asked)
    BY <1>2 DEF AskedInLog
  <2> QED BY <1>2, <2>1, <2>2 DEF History, Plausible, Proven, Entries, Followed
<1>4. Tallied(log, asked, pairs, silent, exchanges)
  <2> SUFFICES ASSUME NEW e \in Exchanges
               PROVE  exchanges[e] = Counts(log, asked, pairs, silent, e)
    BY DEF Tallied
  <2>1. Replied(pairs) = {} /\ GivenUp(silent) = {}
    BY <1>2 DEF Replied, GivenUp
  <2>2. /\ OfKind(log, asked, e) = {} /\ OfKind(log, Replied(pairs), e) = {}
        /\ \A side : OfSide(log, GivenUp(silent), e, side) = {}
    BY <1>2, <2>1 DEF OfKind, OfSide
  <2>3. /\ OfSide(log, GivenUp(silent), e, FALSE) = {}
        /\ OfSide(log, GivenUp(silent), e, TRUE) = {}
    BY <2>2, Zenon
  <2>4. Counts(log, asked, pairs, silent, e) = [opened |-> 0, answered |-> 0, byPeers |-> 0, byUs |-> 0]
    BY <2>2, <2>3, FS_EmptySet DEF Counts
  <2> QED BY <1>2, <2>4
<1>5. sinceSweep < SweepEvery /\ Fresh(log, sinceSweep, open)
  BY <1>2, BoundsAssumption DEF Fresh
<1> QED BY <1>1, <1>3, <1>4, <1>5 DEF HInv

(* The history's invariant, along every interleaving of messages, other
   events and file boundaries. *)
THEOREM HistoryInvariant == HSpec => []HInv
<1>1. HInv /\ [HNext]_hvars => HInv'
  <2> SUFFICES ASSUME HInv, [HNext]_hvars PROVE HInv'
    OBVIOUS
  <2>1. ASSUME NEW m \in Messages, HMessage(m) PROVE HInv'
    BY <2>1, MessageKeepsHistory
  <2>2. ASSUME NEW t \in Times, HOtherEvent(t) PROVE HInv'
    <3>1. IInv'
      BY <2>2, OtherStep DEF HInv, HOtherEvent
    <3> QED BY <2>2, <3>1 DEF HInv, HOtherEvent, OtherEvent
  <2>3. CASE HFile
    BY <2>3, FileKeepsHistory
  <2>4. CASE UNCHANGED hvars
    <3>1. IInv'
      BY <2>4, OtherStep DEF HInv, hvars
    <3> QED BY <2>4, <3>1 DEF HInv, hvars, vars
  <2> QED BY <2>1, <2>2, <2>3, <2>4 DEF HNext
<1> QED BY <1>1, HistoryInit, PTL DEF HSpec

-----------------------------------------------------------------------------
(* The names the properties use for what the invariant speaks of. *)
LEMMA Names ==
  ASSUME NEW p
  PROVE  /\ KeyOf(p) = OpenedKey(log[p])
         /\ ExchangeOf(p) = KindOf(log[p])
         /\ \A j : Answers(j, p) <=> j > p /\ CouldAnswer(log[j], log[p])
<1>1. KeyOf(p) = OpenedKey(log[p])
  BY DEF KeyOf, ExchangeOf, OpenedKey
<1>2. ExchangeOf(p) = KindOf(log[p])
  BY <1>1 DEF KindOf, KeyOf, RequestKey
<1>3. \A j : Answers(j, p) <=> j > p /\ CouldAnswer(log[j], log[p])
  BY <1>2 DEF Answers, CouldAnswer, SinceAsked, WindowOf
<1> QED BY <1>1, <1>2, <1>3

LEMMA PairsFollow == HInv => PairsArePlausible
<1> SUFFICES ASSUME HInv, NEW pair \in pairs
             PROVE  /\ pair.request \in asked
                    /\ Answers(pair.reply, pair.request)
                    /\ \A q \in asked :
                         q > pair.request /\ q < pair.reply => KeyOf(q) # KeyOf(pair.request)
                    /\ ~Table[ExchangeOf(pair.request)].multi =>
                         \A other \in pairs : other.request = pair.request => other = pair
  BY DEF PairsArePlausible
<1>1. /\ pair.request \in asked
      /\ pair.reply \in pair.request + 1 .. Len(log)
      /\ CouldAnswer(log[pair.reply], log[pair.request])
      /\ \A q \in asked : q > pair.request /\ q < pair.reply =>
                            OpenedKey(log[q]) # OpenedKey(log[pair.request])
      /\ ~Table[KindOf(log[pair.request])].multi =>
           \A other \in pairs : other.request = pair.request => other = pair
  BY DEF HInv, History, Plausible
<1>2. pair.reply > pair.request
  <2>1. PICK n \in Nat : n = Len(log) /\ asked \subseteq 1 .. n
    BY HistoryTypes DEF HInv
  <2>2. PICK r \in 1 .. n : r = pair.request
    BY <1>1, <2>1
  <2>3. pair.reply \in r + 1 .. n
    BY <1>1, <2>1, <2>2
  <2>4. pair.reply > r
    BY <2>3
  <2> QED BY <2>2, <2>4
<1>3. Answers(pair.reply, pair.request)
  BY <1>1, <1>2, Names
<1>4. \A q \in asked : q > pair.request /\ q < pair.reply => KeyOf(q) # KeyOf(pair.request)
  BY <1>1, Names
<1>5. ExchangeOf(pair.request) = KindOf(log[pair.request])
  BY Names
<1> QED BY <1>1, <1>3, <1>4, <1>5

LEMMA SilencesFollow == HInv => SilenceIsProven
<1> SUFFICES ASSUME HInv, NEW report \in silent
             PROVE  LET p == report.request IN
                    /\ \/ SinceAsked(p, report.time) > WindowOf(p)
                       \/ /\ report.after \in asked
                          /\ report.after > p
                          /\ KeyOf(report.after) = KeyOf(p)
                          /\ Judged(ExchangeOf(p))
                    /\ \A j \in p + 1 .. report.after :
                         Answers(j, p) =>
                           \E pair \in pairs :
                             /\ pair.reply = j
                             /\ pair.request # p
                             /\ log[pair.request].timestamp <= log[p].timestamp
  BY DEF SilenceIsProven
<1> DEFINE p == report.request
<1>1. Justified(log, asked, report) /\ PassedOver(log, pairs, p, report.after)
  BY DEF HInv, History, Proven
<1>2. ExchangeOf(p) = KindOf(log[p]) /\ KeyOf(p) = OpenedKey(log[p])
  BY Names
<1>3. KeyOf(report.after) = OpenedKey(log[report.after])
  BY Names
<1>4. \A j : Answers(j, p) => CouldAnswer(log[j], log[p])
  BY Names
<1>5. \/ SinceAsked(p, report.time) > WindowOf(p)
      \/ /\ report.after \in asked
         /\ report.after > p
         /\ KeyOf(report.after) = KeyOf(p)
         /\ Judged(ExchangeOf(p))
  BY <1>1, <1>2, <1>3 DEF Justified, SinceAsked, WindowOf
<1> QED BY <1>1, <1>4, <1>5 DEF PassedOver

(* The names of fates, too. *)
LEMMA FateNames ==
  ASSUME HInv, NEW p \in asked
  PROVE  /\ IsAnswered(p) <=> p \in Replied(pairs)
         /\ IsSilent(p) <=> p \in GivenUp(silent)
         /\ IsOpen(p) <=> p \in Positions(open, DOMAIN open)
<1>1. IsAnswered(p) <=> p \in Replied(pairs)
  BY DEF IsAnswered, Replied
<1>2. IsSilent(p) <=> p \in GivenUp(silent)
  BY DEF IsSilent, GivenUp
<1>3. KeyOf(p) = OpenedKey(log[p])
  BY Names
<1>4. \A k \in DOMAIN open : k = OpenedKey(log[open[k].position])
  BY DEF HInv, History, Entries, OpenEntry
<1>5. IsOpen(p) <=> p \in Positions(open, DOMAIN open)
  BY <1>3, <1>4 DEF IsOpen, Positions
<1> QED BY <1>1, <1>2, <1>5

LEMMA NoneIsLost == HInv => EverySilenceIsReported
<1> SUFFICES ASSUME HInv, Overdue(open, lastTimestamp) = {},
                    NEW p \in asked, Judged(ExchangeOf(p)),
                    SinceAsked(p, lastTimestamp) > WindowOf(p)
             PROVE  IsAnswered(p) \/ IsSilent(p)
  BY DEF EverySilenceIsReported
<1>1. ExchangeOf(p) = KindOf(log[p])
  BY Names
<1>2. p \in Replied(pairs) \cup GivenUp(silent) \cup Positions(open, DOMAIN open)
  BY <1>1 DEF HInv, History, Followed
<1>3. p \notin Positions(open, DOMAIN open)
  <2> SUFFICES ASSUME NEW k \in DOMAIN open, open[k].position = p
               PROVE  FALSE
    BY DEF Positions
  <2>1. k.exchange = KindOf(log[p]) /\ open[k].timestamp = log[p].timestamp
    BY EntryFacts DEF HInv
  <2>2. Age(lastTimestamp, open[k].timestamp) > Table[k.exchange].window
    BY <1>1, <2>1 DEF SinceAsked, WindowOf
  <2> QED BY <2>2 DEF Overdue
<1> QED BY <1>2, <1>3, FateNames

LEMMA SweepIsNear == HInv => OverdueIsSweptSoon
<1> SUFFICES ASSUME HInv, NEW k \in DOMAIN open, Len(log) >= SweepEvery
             PROVE  \E j \in Len(log) - SweepEvery + 1 .. Len(log) :
                      Age(log[j].timestamp, open[k].timestamp) <= Table[k.exchange].window
  BY DEF OverdueIsSweptSoon
<1>1. PICK j \in 1 .. Len(log) :
        /\ j >= Len(log) - sinceSweep
        /\ Age(log[j].timestamp, open[k].timestamp) <= Table[k.exchange].window
  BY DEF HInv, Fresh
<1>2. Len(log) \in Nat
  BY HistoryTypes DEF HInv
<1>3. sinceSweep \in Nat /\ SweepEvery \in Nat /\ sinceSweep < SweepEvery
  BY BoundsAssumption DEF HInv, IInv, TypeOK
<1>4. j \in Len(log) - SweepEvery + 1 .. Len(log)
  BY <1>1, <1>2, <1>3
<1> QED BY <1>1, <1>4

(* Every pair the tracker reports joins a request to a message that can answer
   it, with no newer request of the same key between them, and a request with
   one reply is paired once. *)
THEOREM PairsPlausible == HSpec => []PairsArePlausible
BY HistoryInvariant, PairsFollow, PTL

(* No request is reported unanswered while its answer could still come, or
   when a message that could have answered it was free to. *)
THEOREM SilenceProven == HSpec => []SilenceIsProven
BY HistoryInvariant, SilencesFollow, PTL

(* After the last sweep no request of a judged exchange whose window passed
   unanswered goes unreported. *)
THEOREM SilenceReported == HSpec => []EverySilenceIsReported
BY HistoryInvariant, NoneIsLost, PTL

(* Among the latest SweepEvery messages there is always one within the window
   of each open request. *)
THEOREM SweptSoon == HSpec => []OverdueIsSweptSoon
BY HistoryInvariant, SweepIsNear, PTL

(* The tracker's own guarantees, for archives with their history. *)
THEOREM HistoryTypeCorrect == HSpec => []TypeOK
BY HistoryInvariant, PTL DEF HInv, IInv

THEOREM HistorySettledOnce == HSpec => []EveryRequestSettledOnce
BY HistoryInvariant, PTL DEF HInv, IInv

THEOREM HistoryLatencyAgrees == HSpec => []LatencySamplesMatchAnswers
BY HistoryInvariant, PTL DEF HInv, IInv

-----------------------------------------------------------------------------
(* The refinement: the requests and their fates as the ledger sees them. *)
FateIn(prs, reports, o, p) ==
  IF p \in Replied(prs) THEN "answered"
  ELSE IF p \in GivenUp(reports) THEN "unanswered"
  ELSE IF p \in Positions(o, DOMAIN o) THEN "waiting"
  ELSE "undetermined"

RequestsIn(lg, reqs, prs, reports, o) ==
  [p \in reqs |-> [exchange |-> KindOf(lg[p]), inbound |-> lg[p].inbound,
                   fate |-> FateIn(prs, reports, o, p)]]

LEMMA LedgerView == HInv => LedgerRequests = RequestsIn(log, asked, pairs, silent, open)
<1> SUFFICES ASSUME HInv, NEW p \in asked
             PROVE  ExchangeOf(p) = KindOf(log[p]) /\ Fate(p) = FateIn(pairs, silent, open, p)
  BY DEF LedgerRequests, RequestsIn
<1>1. ExchangeOf(p) = KindOf(log[p])
  BY Names
<1>2. Fate(p) = FateIn(pairs, silent, open, p)
  <2>1. CASE IsAnswered(p)
    BY <2>1, FateNames DEF Fate, FateIn
  <2>2. CASE ~IsAnswered(p) /\ IsSilent(p)
    BY <2>2, FateNames DEF Fate, FateIn
  <2>3. CASE ~IsAnswered(p) /\ ~IsSilent(p) /\ IsOpen(p)
    BY <2>3, FateNames DEF Fate, FateIn
  <2>4. CASE ~IsAnswered(p) /\ ~IsSilent(p) /\ ~IsOpen(p)
    BY <2>4, FateNames DEF Fate, FateIn
  <2> QED BY <2>1, <2>2, <2>3, <2>4
<1> QED BY <1>1, <1>2

LEMMA FateFacts ==
  ASSUME NEW prs, NEW reports, NEW o, NEW p, p \notin Replied(prs) \cap GivenUp(reports)
  PROVE  /\ FateIn(prs, reports, o, p) \in Ledger!Fates
         /\ FateIn(prs, reports, o, p) = "answered" <=> p \in Replied(prs)
         /\ FateIn(prs, reports, o, p) = "unanswered" <=> p \in GivenUp(reports)
         /\ FateIn(prs, reports, o, p) = "waiting" <=>
              p \in Positions(o, DOMAIN o) \ (Replied(prs) \cup GivenUp(reports))
<1>1. CASE p \in Replied(prs)
  BY <1>1 DEF FateIn, Ledger!Fates
<1>2. CASE p \in GivenUp(reports) /\ p \notin Replied(prs)
  BY <1>2 DEF FateIn, Ledger!Fates
<1>3. CASE p \notin GivenUp(reports) /\ p \notin Replied(prs)
  BY <1>3 DEF FateIn, Ledger!Fates
<1> QED BY <1>1, <1>2, <1>3

(* The instance counts as its host does. *)
LEMMA LedgerCardinality == \A S : Ledger!Cardinality(S) = Cardinality(S)
BY DEF Ledger!Cardinality, Cardinality, Ledger!IsFiniteSet, IsFiniteSet

(* The tallies of a history are those of its ledger. *)
LEMMA LedgerTally ==
  ASSUME NEW lg, NEW reqs, NEW prs, NEW reports, NEW o,
         History(lg, reqs, prs, reports, o), NEW e
  PROVE  Ledger!Tally(RequestsIn(lg, reqs, prs, reports, o), e) = Counts(lg, reqs, prs, reports, e)
<1> DEFINE rs == RequestsIn(lg, reqs, prs, reports, o)
<1>1. /\ Replied(prs) \subseteq reqs /\ GivenUp(reports) \subseteq reqs
      /\ Replied(prs) \cap GivenUp(reports) = {}
      /\ \A p \in reqs : lg[p].inbound \in BOOLEAN
  <2>1. \A p \in reqs : lg[p] \in Messages
    BY HistoryTypes
  <2>2. \A p \in reqs : lg[p].inbound \in BOOLEAN
    BY <2>1, MessagesAssumption
  <2> QED BY <2>2, HistoryTypes
<1>2. DOMAIN rs = reqs
  BY DEF RequestsIn
<1>3. \A p \in reqs : /\ rs[p].exchange = KindOf(lg[p])
                      /\ rs[p].inbound = lg[p].inbound
                      /\ rs[p].fate = FateIn(prs, reports, o, p)
  BY DEF RequestsIn
<1>4. \A p \in reqs : /\ rs[p].fate \in Ledger!Fates
                      /\ rs[p].fate = "answered" <=> p \in Replied(prs)
                      /\ rs[p].fate = "unanswered" <=> p \in GivenUp(reports)
  <2> TAKE p \in reqs
  <2>1. p \notin Replied(prs) \cap GivenUp(reports)
    BY <1>1
  <2> QED BY <1>3, <2>1, FateFacts
<1> HIDE DEF rs
<1>5. Ledger!Having(rs, e, Ledger!Fates) = OfKind(lg, reqs, e)
  BY <1>2, <1>3, <1>4 DEF OfKind, Ledger!Having
<1>6. Ledger!Having(rs, e, {"answered"}) = OfKind(lg, Replied(prs), e)
  BY <1>1, <1>2, <1>3, <1>4 DEF OfKind, Ledger!Having
<1>7. Ledger!Having(rs, e, {"unanswered"}) = OfKind(lg, GivenUp(reports), e)
  BY <1>1, <1>2, <1>3, <1>4 DEF OfKind, Ledger!Having
<1>8. {p \in Ledger!Having(rs, e, {"unanswered"}) : ~rs[p].inbound} = OfSide(lg, GivenUp(reports), e, FALSE)
  <2>1. \A p \in GivenUp(reports) : ~rs[p].inbound <=> lg[p].inbound = FALSE
    BY <1>1, <1>3
  <2> QED BY <1>7, <2>1 DEF OfSide, OfKind
<1>9. {p \in Ledger!Having(rs, e, {"unanswered"}) : rs[p].inbound} = OfSide(lg, GivenUp(reports), e, TRUE)
  <2>1. \A p \in GivenUp(reports) : rs[p].inbound <=> lg[p].inbound = TRUE
    BY <1>1, <1>3
  <2> QED BY <1>7, <2>1 DEF OfSide, OfKind
<1>10. Ledger!Tally(rs, e) =
         [opened   |-> Cardinality(Ledger!Having(rs, e, Ledger!Fates)),
          answered |-> Cardinality(Ledger!Having(rs, e, {"answered"})),
          byPeers  |-> Cardinality({p \in Ledger!Having(rs, e, {"unanswered"}) : ~rs[p].inbound}),
          byUs     |-> Cardinality({p \in Ledger!Having(rs, e, {"unanswered"}) : rs[p].inbound})]
  BY LedgerCardinality DEF Ledger!Tally
<1>11. Ledger!Tally(rs, e) = Counts(lg, reqs, prs, reports, e)
  BY <1>5, <1>6, <1>8, <1>9, <1>10 DEF Counts
<1> QED BY <1>11 DEF rs

LEMMA LedgerTallies ==
  HInv => exchanges = [e \in Exchanges |->
                         Ledger!Tally(RequestsIn(log, asked, pairs, silent, open), e)]
<1> SUFFICES ASSUME HInv PROVE exchanges = [e \in Exchanges |->
                         Ledger!Tally(RequestsIn(log, asked, pairs, silent, open), e)]
  OBVIOUS
<1>1. exchanges \in [Exchanges -> Stats]
  BY DEF HInv, IInv, TypeOK
<1>2. \A e \in Exchanges :
        exchanges[e] = Ledger!Tally(RequestsIn(log, asked, pairs, silent, open), e)
  BY LedgerTally DEF HInv, Tallied
<1> QED BY <1>1, <1>2

(* What a step of the tracker does to the fates of requests: only an open
   request is settled, no request opens again, at most one is answered, and a
   new one is open. *)
Settles ==
  /\ asked \subseteq asked' /\ \E p : asked' \subseteq asked \cup {p}
  /\ \A p \in asked : log'[p] = log[p]
  /\ Replied(pairs) \subseteq Replied(pairs')
  /\ GivenUp(silent) \subseteq GivenUp(silent')
  /\ \A p \in asked :
       \/ p \in Replied(pairs') \ Replied(pairs)
       \/ p \in GivenUp(silent') \ GivenUp(silent)
       \/ p \in Positions(open', DOMAIN open')
       => p \in Positions(open, DOMAIN open)
  /\ \A p, q \in Replied(pairs') \ Replied(pairs) : p = q
  /\ \A p \in asked' \ asked : p \in Positions(open', DOMAIN open')
                               /\ p \notin Replied(pairs') /\ p \notin GivenUp(silent')

LEMMA SweptPositions ==
  ASSUME NEW o, NEW now
  PROVE  /\ Positions(Swept(o, now), DOMAIN Swept(o, now)) \subseteq Positions(o, DOMAIN o)
         /\ Positions(o, TimedOut(o, now)) \subseteq Positions(o, DOMAIN o)
<1>1. \A k \in DOMAIN Swept(o, now) : k \in DOMAIN o /\ Swept(o, now)[k] = o[k]
  BY DEF Swept, Restrict
<1>2. TimedOut(o, now) \subseteq DOMAIN o
  BY DEF TimedOut, Overdue
<1> QED BY <1>1, <1>2 DEF Positions

LEMMA FileSettles ==
  ASSUME HInv, HFile
  PROVE  Settles
<1>1. UNCHANGED <<log, asked, pairs>>
  BY FileCases
<1>2. CASE FileLeaves
  BY <1>1, <1>2 DEF Settles, FileLeaves
<1>3. CASE FileSweeps
  <2>1. open' = Swept(open, lastTimestamp)
    BY <1>3 DEF FileSweeps, SweepAtEnd
  <2>2. GivenUp(silent') = GivenUp(silent) \cup Positions(open, TimedOut(open, lastTimestamp))
    BY <1>3, GivenUpGrows DEF FileSweeps
  <2>3. /\ Positions(open', DOMAIN open') \subseteq Positions(open, DOMAIN open)
        /\ Positions(open, TimedOut(open, lastTimestamp)) \subseteq Positions(open, DOMAIN open)
    BY <2>1, SweptPositions
  <2> QED BY <1>1, <2>2, <2>3 DEF Settles
<1> QED BY <1>2, <1>3, FileCases

LEMMA MessageSettles ==
  ASSUME HInv, NEW m \in Messages, HMessage(m), HInv'
  PROVE  Settles
<1> DEFINE o1 == AfterReply(m)
           o2 == AfterObserve(m, Position)
           now == m.timestamp
           was == Positions(open, DOMAIN open)
<1>1. WellFormed(open)
  BY DEF HInv, History
<1>2. /\ log \in Seq(Messages) /\ Len(log) \in Nat /\ asked \subseteq 1 .. Len(log)
      /\ Replied(pairs) \subseteq asked /\ GivenUp(silent) \subseteq asked
  BY HistoryTypes DEF HInv
<1>3. PICK n \in Nat : n = Len(log) /\ Position = n + 1 /\ n + 1 \notin asked
  BY <1>2 DEF Position
<1>4. \A p \in asked : log'[p] = log[p]
  BY <1>2, LogGrows DEF HMessage
<1>5. asked' = IF Registers(m) THEN asked \cup {n + 1} ELSE asked
  BY <1>3 DEF HMessage
<1>6. Answered(m) => open[AnsweredKey(m)].position \in was
  <2> HAVE Answered(m)
  <2>1. AnsweredKey(m) \in DOMAIN open
    BY <1>1, ReplyEffect
  <2> QED BY <2>1 DEF Positions
<1>7. Replied(pairs') = IF Answered(m) THEN Replied(pairs) \cup {open[AnsweredKey(m)].position}
                                       ELSE Replied(pairs)
  BY RepliedGrows DEF HMessage
<1>8. Positions(o1, Displaced(m)) \subseteq was
  <2>1. \A k \in Displaced(m) : k \in DOMAIN open /\ o1[k].position = open[k].position
    BY <1>1, ReplyEffect DEF Displaced
  <2> HIDE DEF o1
  <2> QED BY <2>1 DEF Positions
<1>9. \A k \in DOMAIN o2 : \/ o2[k].position = n + 1 /\ o2[k].timestamp = now
                           \/ o2[k].position \in was
  <2>1. \A k \in DOMAIN o2 :
          \/ o2[k].position = n + 1 /\ o2[k].timestamp = now
          \/ k \in DOMAIN open /\ o2[k].position = open[k].position
    BY <1>1, <1>3, ObserveOrigins
  <2> HIDE DEF o2
  <2> QED BY <2>1 DEF Positions
<1>10. WellFormed(o2)
  <2>1. WellFormed(o1)
    BY <1>1, ReplyStep
  <2> QED BY <1>3, <2>1, RegisterStep
<1>11. ASSUME NEW k \in DOMAIN o2, o2[k].timestamp = now
       PROVE  k \notin Overdue(o2, now)
  <2>1. k.exchange \in Exchanges
    BY <1>10 DEF WellFormed, Keys
  <2> QED BY <1>11, <2>1, AgeZero DEF Overdue
<1>12. Positions(o2, TimedOut(o2, now)) \subseteq was
  <2> SUFFICES ASSUME NEW k \in TimedOut(o2, now) PROVE o2[k].position \in was
    BY DEF Positions
  <2>1. k \in DOMAIN o2 /\ k \in Overdue(o2, now)
    BY DEF TimedOut, Overdue
  <2>2. o2[k].timestamp # now
    BY <1>11, <2>1
  <2> QED BY <1>9, <2>1, <2>2
<1>13. open' = o2 \/ open' = Swept(o2, now)
  BY DEF HMessage, Message
<1>14. /\ GivenUp(silent) \subseteq GivenUp(silent')
       /\ GivenUp(silent') \subseteq GivenUp(silent) \cup was
  <2>1. GivenUp(SilentAfter(m)) = GivenUp(silent) \cup Positions(o1, Displaced(m))
    BY GivenUpGrows DEF SilentAfter
  <2>2. CASE sinceSweep' = 0
    <3>1. silent' = SilentAfter(m) \cup Reports(o2, TimedOut(o2, now), Position, now)
      BY <2>2 DEF HMessage, SilentAfter
    <3>2. GivenUp(silent') = GivenUp(SilentAfter(m)) \cup Positions(o2, TimedOut(o2, now))
      BY <3>1, GivenUpGrows
    <3> QED BY <1>8, <1>12, <2>1, <3>2
  <2>3. CASE sinceSweep' # 0
    <3>1. silent' = SilentAfter(m)
      BY <2>3 DEF HMessage, SilentAfter
    <3> QED BY <1>8, <2>1, <3>1
  <2> QED BY <2>2, <2>3
<1>15. ASSUME NEW p \in asked, p \in Positions(open', DOMAIN open')
       PROVE  p \in was
  <2>1. p \in Positions(o2, DOMAIN o2)
    BY <1>13, <1>15, SweptPositions
  <2>2. PICK k \in DOMAIN o2 : o2[k].position = p
    BY <2>1 DEF Positions
  <2> QED BY <1>3, <1>9, <2>2
<1>16. ASSUME Registers(m)
       PROVE  n + 1 \in Positions(open', DOMAIN open')
  <2> DEFINE k == OpenedKey(m)
  <2>1. k \in DOMAIN o2 /\ o2[k].position = n + 1 /\ o2[k].timestamp = now
    BY <1>1, <1>3, <1>16, ObserveOrigins
  <2>2. k \notin Overdue(o2, now)
    BY <1>11, <2>1
  <2>3. k \in DOMAIN Swept(o2, now) /\ Swept(o2, now)[k] = o2[k]
    BY <2>1, <2>2 DEF Swept, Restrict
  <2>4. k \in DOMAIN open' /\ open'[k].position = n + 1
    BY <1>13, <2>1, <2>3
  <2> QED BY <2>4 DEF Positions
<1>17. n + 1 \notin Replied(pairs')
  <2>1. was \subseteq asked
    <3>1. \A k \in DOMAIN open : open[k].position \in asked
      BY DEF HInv, History, Entries, OpenEntry
    <3> QED BY <3>1 DEF Positions
  <2> QED BY <1>2, <1>3, <1>6, <1>7, <2>1
<1>18. n + 1 \notin GivenUp(silent')
  <2>1. was \subseteq asked
    <3>1. \A k \in DOMAIN open : open[k].position \in asked
      BY DEF HInv, History, Entries, OpenEntry
    <3> QED BY <3>1 DEF Positions
  <2> QED BY <1>2, <1>3, <1>14, <2>1
<1> HIDE DEF o1, o2, now, was
<1>19. asked \subseteq asked' /\ asked' \subseteq asked \cup {n + 1}
  BY <1>5
<1>20. Replied(pairs) \subseteq Replied(pairs')
       /\ \A p \in Replied(pairs') \ Replied(pairs) : p \in was
  BY <1>6, <1>7
<1>21. \A p, q \in Replied(pairs') \ Replied(pairs) : p = q
  BY <1>7
<1>22. \A p \in asked' \ asked : /\ p \in Positions(open', DOMAIN open')
                                 /\ p \notin Replied(pairs')
                                 /\ p \notin GivenUp(silent')
  BY <1>5, <1>16, <1>17, <1>18
<1>23. \A p \in asked : \/ p \in Replied(pairs') \ Replied(pairs)
                        \/ p \in GivenUp(silent') \ GivenUp(silent)
                        \/ p \in Positions(open', DOMAIN open')
                        => p \in was
  BY <1>14, <1>15, <1>20
<1> QED BY <1>4, <1>14, <1>19, <1>20, <1>21, <1>22, <1>23 DEF Settles, was

LEMMA StepSettles ==
  ASSUME HInv, [HNext]_hvars, HInv'
  PROVE  Settles
<1>1. ASSUME NEW m \in Messages, HMessage(m) PROVE Settles
  BY <1>1, MessageSettles
<1>2. ASSUME NEW t \in Times, HOtherEvent(t) PROVE Settles
  BY <1>2 DEF HOtherEvent, OtherEvent, Settles
<1>3. CASE HFile
  BY <1>3, FileSettles
<1>4. CASE UNCHANGED hvars
  BY <1>4 DEF hvars, vars, Settles
<1> QED BY <1>1, <1>2, <1>3, <1>4 DEF HNext

(* One fate over a step: once settled, it stays. *)
LEMMA FateMoves ==
  ASSUME HInv, HInv', Settles, NEW p \in asked
  PROVE  Ledger!MayBecome(RequestsIn(log, asked, pairs, silent, open)[p],
                          RequestsIn(log', asked', pairs', silent', open')[p])
<1> DEFINE old == RequestsIn(log, asked, pairs, silent, open)[p]
           new == RequestsIn(log', asked', pairs', silent', open')[p]
           was == FateIn(pairs, silent, open, p)
           is == FateIn(pairs', silent', open', p)
           request(fate) == [exchange |-> KindOf(log[p]), inbound |-> log[p].inbound, fate |-> fate]
<1>1. p \in asked' /\ log'[p] = log[p]
  BY DEF Settles
<1>2. old = request(was) /\ new = request(is)
  BY <1>1 DEF RequestsIn
<1>3. /\ was \in Ledger!Fates
      /\ was = "answered" <=> p \in Replied(pairs)
      /\ was = "unanswered" <=> p \in GivenUp(silent)
      /\ was = "waiting" <=>
           p \in Positions(open, DOMAIN open) \ (Replied(pairs) \cup GivenUp(silent))
  <2>1. p \notin Replied(pairs) \cap GivenUp(silent)
    BY HistoryTypes DEF HInv
  <2> QED BY <2>1, FateFacts
<1>4. History(log', asked', pairs', silent', open')
  BY DEF HInv
<1>5. /\ is \in Ledger!Fates
      /\ is = "answered" <=> p \in Replied(pairs')
      /\ is = "unanswered" <=> p \in GivenUp(silent')
      /\ is = "waiting" <=>
           p \in Positions(open', DOMAIN open') \ (Replied(pairs') \cup GivenUp(silent'))
  <2>1. p \notin Replied(pairs') \cap GivenUp(silent')
    BY <1>4, HistoryTypes
  <2> QED BY <2>1, FateFacts
<1>6. is = "unanswered" => ~Table[KindOf(log[p])].optional
  <2>1. Proven(log', asked', pairs', silent')
    BY <1>4 DEF History
  <2>2. \A report \in silent' : ~Table[KindOf(log'[report.request])].optional
    BY <2>1 DEF Proven
  <2>3. p \in GivenUp(silent') => ~Table[KindOf(log'[p])].optional
    BY <2>2 DEF GivenUp
  <2> QED BY <1>1, <1>5, <2>3
<1>7. KindOf(log[p]) \in Exchanges
  BY HistoryTypes, RequestKind DEF HInv
<1> HIDE DEF was, is, old, new
<1>8. is = was \/ was = "waiting"
  <2>1. \/ p \in Replied(pairs') \ Replied(pairs)
        \/ p \in GivenUp(silent') \ GivenUp(silent)
        \/ p \in Positions(open', DOMAIN open')
        => p \in Positions(open, DOMAIN open)
    BY DEF Settles
  <2>2. p \in Replied(pairs) => p \in Replied(pairs')
    BY DEF Settles
  <2>3. p \in GivenUp(silent) => p \in GivenUp(silent')
    BY DEF Settles
  <2>4. CASE was = "answered"
    BY <1>3, <1>5, <2>2, <2>4
  <2>5. CASE was = "unanswered"
    BY <1>3, <1>5, <2>3, <2>5
  <2>6. CASE was = "undetermined"
    <3>1. /\ p \notin Replied(pairs) /\ p \notin GivenUp(silent)
          /\ p \notin Positions(open, DOMAIN open)
      BY <1>3, <2>6
    <3>2. /\ p \notin Replied(pairs') /\ p \notin GivenUp(silent')
          /\ p \notin Positions(open', DOMAIN open')
      BY <2>1, <3>1
    <3> QED BY <1>5, <2>6, <3>2 DEF Ledger!Fates
  <2> QED BY <1>3, <2>4, <2>5, <2>6 DEF Ledger!Fates
<1>9. is = was => Ledger!MayBecome(old, new)
  BY <1>2 DEF Ledger!MayBecome
<1>10. ASSUME was = "waiting" PROVE Ledger!MayBecome(old, new)
  <2>1. new = [old EXCEPT !.fate = is]
    BY <1>2
  <2>2. old.fate = "waiting" /\ new.fate = is /\ old.exchange = KindOf(log[p])
    BY <1>2, <1>10
  <2>3. new.fate = "unanswered" => old.exchange \notin {e \in Exchanges : Table[e].optional}
    BY <1>6, <2>2
  <2>4. new \in {[old EXCEPT !.fate = fate] : fate \in Ledger!Fates}
    BY <1>5, <2>1
  <2> QED BY <2>2, <2>3, <2>4 DEF Ledger!MayBecome
<1> QED BY <1>8, <1>9, <1>10 DEF old, new

LEMMA AtMostOne ==
  ASSUME NEW S, \A x, y \in S : x = y
  PROVE  Cardinality(S) <= 1
<1>1. CASE S = {}
  BY <1>1, FS_EmptySet
<1>2. CASE S # {}
  <2>1. PICK x \in S : TRUE
    BY <1>2
  <2>2. S = {x}
    BY <2>1
  <2> QED BY <2>2, FS_Singleton
<1> QED BY <1>1, <1>2

(* Every step of the tracker is a step of the ledger. *)
LEMMA LedgerStep ==
  ASSUME HInv, HInv', Settles,
         LedgerRequests = RequestsIn(log, asked, pairs, silent, open),
         LedgerRequests' = RequestsIn(log', asked', pairs', silent', open'),
         exchanges' = [e \in Exchanges |->
                         Ledger!Tally(RequestsIn(log', asked', pairs', silent', open'), e)]
  PROVE  Ledger!Next
<1> DEFINE old == RequestsIn(log, asked, pairs, silent, open)
           new == RequestsIn(log', asked', pairs', silent', open')
<1>1. DOMAIN old = asked /\ DOMAIN new = asked' /\ asked \subseteq asked'
  BY DEF RequestsIn, Settles
<1>2. History(log', asked', pairs', silent', open')
  BY DEF HInv
<1>3. \A p \in asked' : /\ new[p].fate = FateIn(pairs', silent', open', p)
                        /\ new[p].exchange = KindOf(log'[p])
                        /\ new[p].inbound = log'[p].inbound
                        /\ new[p] = [exchange |-> KindOf(log'[p]), inbound |-> log'[p].inbound,
                                     fate |-> FateIn(pairs', silent', open', p)]
  BY DEF RequestsIn
<1>4. \A p \in asked' :
        /\ FateIn(pairs', silent', open', p) \in Ledger!Fates
        /\ FateIn(pairs', silent', open', p) = "answered" <=> p \in Replied(pairs')
        /\ FateIn(pairs', silent', open', p) = "waiting" <=>
             p \in Positions(open', DOMAIN open') \ (Replied(pairs') \cup GivenUp(silent'))
  <2> TAKE p \in asked'
  <2>1. p \notin Replied(pairs') \cap GivenUp(silent')
    BY <1>2, HistoryTypes
  <2> QED BY <2>1, FateFacts
<1>5. \A p \in asked' : /\ KindOf(log'[p]) \in Exchanges
                        /\ log'[p].inbound \in BOOLEAN
  <2> TAKE p \in asked'
  <2>1. log'[p] \in Messages /\ IsRequest(log'[p])
    BY <1>2, HistoryTypes
  <2> QED BY <2>1, RequestKind, MessagesAssumption
<1>6. \A p \in asked : old[p].fate = FateIn(pairs, silent, open, p)
  BY DEF RequestsIn
<1>7. \A p \in asked : FateIn(pairs, silent, open, p) = "answered" <=> p \in Replied(pairs)
  <2> TAKE p \in asked
  <2>1. p \notin Replied(pairs) \cap GivenUp(silent)
    BY HistoryTypes DEF HInv
  <2> QED BY <2>1, FateFacts
<1>8. \A p \in asked : Ledger!MayBecome(old[p], new[p])
  BY FateMoves
<1> HIDE DEF old, new
<1>9. \A p \in asked' \ asked : new[p] \in Ledger!Request /\ new[p].fate = "waiting"
  <2> TAKE p \in asked' \ asked
  <2>1. FateIn(pairs', silent', open', p) = "waiting"
    BY <1>4 DEF Settles
  <2>2. new[p] = [exchange |-> KindOf(log'[p]), inbound |-> log'[p].inbound, fate |-> "waiting"]
    BY <1>3, <2>1
  <2> QED BY <1>5, <2>2 DEF Ledger!Request, Ledger!Fates
<1>10. Cardinality(asked' \ asked) <= 1
  <2>1. \A p, q \in asked' \ asked : p = q
    BY DEF Settles
  <2> QED BY <2>1, AtMostOne
<1>11. Cardinality({p \in asked : new[p].fate = "answered" /\ old[p].fate # "answered"}) <= 1
  <2> DEFINE S == {p \in asked : new[p].fate = "answered" /\ old[p].fate # "answered"}
  <2>1. S \subseteq Replied(pairs') \ Replied(pairs)
    BY <1>1, <1>3, <1>4, <1>6, <1>7
  <2>2. \A p, q \in S : p = q
    BY <2>1 DEF Settles
  <2> HIDE DEF S
  <2>3. Cardinality(S) <= 1
    BY <2>2, AtMostOne
  <2> QED BY <2>3 DEF S
<1>12. LedgerRequests = old /\ LedgerRequests' = new
       /\ exchanges' = [e \in Exchanges |-> Ledger!Tally(new, e)]
  BY DEF old, new
<1>13. Ledger!Cardinality(Ledger!Asked) <= 1
  <2>1. Ledger!Asked = asked' \ asked
    BY <1>1, <1>12 DEF Ledger!Asked
  <2> QED BY <1>10, <2>1, LedgerCardinality
<1>14. Ledger!Cardinality(Ledger!NewlyAnswered) <= 1
  <2>1. Ledger!NewlyAnswered = {p \in asked : new[p].fate = "answered" /\ old[p].fate # "answered"}
    BY <1>1, <1>12 DEF Ledger!NewlyAnswered
  <2> QED BY <1>11, <2>1, LedgerCardinality
<1>15. \A p \in Ledger!Asked : new[p] \in Ledger!Request /\ new[p].fate = "waiting"
  BY <1>1, <1>9, <1>12 DEF Ledger!Asked
<1> QED BY <1>1, <1>8, <1>12, <1>13, <1>14, <1>15 DEF Ledger!Next

(* The state is the ledger's, in every state of the tracker. *)
Viewed ==
  /\ LedgerRequests = RequestsIn(log, asked, pairs, silent, open)
  /\ exchanges = [e \in Exchanges |->
                    Ledger!Tally(RequestsIn(log, asked, pairs, silent, open), e)]

LEMMA LedgerInit == HInit => Ledger!Init
<1> SUFFICES ASSUME HInit PROVE Ledger!Init
  OBVIOUS
<1>1. HInv
  BY HistoryInit
<1>2. LedgerRequests = [p \in {} |-> p]
  BY DEF HInit, LedgerRequests
<1>3. exchanges = [e \in Exchanges |-> Ledger!Tally(LedgerRequests, e)]
  BY <1>1, LedgerView, LedgerTallies
<1> QED BY <1>2, <1>3 DEF Ledger!Init

(* Whatever is matched with what, every request taken up has one final fate
   and the tallies of the session are the counts of those fates: the tracker
   implements the ledger. *)
THEOREM LedgerKept == HSpec => KeepsLedger
<1>1. HInit => Ledger!Init
  BY LedgerInit
<1>2. HInv => Viewed
  BY LedgerView, LedgerTallies DEF Viewed
<1>3. HInv' => Viewed'
  BY <1>2, PTL
<1>4. HInv /\ HInv' /\ Viewed' /\ [HNext]_hvars => [Ledger!Next]_Ledger!vars
  <2> SUFFICES ASSUME HInv, HInv', Viewed', [HNext]_hvars PROVE Ledger!Next
    OBVIOUS
  <2>1. Settles
    BY StepSettles
  <2> QED BY <2>1, LedgerStep, LedgerView DEF Viewed
<1> QED BY <1>1, <1>3, <1>4, HistoryInvariant, PTL DEF HSpec, KeepsLedger, Ledger!Spec

=============================================================================

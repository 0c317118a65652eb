------------------------- MODULE TurnMatcherProofs -------------------------
(***************************************************************************)
(* For every exchange table, set of rows and limit: the lists of open      *)
(* requests are well formed, no request absorbs more than it asked for,    *)
(* nothing better is overlooked, and peers do not disturb one another.     *)
(***************************************************************************)
EXTENDS TurnMatcher, SequenceTheorems, FiniteSetTheorems, WellFoundedInduction, TLAPS

Turns == {TurnOf(row) : row \in Rows}

(* What the ties ts of a page pg leave request r lacking when turn i comes. *)
Lacks(pg, ts, r, i) ==
  {h \in pg[r].keys :
     \A k \in DOMAIN ts :
       ts[k].request = r /\ ts[k].reply < i => h \notin pg[ts[k].reply].keys}

(* The tie k of ts is one that RequestsAreNotOverfilled allows, as a reply to
   a request of exchange e. *)
Fits(pg, ts, k, e) ==
  LET r == ts[k].request
      i == ts[k].reply
  IN /\ r < i /\ ~Skipped(pg[i]) /\ ~Skipped(pg[r])
     /\ Table[e].request = pg[r].command
     /\ pg[r].peer = pg[i].peer
     /\ pg[r].direction = Opposite[pg[i].direction]
     /\ pg[i].command \in Table[e].replies
     /\ Age(pg[i].timestamp, pg[r].timestamp) <= Table[e].window
     /\ ~Table[e].multi =>
          ~\E j \in DOMAIN ts : ts[j].request = r /\ ts[j].reply < i
     /\ pg[r].keys # {} => Lacks(pg, ts, r, i) # {}
     /\ pg[r].keys # {} /\ pg[i].keys # {} => pg[i].keys \cap Lacks(pg, ts, r, i) # {}

Tied(pg, ts) ==
  /\ ts \in Seq([request : Nat \ {0}, reply : Nat, elapsed : Nat])
  /\ \A k \in DOMAIN ts : ts[k].request < ts[k].reply /\ ts[k].reply <= Len(pg)
  /\ \A j, k \in DOMAIN ts : j < k => ts[j].reply < ts[k].reply
  /\ \A k \in DOMAIN ts : \E e \in Exchanges : Fits(pg, ts, k, e)

(* A pending request is a turn of the page, lacks what its replies have not
   brought, and has had no reply if one would have closed it. *)
Stands(pg, ts, key, p) ==
  /\ p.position \in DOMAIN pg
  /\ pg[p.position].peer = key.peer
  /\ pg[p.position].direction = key.direction
  /\ pg[p.position].command = Table[key.exchange].request
  /\ pg[p.position].timestamp = p.timestamp
  /\ p.keyed <=> pg[p.position].keys # {}
  /\ p.keyed => p.wanted # {}
  /\ p.wanted = Lacks(pg, ts, p.position, Len(pg) + 1)
  /\ ~Table[key.exchange].multi => \A k \in DOMAIN ts : ts[k].request # p.position

Listed(pg, ts, key, list) ==
  /\ list \in Seq(Pending)
  /\ Len(list) <= LocalOpen
  /\ \A i, j \in DOMAIN list : i < j => list[i].position < list[j].position
  /\ \A i \in DOMAIN list : Stands(pg, ts, key, list[i])

IInv ==
  /\ page \in Seq(Turns)
  /\ Tied(page, ties)
  /\ DOMAIN open = OpenKeys
  /\ \A key \in OpenKeys : Listed(page, ties, key, open[key])

-----------------------------------------------------------------------------
(* A turn has the type the operators expect. *)
LEMMA TurnType ==
  ASSUME NEW turn \in Turns
  PROVE  /\ turn.peer \in Peers \cup {NoPeer}
         /\ turn.direction \in Directions
         /\ turn.timestamp \in Nat
         /\ turn.keys \subseteq Hashes
         /\ ~Skipped(turn) => /\ turn.peer \in Peers
                              /\ turn.direction \in {"in", "out"}
                              /\ Opposite[turn.direction] \in {"in", "out"}
<1>1. PICK row \in Rows : turn = TurnOf(row)
  BY DEF Turns
<1>2. turn.peer = row.peer /\ turn.direction = row.direction
      /\ turn.timestamp = row.timestamp /\ turn.keys = KeysOf(row.message)
  BY <1>1 DEF TurnOf
<1>3. turn.keys \subseteq Hashes
  BY <1>1, <1>2 DEF Hashes
<1> QED BY <1>2, <1>3, RowsAssumption DEF Skipped, Directions, Opposite

(* A tie has the type the operators expect. *)
LEMMA TieTypes ==
  ASSUME NEW pg, NEW ts, Tied(pg, ts)
  PROVE  \A k \in DOMAIN ts : ts[k] \in [request : Nat \ {0}, reply : Nat, elapsed : Nat]
<1>1. ts \in Seq([request : Nat \ {0}, reply : Nat, elapsed : Nat])
  BY DEF Tied
<1>2. DOMAIN ts = 1..Len(ts)
  BY <1>1, LenProperties
<1> QED BY <1>1, <1>2, ElementOfSeq

(* Every nonempty set of natural numbers has a least element. *)
LEMMA LeastNat ==
  ASSUME NEW T \in SUBSET Nat, T # {}
  PROVE  \E x \in T : \A y \in T : x <= y
<1>1. PICK x \in T : \A y \in T : ~(<<y, x>> \in OpToRel(<, Nat))
  BY NatLessThanWellFounded, WFMin
<1>2. \A y \in T : ~(y < x)
  BY <1>1 DEF OpToRel
<1> QED BY <1>2

(* Removing an element leaves the others, in their order. *)
LEMMA RemoveAtProperties ==
  ASSUME NEW S, NEW s \in Seq(S), NEW n \in 1..Len(s)
  PROVE  /\ RemoveAt(s, n) \in Seq(S)
         /\ Len(RemoveAt(s, n)) = Len(s) - 1
         /\ \A i \in 1..(Len(s) - 1) :
              RemoveAt(s, n)[i] = IF i < n THEN s[i] ELSE s[i + 1]
<1> DEFINE left == SubSeq(s, 1, n - 1)
           right == SubSeq(s, n + 1, Len(s))
<1>1. /\ left \in Seq(S) /\ Len(left) = n - 1
      /\ \A i \in 1..(n - 1) : left[i] = s[i]
  BY SubSeqProperties, LenProperties
<1>2. /\ right \in Seq(S) /\ Len(right) = Len(s) - n
      /\ \A i \in 1..(Len(s) - n) : right[i] = s[n + i]
  BY SubSeqProperties, LenProperties
<1>3. RemoveAt(s, n) = left \o right
  BY DEF RemoveAt
<1> HIDE DEF left, right
<1>4. /\ left \o right \in Seq(S)
      /\ Len(left \o right) = Len(left) + Len(right)
      /\ \A i \in 1..(Len(left) + Len(right)) :
           (left \o right)[i] = IF i <= Len(left) THEN left[i] ELSE right[i - Len(left)]
  BY <1>1, <1>2, ConcatProperties
<1>5. Len(s) \in Nat
  BY LenProperties
<1>6. Len(left) + Len(right) = Len(s) - 1
  BY <1>1, <1>2, <1>5
<1>7. ASSUME NEW i \in 1..(Len(s) - 1)
      PROVE  (left \o right)[i] = IF i < n THEN s[i] ELSE s[i + 1]
  BY <1>1, <1>2, <1>4, <1>5, <1>6
<1> QED BY <1>3, <1>4, <1>6, <1>7

-----------------------------------------------------------------------------
(* A candidate is a slot of a list of the turn's peer. *)
LEMMA CandidateType ==
  ASSUME IInv, NEW turn \in Turns, ~Skipped(turn), NEW c \in Candidates(open, turn)
  PROVE  LET key == OpenKey(turn, c.exchange, Opposite[turn.direction])
         IN /\ c \in [exchange : Exchanges, slot : Nat]
            /\ key \in OpenKeys
            /\ c.slot \in DOMAIN open[key]
            /\ PendingAt(open, turn, c) = open[key][c.slot]
            /\ PendingAt(open, turn, c) \in Pending
<1> DEFINE key == OpenKey(turn, c.exchange, Opposite[turn.direction])
<1>1. c \in [exchange : Exchanges, slot : 1..LocalOpen] /\ c.slot \in DOMAIN open[key]
  BY DEF Candidates
<1>2. c \in [exchange : Exchanges, slot : Nat]
  BY <1>1, LocalOpenAssumption
<1>3. key \in OpenKeys
  BY <1>1, TurnType DEF OpenKey, OpenKeys
<1>4. open[key] \in Seq(Pending)
  BY <1>3 DEF IInv, Listed
<1>5. open[key][c.slot] \in Pending
  BY <1>1, <1>4, LenProperties
<1> QED BY <1>1, <1>2, <1>3, <1>5 DEF PendingAt

(* The order of the candidates has a first: by guess, age, exchange, slot. *)
LEMMA BestIsCandidate ==
  ASSUME IInv, NEW turn \in Turns, ~Skipped(turn), Candidates(open, turn) # {}
  PROVE  /\ Best(open, turn) \in Candidates(open, turn)
         /\ \A d \in Candidates(open, turn) \ {Best(open, turn)} :
              Before(Rank(open, turn, Best(open, turn)), Rank(open, turn, d))
<1> DEFINE C == Candidates(open, turn)
           rank(c) == Rank(open, turn, c)
<1>1. \A c \in C : c \in [exchange : Exchanges, slot : Nat]
                  /\ PendingAt(open, turn, c) \in Pending
  BY CandidateType
<1>2. \A c \in C : /\ rank(c)[1] \in Nat /\ rank(c)[2] \in Nat
                  /\ rank(c)[3] = c.exchange /\ rank(c)[4] = c.slot
                  /\ c.exchange \in Nat /\ c.slot \in Nat
                  /\ DOMAIN rank(c) = 1..4
  <2> SUFFICES ASSUME NEW c \in C
               PROVE  /\ rank(c)[1] \in Nat /\ rank(c)[2] \in Nat
                      /\ rank(c)[3] = c.exchange /\ rank(c)[4] = c.slot
                      /\ c.exchange \in Nat /\ c.slot \in Nat
                      /\ DOMAIN rank(c) = 1..4
    OBVIOUS
  <2>1. c.exchange \in Nat /\ c.slot \in Nat
    BY <1>1, TableAssumption
  <2>2. PendingAt(open, turn, c).timestamp \in Nat
    BY <1>1 DEF Pending
  <2>3. (IF ByHash(PendingAt(open, turn, c), turn) THEN 0 ELSE 1) \in Nat
    OBVIOUS
  <2> QED BY <2>1, <2>2, <2>3 DEF Rank
<1> HIDE DEF rank
<1>3. PICK g \in {rank(c)[1] : c \in C} : \A x \in {rank(c)[1] : c \in C} : g <= x
  <2>1. {rank(c)[1] : c \in C} \in SUBSET Nat /\ {rank(c)[1] : c \in C} # {}
    BY <1>2
  <2> QED BY <2>1, LeastNat
<1> DEFINE C1 == {c \in C : rank(c)[1] = g}
<1>4. PICK t \in {rank(c)[2] : c \in C1} : \A x \in {rank(c)[2] : c \in C1} : t <= x
  <2>1. {rank(c)[2] : c \in C1} \in SUBSET Nat /\ {rank(c)[2] : c \in C1} # {}
    BY <1>2, <1>3
  <2> QED BY <2>1, LeastNat
<1> DEFINE C2 == {c \in C1 : rank(c)[2] = t}
<1>5. PICK e \in {c.exchange : c \in C2} : \A x \in {c.exchange : c \in C2} : e <= x
  <2>1. {c.exchange : c \in C2} \in SUBSET Nat /\ {c.exchange : c \in C2} # {}
    BY <1>2, <1>4
  <2> QED BY <2>1, LeastNat
<1> DEFINE C3 == {c \in C2 : c.exchange = e}
<1>6. PICK n \in {c.slot : c \in C3} : \A x \in {c.slot : c \in C3} : n <= x
  <2>1. {c.slot : c \in C3} \in SUBSET Nat /\ {c.slot : c \in C3} # {}
    BY <1>2, <1>5
  <2> QED BY <2>1, LeastNat
<1>7. PICK best \in C3 : best.slot = n
  BY <1>6
<1>8. \A d \in C \ {best} : Before(rank(best), rank(d))
  <2> SUFFICES ASSUME NEW d \in C, d # best
               PROVE  Before(rank(best), rank(d))
    OBVIOUS
  <2>0. /\ best \in C /\ rank(best)[1] = g /\ rank(best)[2] = t
        /\ rank(best)[3] = e /\ rank(best)[4] = n
    BY <1>2, <1>7
  <2>1. CASE rank(d)[1] # g
    <3>1. g < rank(d)[1]
      BY <1>2, <1>3, <2>1
    <3> QED BY <1>2, <2>0, <3>1 DEF Before
  <2>2. CASE rank(d)[1] = g /\ rank(d)[2] # t
    <3>1. t < rank(d)[2]
      <4>1. d \in C1 /\ t \in Nat /\ rank(d)[2] \in Nat
        BY <1>2, <1>4, <2>2
      <4>2. t <= rank(d)[2]
        BY <1>4, <4>1
      <4> QED BY <2>2, <4>1, <4>2
    <3> QED BY <1>2, <2>0, <2>2, <3>1 DEF Before
  <2>3. CASE rank(d)[1] = g /\ rank(d)[2] = t /\ d.exchange # e
    <3>1. d \in C2 /\ e <= d.exchange
      BY <1>5, <2>3
    <3>2. e \in Nat /\ e < rank(d)[3]
      BY <1>2, <1>7, <2>3, <3>1
    <3> QED BY <1>2, <2>0, <2>3, <3>2 DEF Before
  <2>4. CASE rank(d)[1] = g /\ rank(d)[2] = t /\ d.exchange = e
    <3>1. d.slot # n
      BY <1>1, <1>7, <2>4
    <3>2. n < rank(d)[4]
      <4>1. d \in C3 /\ n \in Nat /\ d.slot \in Nat /\ rank(d)[4] = d.slot
        BY <1>2, <1>6, <2>4
      <4>2. n <= d.slot
        BY <1>6, <4>1
      <4> QED BY <3>1, <4>1, <4>2
    <3> QED BY <1>2, <2>0, <2>4, <3>2 DEF Before
  <2> QED BY <2>1, <2>2, <2>3, <2>4
<1>9. \A d \in C \ {best} : Before(Rank(open, turn, best), Rank(open, turn, d))
  BY <1>8 DEF rank
<1> QED BY <1>7, <1>9 DEF Best

-----------------------------------------------------------------------------
LEMMA TieType ==
  ASSUME IInv
  PROVE  \A k \in DOMAIN ties : ties[k] \in [request : Nat \ {0}, reply : Nat, elapsed : Nat]
BY TieTypes DEF IInv

(* Another turn on the page changes nothing for those before it. *)
LEMMA PageGrows ==
  ASSUME IInv, NEW turn \in Turns
  PROVE  LET pg == Append(page, turn)
         IN /\ pg \in Seq(Turns) /\ Len(pg) = Len(page) + 1 /\ pg[Len(pg)] = turn
            /\ Tied(pg, ties)
            /\ \A key \in OpenKeys : Listed(pg, ties, key, open[key])
<1> DEFINE pg == Append(page, turn)
<1>1. /\ page \in Seq(Turns) /\ pg \in Seq(Turns)
      /\ Len(page) \in Nat /\ Len(pg) = Len(page) + 1 /\ pg[Len(pg)] = turn
      /\ DOMAIN page = 1..Len(page) /\ DOMAIN pg = 1..Len(pg)
      /\ \A i \in 1..Len(page) : pg[i] = page[i]
  BY AppendProperties, LenProperties DEF IInv
<1> HIDE DEF pg
<1>2. /\ \A k \in DOMAIN ties : /\ ties[k].request \in 1..Len(page)
                               /\ ties[k].reply \in 1..Len(page)
      /\ ties \in Seq([request : Nat \ {0}, reply : Nat, elapsed : Nat])
  <2>1. \A k \in DOMAIN ties : ties[k] \in [request : Nat \ {0}, reply : Nat, elapsed : Nat]
    BY TieType
  <2> QED BY <1>1, <2>1 DEF IInv, Tied
<1>3. ASSUME NEW r \in 1..Len(page), NEW i \in Nat
      PROVE  Lacks(pg, ties, r, i) = Lacks(page, ties, r, i)
  BY <1>1, <1>2 DEF Lacks
<1>4. ASSUME NEW r \in 1..Len(page)
      PROVE  Lacks(pg, ties, r, Len(pg) + 1) = Lacks(page, ties, r, Len(page) + 1)
  <2>1. \A k \in DOMAIN ties : /\ ties[k].reply < Len(pg) + 1
                              /\ ties[k].reply < Len(page) + 1
                              /\ pg[ties[k].reply] = page[ties[k].reply]
    BY <1>1, <1>2
  <2>2. pg[r] = page[r]
    BY <1>1
  <2> QED BY <2>1, <2>2 DEF Lacks
<1>5. Tied(pg, ties)
  <2>1. ASSUME NEW k \in DOMAIN ties, NEW e \in Exchanges, Fits(page, ties, k, e)
        PROVE  Fits(pg, ties, k, e)
    <3>1. Lacks(pg, ties, ties[k].request, ties[k].reply)
            = Lacks(page, ties, ties[k].request, ties[k].reply)
      BY <1>2, <1>3
    <3>2. pg[ties[k].request] = page[ties[k].request] /\ pg[ties[k].reply] = page[ties[k].reply]
      BY <1>1, <1>2
    <3> QED BY <2>1, <3>1, <3>2 DEF Fits
  <2> QED BY <1>1, <1>2, <2>1 DEF IInv, Tied
<1>6. ASSUME NEW key \in OpenKeys
      PROVE  Listed(pg, ties, key, open[key])
  <2>1. ASSUME NEW p, Stands(page, ties, key, p)
        PROVE  Stands(pg, ties, key, p)
    BY <1>1, <1>4, <2>1 DEF Stands
  <2> QED BY <2>1 DEF IInv, Listed
<1> QED BY <1>1, <1>5, <1>6 DEF pg

(* What a request lacks depends on the replies tied to it so far, no others. *)
LEMMA SameTiesSameLack ==
  ASSUME NEW pg, NEW ts, NEW us, NEW r, NEW i, NEW j,
         \A k \in DOMAIN ts : ts[k].request = r /\ ts[k].reply < i =>
           k \in DOMAIN us /\ us[k] = ts[k] /\ us[k].reply < j,
         \A k \in DOMAIN us : us[k].request = r /\ us[k].reply < j =>
           k \in DOMAIN ts /\ ts[k] = us[k] /\ ts[k].reply < i
  PROVE  Lacks(pg, ts, r, i) = Lacks(pg, us, r, j)
<1>1. ASSUME NEW h \in pg[r].keys
      PROVE  (\A k \in DOMAIN ts :
                ts[k].request = r /\ ts[k].reply < i => h \notin pg[ts[k].reply].keys)
             <=> (\A k \in DOMAIN us :
                    us[k].request = r /\ us[k].reply < j => h \notin pg[us[k].reply].keys)
  OBVIOUS
<1> QED BY <1>1 DEF Lacks

(* A request stands in one place only. *)
LEMMA PositionsDiffer ==
  ASSUME NEW pg, NEW ts,
         NEW k1 \in OpenKeys, NEW l1, Listed(pg, ts, k1, l1),
         NEW k2 \in OpenKeys, NEW l2, Listed(pg, ts, k2, l2),
         k1 = k2 => l1 = l2,
         NEW i1 \in DOMAIN l1, NEW i2 \in DOMAIN l2,
         l1[i1].position = l2[i2].position
  PROVE  k1 = k2 /\ i1 = i2
<1>1. Stands(pg, ts, k1, l1[i1]) /\ Stands(pg, ts, k2, l2[i2])
  BY DEF Listed
<1>2. k1.peer = k2.peer /\ k1.direction = k2.direction
      /\ Table[k1.exchange].request = Table[k2.exchange].request
  BY <1>1 DEF Stands
<1>3. k1 = k2
  <2>1. k1 \in [peer : Peers, exchange : Exchanges, direction : {"in", "out"}]
        /\ k2 \in [peer : Peers, exchange : Exchanges, direction : {"in", "out"}]
    BY DEF OpenKeys
  <2>2. k1.exchange = k2.exchange
    BY <1>2, <2>1, TableAssumption
  <2> QED BY <1>2, <2>1, <2>2
<1>4. i1 \in Nat /\ i2 \in Nat /\ l1 \in Seq(Pending)
  BY <1>3, LenProperties DEF Listed
<1>5. l1[i1].position \in Nat
  <2>1. l1[i1] \in Pending
    BY <1>4, LenProperties
  <2> QED BY <2>1 DEF Pending
<1>6. i1 = i2
  BY <1>3, <1>4, <1>5 DEF Listed
<1> QED BY <1>3, <1>6

(* A list that loses a slot is still in order. *)
LEMMA ShorterList ==
  ASSUME NEW list \in Seq(Pending), NEW n \in 1..Len(list),
         \A i, j \in DOMAIN list : i < j => list[i].position < list[j].position
  PROVE  LET left == RemoveAt(list, n)
         IN /\ left \in Seq(Pending) /\ Len(left) = Len(list) - 1
            /\ \A i, j \in DOMAIN left : i < j => left[i].position < left[j].position
            /\ \A i \in DOMAIN left : \E j \in DOMAIN list \ {n} : left[i] = list[j]
<1> DEFINE left == RemoveAt(list, n)
<1>1. /\ left \in Seq(Pending) /\ Len(left) = Len(list) - 1
      /\ \A i \in 1..(Len(list) - 1) : left[i] = IF i < n THEN list[i] ELSE list[i + 1]
  BY RemoveAtProperties
<1> HIDE DEF left
<1>2. Len(list) \in Nat /\ DOMAIN list = 1..Len(list) /\ DOMAIN left = 1..(Len(list) - 1)
  BY <1>1, LenProperties
<1>3. \A i \in DOMAIN left : \E j \in DOMAIN list \ {n} : left[i] = list[j]
  <2> SUFFICES ASSUME NEW i \in DOMAIN left
               PROVE  \E j \in DOMAIN list \ {n} : left[i] = list[j]
    OBVIOUS
  <2>1. CASE i < n
    BY <1>1, <1>2, <2>1
  <2>2. CASE ~(i < n)
    <3>1. i + 1 \in DOMAIN list \ {n} /\ left[i] = list[i + 1]
      BY <1>1, <1>2, <2>2
    <3> QED BY <3>1
  <2> QED BY <2>1, <2>2
<1>4. ASSUME NEW i \in DOMAIN left, NEW j \in DOMAIN left, i < j
      PROVE  left[i].position < left[j].position
  <2>1. PICK x \in DOMAIN list : left[i] = list[x] /\ x = (IF i < n THEN i ELSE i + 1)
    BY <1>1, <1>2
  <2>2. PICK y \in DOMAIN list : left[j] = list[y] /\ y = (IF j < n THEN j ELSE j + 1)
    BY <1>1, <1>2
  <2>3. x < y
    BY <1>2, <1>4, <2>1, <2>2
  <2> QED BY <2>1, <2>2, <2>3
<1> QED BY <1>1, <1>3, <1>4 DEF left

-----------------------------------------------------------------------------
(* The reply: it is tied to a request that lacks it, which then lacks less. *)
LEMMA ReplyStep ==
  ASSUME IInv, NEW turn \in Turns, ~Skipped(turn)
  PROVE  LET pg == Append(page, turn)
             m == AfterReply([open |-> open, ties |-> ties], Len(page) + 1, turn)
         IN /\ Tied(pg, m.ties)
            /\ DOMAIN m.open = OpenKeys
            /\ \A key \in OpenKeys :
                 /\ Listed(pg, m.ties, key, m.open[key])
                 /\ \A i \in DOMAIN m.open[key] : m.open[key][i].position <= Len(page)
<1> DEFINE pg == Append(page, turn)
           n == Len(page) + 1
           m == AfterReply([open |-> open, ties |-> ties], n, turn)
<1>1. /\ pg \in Seq(Turns) /\ Len(pg) = n /\ pg[n] = turn
      /\ Tied(pg, ties) /\ DOMAIN open = OpenKeys
      /\ \A key \in OpenKeys : Listed(pg, ties, key, open[key])
  BY PageGrows DEF IInv
<1>2. Len(page) \in Nat /\ DOMAIN page = 1..Len(page)
  BY LenProperties DEF IInv
<1>3. \A key \in OpenKeys : \A i \in DOMAIN open[key] : open[key][i].position \in 1..Len(page)
  BY <1>2 DEF IInv, Listed, Stands
<1>4. CASE Candidates(open, turn) = {}
  <2>1. m.open = open /\ m.ties = ties
    BY <1>4 DEF AfterReply
  <2> QED BY <1>1, <1>2, <1>3, <2>1
<1>5. CASE Candidates(open, turn) # {}
  <2> DEFINE c == Best(open, turn)
             key == OpenKey(turn, c.exchange, Opposite[turn.direction])
             p == open[key][c.slot]
             left == Delivered(p, turn)
             tie == Tie(p.position, n, Age(turn.timestamp, p.timestamp))
             ts == Append(ties, tie)
             list == IF Closes(c.exchange, left) THEN RemoveAt(open[key], c.slot)
                     ELSE [open[key] EXCEPT ![c.slot] = left]
  <2>1. m.open = [open EXCEPT ![key] = list] /\ m.ties = ts
    BY <1>5 DEF AfterReply
  <2>2. /\ c \in [exchange : Exchanges, slot : Nat] /\ key \in OpenKeys
        /\ c.slot \in DOMAIN open[key] /\ p \in Pending
        /\ turn.command \in Table[c.exchange].replies
        /\ Age(turn.timestamp, p.timestamp) <= Table[c.exchange].window
        /\ MayAnswer(turn, p)
    <3>1. c \in Candidates(open, turn)
      BY <1>5, BestIsCandidate
    <3>2. PendingAt(open, turn, c) = p
      BY DEF PendingAt
    <3> QED BY <3>1, <3>2, CandidateType DEF Candidates
  <2>3. /\ Stands(pg, ties, key, p) /\ p.position \in 1..Len(page)
        /\ key.peer = turn.peer /\ key.exchange = c.exchange
        /\ key.direction = Opposite[turn.direction]
    BY <1>1, <1>3, <2>2 DEF Listed, OpenKey
  <2> HIDE DEF c, key, p
  <2>4. tie \in [request : Nat \ {0}, reply : Nat, elapsed : Nat]
    <3>1. turn.timestamp \in Nat /\ p.timestamp \in Nat
      BY <2>2, TurnType DEF Pending
    <3>2. Age(turn.timestamp, p.timestamp) \in Nat
      BY <3>1 DEF Age
    <3> QED BY <1>2, <2>3, <3>2 DEF Tie
  <2>5. /\ ts \in Seq([request : Nat \ {0}, reply : Nat, elapsed : Nat])
        /\ Len(ties) \in Nat /\ DOMAIN ties = 1..Len(ties) /\ DOMAIN ts = 1..(Len(ties) + 1)
        /\ \A k \in DOMAIN ties : ts[k] = ties[k]
        /\ ts[Len(ties) + 1] = tie
        /\ tie.request = p.position /\ tie.reply = n
    <3>1. ties \in Seq([request : Nat \ {0}, reply : Nat, elapsed : Nat])
      BY <1>1 DEF Tied
    <3> HIDE DEF tie
    <3>2. /\ ts \in Seq([request : Nat \ {0}, reply : Nat, elapsed : Nat])
          /\ Len(ts) = Len(ties) + 1
          /\ \A k \in 1..Len(ties) : ts[k] = ties[k]
          /\ ts[Len(ties) + 1] = tie
      BY <2>4, <3>1, AppendProperties
    <3>3. tie.request = p.position /\ tie.reply = n
      BY DEF Tie, tie
    <3> QED BY <3>1, <3>2, <3>3, LenProperties
  <2>6. \A k \in DOMAIN ties : ties[k].reply < n /\ ties[k].reply \in Nat /\ ties[k].request \in Nat
    <3>1. \A k \in DOMAIN ties : ties[k] \in [request : Nat \ {0}, reply : Nat, elapsed : Nat]
      BY <1>1, TieTypes
    <3> QED BY <1>2, <3>1 DEF IInv, Tied
  <2> HIDE DEF ts, tie, left, list, n
  <2>0. n = Len(page) + 1 /\ n \in Nat
    BY <1>2 DEF n
  <2>7. ASSUME NEW r, NEW i \in Nat, i <= n
        PROVE  Lacks(pg, ts, r, i) = Lacks(pg, ties, r, i)
    <3>1. \A k \in DOMAIN ts : ts[k].reply < i => k \in DOMAIN ties
      <4>1. \A k \in DOMAIN ts : k \in DOMAIN ties \/ ts[k].reply = n
        BY <2>5
      <4> QED BY <2>7, <2>0, <4>1
    <3>2. DOMAIN ties \subseteq DOMAIN ts
      BY <2>5
    <3>3. \A k \in DOMAIN ts : ts[k].request = r /\ ts[k].reply < i =>
            k \in DOMAIN ties /\ ties[k] = ts[k] /\ ties[k].reply < i
      BY <2>5, <3>1
    <3>4. \A k \in DOMAIN ties : ties[k].request = r /\ ties[k].reply < i =>
            k \in DOMAIN ts /\ ts[k] = ties[k] /\ ts[k].reply < i
      BY <2>5, <3>2
    <3> QED BY <3>3, <3>4, SameTiesSameLack
  <2>8. ASSUME NEW r, r # p.position
        PROVE  Lacks(pg, ts, r, n + 1) = Lacks(pg, ties, r, n + 1)
    <3>1. \A k \in DOMAIN ts : ts[k].request = r => k \in DOMAIN ties
      BY <2>5, <2>8
    <3>2. DOMAIN ties \subseteq DOMAIN ts
      BY <2>5
    <3>3. \A k \in DOMAIN ts : ts[k].request = r /\ ts[k].reply < (n + 1) =>
            k \in DOMAIN ties /\ ties[k] = ts[k] /\ ties[k].reply < (n + 1)
      BY <2>5, <3>1
    <3>4. \A k \in DOMAIN ties : ties[k].request = r /\ ties[k].reply < (n + 1) =>
            k \in DOMAIN ts /\ ts[k] = ties[k] /\ ts[k].reply < (n + 1)
      BY <2>5, <3>2
    <3> QED BY <3>3, <3>4, SameTiesSameLack
  <2>9. Lacks(pg, ts, p.position, n + 1) = p.wanted \ turn.keys
    <3>1. p.wanted = Lacks(pg, ties, p.position, n + 1)
      BY <1>1, <2>3 DEF Stands
    <3>2. \A k \in DOMAIN ts : k \in DOMAIN ties \/ k = Len(ties) + 1
      BY <2>5
    <3>3. pg[ts[Len(ties) + 1].reply].keys = turn.keys
      BY <1>1, <2>5
    <3>4. Len(ties) + 1 \in DOMAIN ts /\ ts[Len(ties) + 1].reply < n + 1
      BY <2>5, <2>0
    <3>5. \A h : h \in Lacks(pg, ts, p.position, n + 1)
                  <=> h \in Lacks(pg, ties, p.position, n + 1) /\ h \notin turn.keys
      <4>1. \A k \in DOMAIN ties : k \in DOMAIN ts /\ ts[k] = ties[k]
        BY <2>5
      <4>2. ts[Len(ties) + 1].request = p.position
        BY <2>5
      <4> QED BY <3>2, <3>3, <3>4, <4>1, <4>2 DEF Lacks
    <3> QED BY <3>1, <3>5
  <2>10. Lacks(pg, ties, p.position, n) = p.wanted
    <3>1. \A k \in DOMAIN ties : ties[k].reply < n /\ ties[k].reply < n + 1
      BY <2>6, <2>0
    <3> QED BY <1>1, <2>3, <3>1 DEF Stands, Lacks
  <2>11. left.wanted = p.wanted \ turn.keys
         /\ left = [p EXCEPT !.replies = p.replies + 1, !.wanted = left.wanted]
    <3>1. p.keyed \/ p.wanted = {}
      BY <2>3 DEF Stands, Lacks
    <3> QED BY <2>2, <3>1 DEF Delivered, ByHash, Pending, left
  <2>12. Fits(pg, ts, Len(ties) + 1, c.exchange)
    <3>1. /\ p.position < n /\ pg[n] = turn /\ ~Skipped(pg[p.position])
          /\ pg[p.position].peer = turn.peer
          /\ pg[p.position].direction = Opposite[turn.direction]
          /\ pg[p.position].command = Table[c.exchange].request
          /\ pg[p.position].timestamp = p.timestamp
      BY <1>1, <2>3, <2>0, TurnType, NoPeerAssumption DEF Stands, Skipped
    <3>2. ~Table[c.exchange].multi =>
            ~\E j \in DOMAIN ts : ts[j].request = p.position /\ ts[j].reply < n
      <4>1. \A j \in DOMAIN ts : j \in DOMAIN ties \/ ts[j].reply = n
        BY <2>5
      <4>2. ~(n < n)
        BY <2>0
      <4>3. ~Table[c.exchange].multi => \A j \in DOMAIN ties : ties[j].request # p.position
        BY <2>3 DEF Stands
      <4> QED BY <2>5, <4>1, <4>2, <4>3
    <3>3. Lacks(pg, ts, p.position, n) = p.wanted
      BY <2>7, <2>10, <2>0
    <3>4. p.keyed <=> pg[p.position].keys # {}
      BY <2>3 DEF Stands
    <3>5. p.keyed => p.wanted # {}
      BY <2>3 DEF Stands
    <3>6. p.keyed /\ turn.keys # {} => turn.keys \cap p.wanted # {}
      BY <2>2 DEF MayAnswer, ByHash
    <3>7. p.position < n /\ ~Skipped(turn) /\ ~Skipped(pg[p.position])
      BY <3>1
    <3>8. /\ pg[p.position].keys # {} => p.wanted # {}
          /\ pg[p.position].keys # {} /\ turn.keys # {} => turn.keys \cap p.wanted # {}
      BY <3>4, <3>5, <3>6
    <3>9. /\ ts[Len(ties) + 1].request = p.position
          /\ ts[Len(ties) + 1].reply = n
      BY <2>5
    <3> HIDE DEF pg
    <3> QED BY <2>2, <3>1, <3>2, <3>3, <3>7, <3>8, <3>9 DEF Fits
  <2>13. ASSUME NEW k \in DOMAIN ties, NEW e \in Exchanges, Fits(pg, ties, k, e)
         PROVE  Fits(pg, ts, k, e)
    <3>1. Lacks(pg, ts, ties[k].request, ties[k].reply) = Lacks(pg, ties, ties[k].request, ties[k].reply)
      <4>1. ties[k].reply \in Nat /\ ties[k].reply <= n
        BY <2>0, <2>6
      <4> QED BY <2>7, <4>1
    <3>2. \A j \in DOMAIN ts : ts[j].reply < ties[k].reply => j \in DOMAIN ties
      BY <2>5, <2>6, <2>0
    <3> QED BY <2>5, <2>13, <3>1, <3>2 DEF Fits
  <2>14. Tied(pg, ts)
    <3>0. \A k \in DOMAIN ts : k \in DOMAIN ties \/ k = Len(ties) + 1
      BY <2>5
    <3>1. ASSUME NEW k \in DOMAIN ts
          PROVE  ts[k].request < ts[k].reply /\ ts[k].reply <= Len(pg)
      <4>1. CASE k \in DOMAIN ties
        BY <1>1, <2>5, <4>1 DEF Tied
      <4>2. CASE k = Len(ties) + 1
        <5>1. ts[k].request = p.position /\ ts[k].reply = n
          BY <2>5, <4>2
        <5>2. p.position <= Len(page) /\ p.position \in Nat
          BY <1>2, <2>3
        <5>3. Len(pg) = n
          BY <1>1, <2>0
        <5> QED BY <1>2, <2>0, <5>1, <5>2, <5>3
      <4> QED BY <3>0, <4>1, <4>2
    <3>2. ASSUME NEW j \in DOMAIN ts, NEW k \in DOMAIN ts, j < k
          PROVE  ts[j].reply < ts[k].reply
      <4>1. j \in DOMAIN ties
        BY <2>5, <3>2
      <4>2. CASE k \in DOMAIN ties
        BY <1>1, <2>5, <3>2, <4>1, <4>2 DEF Tied
      <4>3. CASE k = Len(ties) + 1
        BY <2>5, <2>6, <4>1, <4>3
      <4> QED BY <3>0, <4>2, <4>3
    <3>3. ASSUME NEW k \in DOMAIN ts
          PROVE  \E e \in Exchanges : Fits(pg, ts, k, e)
      <4>1. CASE k \in DOMAIN ties
        BY <1>1, <2>13, <4>1 DEF Tied
      <4>2. CASE k = Len(ties) + 1
        BY <2>2, <2>12, <4>2
      <4> QED BY <3>0, <4>1, <4>2
    <3> QED BY <2>5, <3>1, <3>2, <3>3 DEF Tied
  <2>15. ASSUME NEW k \in OpenKeys, NEW i \in DOMAIN open[k], k # key \/ i # c.slot
         PROVE  Stands(pg, ts, k, open[k][i])
    <3>1. Stands(pg, ties, k, open[k][i])
      BY <1>1 DEF Listed
    <3>2. open[k][i].position # p.position
      <4>1. ASSUME open[k][i].position = open[key][c.slot].position
            PROVE  k = key /\ i = c.slot
        <5>1. Listed(pg, ties, k, open[k]) /\ Listed(pg, ties, key, open[key])
              /\ key \in OpenKeys /\ c.slot \in DOMAIN open[key]
          BY <1>1, <2>2
        <5> HIDE DEF pg
        <5> QED BY <4>1, <5>1, PositionsDiffer
      <4>2. p = open[key][c.slot]
        BY DEF p, key
      <4> QED BY <2>2, <2>15, <4>1, <4>2
    <3>3. \A j \in DOMAIN ts : ts[j].request = open[k][i].position => j \in DOMAIN ties
      BY <2>5, <3>2
    <3>4. Lacks(pg, ts, open[k][i].position, n + 1) = Lacks(pg, ties, open[k][i].position, n + 1)
      BY <2>8, <3>2
    <3> QED BY <1>1, <2>5, <3>1, <3>3, <3>4 DEF Stands
  <2>18. ASSUME Listed(pg, ts, key, list), \A i \in DOMAIN list : list[i].position <= Len(page)
         PROVE  /\ Tied(pg, m.ties)
                /\ DOMAIN m.open = OpenKeys
                /\ \A k \in OpenKeys :
                     /\ Listed(pg, m.ties, k, m.open[k])
                     /\ \A i \in DOMAIN m.open[k] : m.open[k][i].position <= Len(page)
    <3> HIDE DEF m
    <3>1. m.ties = ts /\ DOMAIN m.open = OpenKeys /\ m.open[key] = list
          /\ \A k \in OpenKeys \ {key} : m.open[k] = open[k]
      BY <1>1, <2>1, <2>2
    <3>2. ASSUME NEW k \in OpenKeys, k # key
          PROVE  Listed(pg, ts, k, open[k]) /\ \A i \in DOMAIN open[k] : open[k][i].position <= Len(page)
      BY <1>1, <1>2, <1>3, <2>15, <3>2 DEF Listed
    <3> QED BY <2>14, <2>18, <3>1, <3>2
  <2>16. CASE Closes(c.exchange, left)
    <3>1. list = RemoveAt(open[key], c.slot)
      BY <2>16 DEF list
    <3>2. open[key] \in Seq(Pending) /\ c.slot \in 1..Len(open[key])
          /\ Len(open[key]) \in Nat /\ Len(open[key]) <= LocalOpen
          /\ \A i, j \in DOMAIN open[key] : i < j => open[key][i].position < open[key][j].position
      BY <1>1, <2>2, LenProperties DEF Listed
    <3>3. /\ list \in Seq(Pending) /\ Len(list) = Len(open[key]) - 1
          /\ \A i, j \in DOMAIN list : i < j => list[i].position < list[j].position
          /\ \A i \in DOMAIN list : \E j \in DOMAIN open[key] \ {c.slot} : list[i] = open[key][j]
      BY <3>1, <3>2, ShorterList
    <3>4. Listed(pg, ts, key, list)
      BY <2>2, <2>15, <3>2, <3>3, LocalOpenAssumption DEF Listed
    <3>5. \A i \in DOMAIN list : list[i].position <= Len(page)
      BY <1>2, <1>3, <2>2, <3>3
    <3> QED BY <3>4, <3>5, <2>18 DEF n
  <2>17. CASE ~Closes(c.exchange, left)
    <3>1. list = [open[key] EXCEPT ![c.slot] = left]
      BY <2>17 DEF list
    <3>2. left \in Pending /\ left.position = p.position
      <4>1. left.wanted \in SUBSET Hashes /\ p.replies + 1 \in Nat
        BY <2>2, <2>11 DEF Pending
      <4> QED BY <2>2, <2>11, <4>1 DEF Pending
    <3>3. Stands(pg, ts, key, left)
      <4>1. /\ left.timestamp = p.timestamp /\ left.keyed = p.keyed
            /\ left.wanted = Lacks(pg, ts, left.position, Len(pg) + 1)
        BY <1>1, <2>2, <2>9, <2>11, <3>2 DEF Pending
      <4>2. Table[key.exchange].multi /\ (left.keyed => left.wanted # {})
        BY <2>3, <2>17 DEF Closes
      <4> QED BY <2>3, <3>2, <4>1, <4>2 DEF Stands
    <3>4. Listed(pg, ts, key, list)
      <4>1. open[key] \in Seq(Pending) /\ c.slot \in 1..Len(open[key])
            /\ DOMAIN open[key] = 1..Len(open[key]) /\ Len(open[key]) <= LocalOpen
        BY <1>1, <2>2, LenProperties DEF Listed
      <4>2. /\ list \in Seq(Pending) /\ Len(list) = Len(open[key])
            /\ \A i \in 1..Len(open[key]) :
                 list[i] = IF i = c.slot THEN left ELSE open[key][i]
        BY <3>1, <3>2, <4>1, ExceptSeq
      <4>3. DOMAIN list = DOMAIN open[key]
        BY <4>1, <4>2, LenProperties
      <4>4. \A i \in DOMAIN list : Stands(pg, ts, key, list[i])
        BY <2>2, <2>15, <3>3, <4>1, <4>2, <4>3
      <4>5. \A i \in DOMAIN list : list[i].position = open[key][i].position
        BY <3>2, <4>1, <4>2, <4>3 DEF p
      <4>6. \A i, j \in DOMAIN list : i < j => list[i].position < list[j].position
        BY <1>1, <2>2, <4>3, <4>5 DEF Listed
      <4> QED BY <4>1, <4>2, <4>4, <4>6 DEF Listed
    <3>5. \A i \in DOMAIN list : list[i].position <= Len(page)
      <4>1. DOMAIN list = DOMAIN open[key]
        BY <3>1
      <4>2. \A i \in DOMAIN list : list[i] = IF i = c.slot THEN left ELSE open[key][i]
        BY <3>1, <4>1
      <4> QED BY <1>2, <1>3, <2>2, <2>3, <3>2, <4>1, <4>2
    <3> QED BY <3>4, <3>5, <2>18 DEF n
  <2> QED BY <2>16, <2>17
<1> QED BY <1>4, <1>5

-----------------------------------------------------------------------------
(* The request: it stands at the end of its list, lacking all it names. *)
LEMMA RequestStep ==
  ASSUME NEW pg \in Seq(Turns), NEW n \in Nat \ {0}, NEW turn \in Turns, NEW m,
         Len(pg) = n, pg[n] = turn, ~Skipped(turn),
         Tied(pg, m.ties), DOMAIN m.open = OpenKeys,
         \A key \in OpenKeys :
           /\ Listed(pg, m.ties, key, m.open[key])
           /\ \A i \in DOMAIN m.open[key] : m.open[key][i].position < n,
         NEW key \in OpenKeys
  PROVE  Listed(pg, m.ties, key, AfterRequest(m, n, turn).open[key])
<1> DEFINE list == m.open[key]
           new == NewPending(n, turn)
           room == Room(list)
<1>1. AfterRequest(m, n, turn).open[key] =
        IF /\ Table[key.exchange].request = turn.command
           /\ key = OpenKey(turn, key.exchange, turn.direction)
        THEN Append(room, new)
        ELSE list
  BY DEF AfterRequest
<1>2. CASE ~(/\ Table[key.exchange].request = turn.command
            /\ key = OpenKey(turn, key.exchange, turn.direction))
  BY <1>1, <1>2
<1>3. CASE /\ Table[key.exchange].request = turn.command
          /\ key = OpenKey(turn, key.exchange, turn.direction)
  <2>1. new \in Pending /\ new.position = n
    BY TurnType DEF NewPending, Pending
  <2>2. Stands(pg, m.ties, key, new)
    <3>1. DOMAIN pg = 1..n
      BY LenProperties
    <3>2. key.peer = turn.peer /\ key.direction = turn.direction
      BY <1>3 DEF OpenKey
    <3>3. ASSUME NEW k \in DOMAIN m.ties
          PROVE  m.ties[k].request # n
      <4>1. m.ties[k] \in [request : Nat \ {0}, reply : Nat, elapsed : Nat]
        BY TieTypes
      <4> QED BY <4>1 DEF Tied
    <3>4. Lacks(pg, m.ties, n, n + 1) = turn.keys
      BY <3>3 DEF Lacks
    <3>5. /\ new.timestamp = turn.timestamp /\ new.wanted = turn.keys
          /\ new.keyed <=> turn.keys # {}
      BY DEF NewPending
    <3> HIDE DEF new
    <3> QED BY <1>3, <2>1, <3>1, <3>2, <3>3, <3>4, <3>5 DEF Stands
  <2>3. /\ list \in Seq(Pending) /\ Len(list) \in Nat /\ Len(list) <= LocalOpen
        /\ DOMAIN list = 1..Len(list)
        /\ \A i, j \in DOMAIN list : i < j => list[i].position < list[j].position
        /\ \A i \in DOMAIN list : Stands(pg, m.ties, key, list[i]) /\ list[i].position < n
    BY LenProperties DEF Listed
  <2> HIDE DEF list, new, room
  <2>4. /\ room \in Seq(Pending) /\ Len(room) < LocalOpen
        /\ \A i, j \in DOMAIN room : i < j => room[i].position < room[j].position
        /\ \A i \in DOMAIN room : Stands(pg, m.ties, key, room[i]) /\ room[i].position < n
    <3>1. CASE Len(list) >= LocalOpen
      <4>1. list # <<>> /\ room = Tail(list)
        BY <2>3, <3>1, LocalOpenAssumption DEF Room, room
      <4>2. /\ room \in Seq(Pending) /\ Len(room) = Len(list) - 1
            /\ \A i \in 1..Len(room) : room[i] = list[i + 1]
        BY <2>3, <4>1, HeadTailProperties
      <4>3. DOMAIN room = 1..(Len(list) - 1)
        BY <4>2, LenProperties
      <4>4. \A i \in DOMAIN room : i + 1 \in DOMAIN list /\ room[i] = list[i + 1]
        BY <2>3, <4>2, <4>3
      <4>5. ASSUME NEW i \in DOMAIN room, NEW j \in DOMAIN room, i < j
            PROVE  room[i].position < room[j].position
        BY <2>3, <4>3, <4>4, <4>5
      <4> QED BY <2>3, <4>2, <4>4, <4>5, LocalOpenAssumption
    <3>2. CASE ~(Len(list) >= LocalOpen)
      BY <2>3, <3>2, LocalOpenAssumption DEF Room, room
    <3> QED BY <3>1, <3>2
  <2>5. /\ Append(room, new) \in Seq(Pending)
        /\ Len(Append(room, new)) = Len(room) + 1
        /\ \A i \in 1..Len(room) : Append(room, new)[i] = room[i]
        /\ Append(room, new)[Len(room) + 1] = new
    BY <2>1, <2>4, AppendProperties
  <2>6. /\ Len(room) \in Nat /\ DOMAIN room = 1..Len(room)
        /\ DOMAIN Append(room, new) = 1..(Len(room) + 1)
    BY <2>4, <2>5, LenProperties
  <2> DEFINE longer == Append(room, new)
  <2> HIDE DEF longer
  <2>7. \A i \in DOMAIN longer : i \in DOMAIN room \/ i = Len(room) + 1
    BY <2>6 DEF longer
  <2>8. ASSUME NEW i \in DOMAIN longer
        PROVE  Stands(pg, m.ties, key, longer[i])
    BY <2>2, <2>4, <2>5, <2>6, <2>7 DEF longer
  <2>9. ASSUME NEW i \in DOMAIN longer, NEW j \in DOMAIN longer, i < j
        PROVE  longer[i].position < longer[j].position
    <3>1. i \in DOMAIN room /\ longer[i] = room[i]
      BY <2>5, <2>6, <2>9 DEF longer
    <3>2. CASE j \in DOMAIN room
      BY <2>4, <2>5, <2>6, <2>9, <3>1, <3>2 DEF longer
    <3>3. CASE j = Len(room) + 1
      BY <2>1, <2>4, <2>5, <3>1, <3>3 DEF longer
    <3> QED BY <2>7, <3>2, <3>3
  <2>10. Len(longer) <= LocalOpen
    BY <2>4, <2>5, <2>6, LocalOpenAssumption DEF longer
  <2>11. Listed(pg, m.ties, key, longer)
    BY <2>5, <2>8, <2>9, <2>10 DEF Listed, longer
  <2> QED BY <1>1, <1>3, <2>11 DEF longer
<1> QED BY <1>2, <1>3

-----------------------------------------------------------------------------
(* The invariant holds at first, and every turn keeps it. *)
LEMMA InitInv == Init => IInv
BY LocalOpenAssumption DEF Init, Unmatched, IInv, Tied, Listed

LEMMA NextInv == IInv /\ [Next]_vars => IInv'
<1> SUFFICES ASSUME IInv, [Next]_vars PROVE IInv'
  OBVIOUS
<1>1. CASE UNCHANGED vars
  BY <1>1 DEF vars, IInv
<1>2. ASSUME NEW row \in Rows, ReadRow(row)
      PROVE  IInv'
  <2> DEFINE turn == TurnOf(row)
             m == [open |-> open, ties |-> ties]
             n == Len(page) + 1
             after == MatchTurn(m, n, turn)
  <2>1. turn \in Turns /\ page' = Append(page, turn) /\ open' = after.open /\ ties' = after.ties
    BY <1>2 DEF ReadRow, Turns
  <2> HIDE DEF turn
  <2>2. /\ page' \in Seq(Turns) /\ Len(page') = n /\ page'[n] = turn
        /\ Tied(page', ties)
        /\ \A key \in OpenKeys : Listed(page', ties, key, open[key])
    BY <2>1, PageGrows
  <2>3. CASE Skipped(turn)
    <3>1. open' = open /\ ties' = ties
      BY <2>1, <2>3 DEF MatchTurn
    <3> QED BY <2>2, <3>1 DEF IInv
  <2>4. CASE ~Skipped(turn)
    <3> DEFINE replied == AfterReply(m, n, turn)
    <3>1. /\ Tied(page', replied.ties)
          /\ DOMAIN replied.open = OpenKeys
          /\ \A key \in OpenKeys :
               /\ Listed(page', replied.ties, key, replied.open[key])
               /\ \A i \in DOMAIN replied.open[key] : replied.open[key][i].position <= Len(page)
      BY <2>1, <2>4, ReplyStep
    <3>2. after = AfterRequest(replied, n, turn)
      BY <2>4 DEF MatchTurn
    <3> HIDE DEF replied, after
    <3>3. after.ties = replied.ties /\ DOMAIN after.open = OpenKeys
      <4>1. after = [replied EXCEPT !.open = after.open]
        BY <3>2 DEF AfterRequest
      <4> QED BY <3>2, <4>1 DEF AfterRequest
    <3>4. ASSUME NEW key \in OpenKeys
          PROVE  Listed(page', replied.ties, key, after.open[key])
      <4>1. n \in Nat \ {0} /\ \A x \in Nat : x <= Len(page) <=> x < n
        BY LenProperties DEF IInv
      <4>2. ASSUME NEW k \in OpenKeys, NEW i \in DOMAIN replied.open[k]
            PROVE  replied.open[k][i].position < n
        <5>1. replied.open[k][i] \in Pending
          BY <3>1, LenProperties DEF Listed
        <5> QED BY <3>1, <4>1, <5>1 DEF Pending
      <4> HIDE DEF n
      <4>3. Listed(page', replied.ties, key, AfterRequest(replied, n, turn).open[key])
        BY <2>1, <2>2, <2>4, <3>1, <4>1, <4>2, RequestStep
      <4> QED BY <3>2, <4>3
    <3> QED BY <2>1, <2>2, <3>1, <3>3, <3>4 DEF IInv
  <2> QED BY <2>3, <2>4
<1> QED BY <1>1, <1>2 DEF Next

LEMMA Invariant == Spec => []IInv
BY InitInv, NextInv, PTL DEF Spec

-----------------------------------------------------------------------------
(***************************************************************************)
(* The lists stay within LOCAL_OPEN and in the order of the page, hold no  *)
(* finished request, and the ties point forward, whatever the page holds.  *)
(***************************************************************************)
THEOREM TypeCorrect == Spec => []TypeOK
<1>1. IInv => TypeOK
  <2> SUFFICES ASSUME IInv PROVE TypeOK
    OBVIOUS
  <2>1. ASSUME NEW key \in OpenKeys
        PROVE  /\ open[key] \in Seq(Pending) /\ Len(open[key]) <= LocalOpen
               /\ \A i, j \in DOMAIN open[key] :
                    i < j => open[key][i].position < open[key][j].position
               /\ \A i \in DOMAIN open[key] : open[key][i].keyed => open[key][i].wanted # {}
    BY DEF IInv, Listed, Stands
  <2>2. /\ \A i \in DOMAIN ties : ties[i].request < ties[i].reply /\ ties[i].reply <= Len(page)
        /\ \A i, j \in DOMAIN ties : i < j => ties[i].reply < ties[j].reply
    BY DEF IInv, Tied
  <2> QED BY <2>1, <2>2 DEF TypeOK, IInv
<1> QED BY <1>1, Invariant, PTL

(***************************************************************************)
(* A request absorbs no more than it asked for: each tie of a page joins   *)
(* a request to a reply it still lacked, whatever the exchanges, the       *)
(* messages and the length of the page.                                    *)
(***************************************************************************)
THEOREM NotOverfilled == Spec => []RequestsAreNotOverfilled
<1>1. IInv => RequestsAreNotOverfilled
  <2> SUFFICES ASSUME IInv, NEW t \in Range(ties)
               PROVE  \E e \in Exchanges : CouldAnswer(t.reply, t.request, e)
    BY DEF RequestsAreNotOverfilled
  <2>1. PICK k \in DOMAIN ties : t = ties[k]
    BY DEF Range
  <2>2. PICK e \in Exchanges : Fits(page, ties, k, e)
    BY DEF IInv, Tied
  <2>3. Missing(t.request, t.reply) = Lacks(page, ties, t.request, t.reply)
    BY DEF Missing, TiesTo, Range, Lacks
  <2>4. ~SettledBefore(t.request, e, t.reply)
    <3>1. ~Table[e].multi => ~\E u \in TiesTo(t.request) : u.reply < t.reply
      BY <2>1, <2>2 DEF Fits, TiesTo, Range
    <3>2. page[t.request].keys # {} => Missing(t.request, t.reply) # {}
      BY <2>1, <2>2, <2>3 DEF Fits
    <3> QED BY <3>1, <3>2 DEF SettledBefore
  <2> QED BY <2>1, <2>2, <2>3, <2>4 DEF Fits, CouldAnswer, Asks
<1> QED BY <1>1, Invariant, PTL

-----------------------------------------------------------------------------
(***************************************************************************)
(* What is remembered of a request: it is in its list, or it is settled,   *)
(* or LOCAL_OPEN further requests of its kind have pushed it out.          *)
(***************************************************************************)
Asked(pg, r, e) == ~Skipped(pg[r]) /\ Table[e].request = pg[r].command

KeyOf(pg, r, e) == OpenKey(pg[r], e, pg[r].direction)

Waits(pg, op, r, e) ==
  \E j \in DOMAIN op[KeyOf(pg, r, e)] : op[KeyOf(pg, r, e)][j].position = r

Settled(pg, ts, r, e, i) ==
  \/ ~Table[e].multi /\ \E k \in DOMAIN ts : ts[k].request = r /\ ts[k].reply < i
  \/ pg[r].keys # {} /\ Lacks(pg, ts, r, i) = {}

Repeats(pg, r, i) ==
  {s \in (r + 1)..(i - 1) : /\ pg[s].peer = pg[r].peer
                            /\ pg[s].command = pg[r].command
                            /\ pg[s].direction = pg[r].direction}

Remembered(pg, ts, op, n) ==
  \A r \in 1..(n - 1) : \A e \in Exchanges :
    Asked(pg, r, e) =>
      \/ Waits(pg, op, r, e)
      \/ Settled(pg, ts, r, e, n)
      \/ Cardinality(Repeats(pg, r, n)) >= LocalOpen

(* Turn i may answer request r; it names something that r still lacks. *)
Names(pg, ts, i, r) == pg[i].keys \cap Lacks(pg, ts, r, i) # {}

Could(pg, ts, i, r, e) ==
  /\ ~Skipped(pg[i]) /\ Asked(pg, r, e)
  /\ pg[r].peer = pg[i].peer
  /\ pg[r].direction = Opposite[pg[i].direction]
  /\ pg[i].command \in Table[e].replies
  /\ Age(pg[i].timestamp, pg[r].timestamp) <= Table[e].window
  /\ ~Settled(pg, ts, r, e, i)
  /\ pg[r].keys = {} \/ pg[i].keys = {} \/ Names(pg, ts, i, r)

(* Turn i is tied to a request no worse than r. *)
NoWorse(pg, ts, i, r) ==
  \E k \in DOMAIN ts :
    /\ ts[k].reply = i
    /\ Names(pg, ts, i, r) => Names(pg, ts, i, ts[k].request)
    /\ (Names(pg, ts, i, r) <=> Names(pg, ts, i, ts[k].request)) =>
         pg[ts[k].request].timestamp <= pg[r].timestamp

WellTied(pg, ts, n) ==
  \A i \in 1..(n - 1) : \A r \in 1..(i - 1) : \A e \in Exchanges :
    Could(pg, ts, i, r, e) /\ ~(Cardinality(Repeats(pg, r, i)) >= LocalOpen) =>
      NoWorse(pg, ts, i, r)

MInv ==
  /\ IInv
  /\ Remembered(page, ties, open, Len(page) + 1)
  /\ WellTied(page, ties, Len(page) + 1)

(* The best candidate is named by the turn if any is, and no older of its like
   is left. *)
LEMMA BestRank ==
  ASSUME IInv, NEW turn \in Turns, ~Skipped(turn), NEW d \in Candidates(open, turn)
  PROVE  LET b == PendingAt(open, turn, Best(open, turn))
             q == PendingAt(open, turn, d)
         IN /\ ByHash(q, turn) => ByHash(b, turn)
            /\ (ByHash(q, turn) <=> ByHash(b, turn)) => b.timestamp <= q.timestamp
<1> DEFINE best == Best(open, turn)
           b == PendingAt(open, turn, best)
           q == PendingAt(open, turn, d)
           named == ByHash(q, turn) => ByHash(b, turn)
           older == (ByHash(q, turn) <=> ByHash(b, turn)) => b.timestamp <= q.timestamp
<1> SUFFICES named /\ older
  OBVIOUS
<1>1. /\ best \in Candidates(open, turn)
      /\ d # best => Before(Rank(open, turn, best), Rank(open, turn, d))
  BY BestIsCandidate
<1> HIDE DEF best
<1>2. b.timestamp \in Nat /\ q.timestamp \in Nat
  BY <1>1, CandidateType DEF Pending
<1>3. CASE d = best
  BY <1>2, <1>3
<1>4. CASE d # best
  <2> DEFINE gb == IF ByHash(b, turn) THEN 0 ELSE 1
             gq == IF ByHash(q, turn) THEN 0 ELSE 1
             rb == Rank(open, turn, best)
             rq == Rank(open, turn, d)
  <2>1. /\ rb = <<gb, b.timestamp, best.exchange, best.slot>>
        /\ rq = <<gq, q.timestamp, d.exchange, d.slot>>
    BY DEF Rank
  <2>0. b.timestamp \in Nat /\ q.timestamp \in Nat
    BY <1>2
  <2> HIDE DEF b, q
  <2>2. /\ DOMAIN rb = 1..4 /\ rb[1] = gb /\ rb[2] = b.timestamp
        /\ rq[1] = gq /\ rq[2] = q.timestamp
    BY <2>1
  <2> HIDE DEF rb, rq
  <2>3. PICK i \in DOMAIN rb : rb[i] < rq[i] /\ \A j \in 1..(i - 1) : rb[j] = rq[j]
    BY <1>1, <1>4 DEF Before, rb, rq
  <2>4. CASE i = 1
    <3>1. gb < gq
      BY <2>2, <2>3, <2>4
    <3>2. ByHash(b, turn) /\ ~ByHash(q, turn)
      BY <3>1
    <3> QED BY <3>2
  <2>5. CASE i = 2
    <3>1. gb = gq /\ b.timestamp < q.timestamp
      BY <2>2, <2>3, <2>5
    <3>2. ByHash(q, turn) <=> ByHash(b, turn)
      BY <3>1
    <3>3. b.timestamp <= q.timestamp
      BY <2>0, <3>1
    <3> QED BY <3>2, <3>3
  <2>6. CASE i \in 3..4
    <3>1. gb = gq /\ b.timestamp = q.timestamp
      BY <2>2, <2>3, <2>6
    <3>2. ByHash(q, turn) <=> ByHash(b, turn)
      BY <3>1
    <3>3. b.timestamp <= q.timestamp
      BY <2>0, <3>1
    <3> QED BY <3>2, <3>3
  <2> QED BY <2>2, <2>3, <2>4, <2>5, <2>6
<1> QED BY <1>3, <1>4

(* The ties us are the ties ts and no more than the ones that turn n adds. *)
Extends(us, ts, n) ==
  /\ DOMAIN ts \subseteq DOMAIN us
  /\ \A k \in DOMAIN ts : us[k] = ts[k]
  /\ \A k \in DOMAIN us \ DOMAIN ts : us[k].reply = n

(* A reply adds at most one tie, its own, to the best candidate there is. *)
LEMMA ReplyTies ==
  ASSUME IInv, NEW turn \in Turns
  PROVE  LET n == Len(page) + 1
             us == AfterReply([open |-> open, ties |-> ties], n, turn).ties
             best == PendingAt(open, turn, Best(open, turn))
         IN /\ Extends(us, ties, n)
            /\ Candidates(open, turn) # {} =>
                 \E k \in DOMAIN us : us[k].request = best.position /\ us[k].reply = n
<1> DEFINE n == Len(page) + 1
           us == AfterReply([open |-> open, ties |-> ties], n, turn).ties
           best == PendingAt(open, turn, Best(open, turn))
           tie == Tie(best.position, n, Age(turn.timestamp, best.timestamp))
<1>1. CASE Candidates(open, turn) = {}
  <2>1. us = ties
    BY <1>1 DEF AfterReply
  <2> HIDE DEF us
  <2> QED BY <1>1, <2>1 DEF us, Extends
<1>2. CASE Candidates(open, turn) # {}
  <2>1. us = Append(ties, tie)
    BY <1>2 DEF AfterReply, PendingAt
  <2>2. tie.request = best.position /\ tie.reply = n
    BY DEF Tie
  <2> HIDE DEF us, tie, n, best
  <2>3. ties \in Seq([request : Nat \ {0}, reply : Nat, elapsed : Nat])
    BY DEF IInv, Tied
  <2>4. /\ DOMAIN ties = 1..Len(ties) /\ Len(ties) \in Nat
        /\ DOMAIN us = 1..(Len(ties) + 1)
        /\ \A k \in 1..Len(ties) : us[k] = ties[k]
        /\ us[Len(ties) + 1] = tie
    BY <2>1, <2>3
  <2>5. \A k \in DOMAIN us : k \in DOMAIN ties \/ k = Len(ties) + 1
    BY <2>4
  <2>6. Len(ties) + 1 \in DOMAIN us /\ DOMAIN ties \subseteq DOMAIN us
    BY <2>4
  <2>7. \E k \in DOMAIN us : us[k].request = best.position /\ us[k].reply = n
    BY <2>2, <2>4, <2>6
  <2>8. \A k \in DOMAIN us \ DOMAIN ties : us[k].reply = n
    BY <2>2, <2>4, <2>5
  <2>9. Extends(us, ties, n)
    BY <2>4, <2>6, <2>8 DEF Extends
  <2> QED BY <2>7, <2>9 DEF us, n, best
<1> QED BY <1>1, <1>2

(* What came before turn n is told by the ties of the turns before it. *)
LEMMA EarlierTies ==
  ASSUME NEW pg, NEW n \in Nat, NEW ts, NEW us,
         Extends(us, ts, n), NEW r, NEW i \in Nat, i <= n
  PROVE  /\ Lacks(pg, us, r, i) = Lacks(pg, ts, r, i)
         /\ \A e : Settled(pg, us, r, e, i) <=> Settled(pg, ts, r, e, i)
<1>1. \A k \in DOMAIN us : us[k].reply < i => k \in DOMAIN ts
  BY DEF Extends
<1>2. \A k \in DOMAIN us : us[k].request = r /\ us[k].reply < i =>
        k \in DOMAIN ts /\ ts[k] = us[k] /\ ts[k].reply < i
  BY <1>1 DEF Extends
<1>3. \A k \in DOMAIN ts : ts[k].request = r /\ ts[k].reply < i =>
        k \in DOMAIN us /\ us[k] = ts[k] /\ us[k].reply < i
  BY DEF Extends
<1>4. Lacks(pg, us, r, i) = Lacks(pg, ts, r, i)
  BY <1>2, <1>3, SameTiesSameLack
<1>5. (\E k \in DOMAIN us : us[k].request = r /\ us[k].reply < i)
        <=> \E k \in DOMAIN ts : ts[k].request = r /\ ts[k].reply < i
  BY <1>2, <1>3
<1> QED BY <1>4, <1>5 DEF Settled

(* Nor does the turn itself change what a request of the page lacked before. *)
LEMMA EarlierPage ==
  ASSUME IInv, NEW turn \in Turns, NEW r \in 1..Len(page),
         NEW i \in Nat, i <= Len(page) + 1
  PROVE  LET pg == Append(page, turn)
         IN /\ pg[r] = page[r]
            /\ Lacks(pg, ties, r, i) = Lacks(page, ties, r, i)
            /\ \A e : Settled(pg, ties, r, e, i) <=> Settled(page, ties, r, e, i)
            /\ \A e : Asked(pg, r, e) <=> Asked(page, r, e)
            /\ Repeats(pg, r, i) = Repeats(page, r, i)
<1> DEFINE pg == Append(page, turn)
<1>1. /\ Len(page) \in Nat
      /\ \A j \in 1..Len(page) : pg[j] = page[j]
  BY AppendProperties, LenProperties DEF IInv
<1> HIDE DEF pg
<1>2. \A k \in DOMAIN ties : ties[k].reply \in 1..Len(page)
  <2>1. \A k \in DOMAIN ties : ties[k] \in [request : Nat \ {0}, reply : Nat, elapsed : Nat]
    BY TieType
  <2> QED BY <1>1, <2>1 DEF IInv, Tied
<1>3. pg[r] = page[r]
  BY <1>1
<1>4. Lacks(pg, ties, r, i) = Lacks(page, ties, r, i)
  BY <1>1, <1>2, <1>3 DEF Lacks
<1>5. \A e : Settled(pg, ties, r, e, i) <=> Settled(page, ties, r, e, i)
  BY <1>3, <1>4 DEF Settled
<1>6. \A e : Asked(pg, r, e) <=> Asked(page, r, e)
  BY <1>3 DEF Asked
<1>7. Repeats(pg, r, i) = Repeats(page, r, i)
  <2>1. \A s \in (r + 1)..(i - 1) : pg[s] = page[s]
    BY <1>1
  <2> QED BY <1>3, <2>1 DEF Repeats
<1> QED BY <1>3, <1>4, <1>5, <1>6, <1>7 DEF pg

(* More turns, more repeats. *)
LEMMA RepeatsGrow ==
  ASSUME NEW pg, NEW r \in Nat, NEW i \in Nat
  PROVE  /\ IsFiniteSet(Repeats(pg, r, i)) /\ Cardinality(Repeats(pg, r, i)) \in Nat
         /\ Cardinality(Repeats(pg, r, i)) >= LocalOpen =>
              Cardinality(Repeats(pg, r, i + 1)) >= LocalOpen
<1>1. \A j \in Nat : IsFiniteSet(Repeats(pg, r, j)) /\ Cardinality(Repeats(pg, r, j)) \in Nat
  <2> SUFFICES ASSUME NEW j \in Nat
               PROVE  IsFiniteSet(Repeats(pg, r, j)) /\ Cardinality(Repeats(pg, r, j)) \in Nat
    OBVIOUS
  <2>1. IsFiniteSet((r + 1)..(j - 1))
    BY FS_Interval
  <2>2. Repeats(pg, r, j) \in SUBSET ((r + 1)..(j - 1))
    BY DEF Repeats
  <2>3. IsFiniteSet(Repeats(pg, r, j))
    BY <2>1, <2>2, FS_Subset
  <2> QED BY <2>3, FS_CardinalityType
<1>2. Repeats(pg, r, i) \in SUBSET Repeats(pg, r, i + 1)
  BY DEF Repeats
<1>3. Cardinality(Repeats(pg, r, i)) <= Cardinality(Repeats(pg, r, i + 1))
  BY <1>1, <1>2, FS_Subset
<1> QED BY <1>1, <1>3, LocalOpenAssumption

(* A request that a turn could answer and that still waits is a candidate. *)
LEMMA CouldIsCandidate ==
  ASSUME IInv, NEW turn \in Turns, NEW r \in 1..Len(page), NEW e \in Exchanges,
         Could(Append(page, turn), ties, Len(page) + 1, r, e),
         Waits(page, open, r, e)
  PROVE  \E d \in Candidates(open, turn) :
           /\ PendingAt(open, turn, d).position = r
           /\ PendingAt(open, turn, d).timestamp = page[r].timestamp
           /\ ByHash(PendingAt(open, turn, d), turn)
                <=> Names(Append(page, turn), ties, Len(page) + 1, r)
<1> DEFINE n == Len(page) + 1
           pg == Append(page, turn)
           key == OpenKey(turn, e, Opposite[turn.direction])
<1>1. pg[n] = turn /\ pg[r] = page[r] /\ Len(page) \in Nat
      /\ Lacks(pg, ties, r, n) = Lacks(page, ties, r, n)
  <2>1. Len(page) \in Nat /\ n \in Nat /\ n <= Len(page) + 1
    BY LenProperties DEF IInv
  <2>2. pg[n] = turn
    BY PageGrows, LenProperties DEF IInv
  <2> QED BY <2>1, <2>2, EarlierPage
<1> HIDE DEF pg, n
<1>2. /\ ~Skipped(turn) /\ Asked(pg, r, e)
      /\ page[r].peer = turn.peer
      /\ page[r].direction = Opposite[turn.direction]
      /\ turn.command \in Table[e].replies
      /\ Age(turn.timestamp, page[r].timestamp) <= Table[e].window
      /\ page[r].keys = {} \/ turn.keys = {} \/ Names(pg, ties, n, r)
  BY <1>1 DEF Could, pg, n
<1>3. key = KeyOf(page, r, e) /\ key \in OpenKeys
  BY <1>2, TurnType DEF KeyOf, OpenKey, OpenKeys
<1>4. PICK j \in DOMAIN open[key] : open[key][j].position = r
  BY <1>3 DEF Waits
<1> DEFINE d == [exchange |-> e, slot |-> j]
           p == open[key][j]
<1>5. PendingAt(open, turn, d) = p
  BY DEF PendingAt
<1>6. Stands(page, ties, key, p) /\ Listed(page, ties, key, open[key])
  BY <1>3, <1>4 DEF IInv, Listed
<1>7. /\ p.timestamp = page[r].timestamp
      /\ p.keyed <=> page[r].keys # {}
      /\ p.keyed => p.wanted # {}
      /\ p.wanted = Lacks(pg, ties, r, n)
  BY <1>1, <1>4, <1>6 DEF Stands, n
<1>8. ByHash(p, turn) <=> Names(pg, ties, n, r)
  <2>1. p.keyed \/ p.wanted = {}
    BY <1>6, <1>4, <1>7 DEF Stands, Lacks
  <2> HIDE DEF p
  <2>2. Names(pg, ties, n, r) <=> turn.keys \cap p.wanted # {}
    BY <1>1, <1>7 DEF Names
  <2> QED BY <2>1, <2>2 DEF ByHash
<1>9. MayAnswer(turn, p)
  BY <1>2, <1>7, <1>8 DEF MayAnswer
<1>10. d \in Candidates(open, turn)
  <2>1. j \in 1..LocalOpen
    <3>1. DOMAIN open[key] = 1..Len(open[key]) /\ Len(open[key]) \in Nat /\ Len(open[key]) <= LocalOpen
      BY <1>6, LenProperties DEF Listed
    <3> QED BY <1>4, <3>1, LocalOpenAssumption
  <2>2. d \in [exchange : Exchanges, slot : 1..LocalOpen]
    BY <2>1
  <2>3. d.exchange = e /\ d.slot = j
    OBVIOUS
  <2>4. /\ turn.command \in Table[d.exchange].replies
        /\ d.slot \in DOMAIN open[OpenKey(turn, d.exchange, Opposite[turn.direction])]
        /\ Age(turn.timestamp, PendingAt(open, turn, d).timestamp) <= Table[d.exchange].window
        /\ MayAnswer(turn, PendingAt(open, turn, d))
    <3> HIDE DEF d, p
    <3> QED BY <1>2, <1>4, <1>5, <1>7, <1>9, <2>3
  <2> QED BY <2>2, <2>4 DEF Candidates
<1>11. p.position = r
  BY <1>4
<1> HIDE DEF d, p
<1> QED BY <1>5, <1>7, <1>8, <1>10, <1>11 DEF pg, n

(* The turn itself is tied to no worse a request than any it could answer. *)
LEMMA TurnWellTied ==
  ASSUME MInv, NEW turn \in Turns, NEW us,
         us = AfterReply([open |-> open, ties |-> ties], Len(page) + 1, turn).ties,
         NEW r \in 1..Len(page), NEW e \in Exchanges,
         Could(Append(page, turn), us, Len(page) + 1, r, e),
         ~(Cardinality(Repeats(Append(page, turn), r, Len(page) + 1)) >= LocalOpen)
  PROVE  NoWorse(Append(page, turn), us, Len(page) + 1, r)
<1> DEFINE n == Len(page) + 1
           pg == Append(page, turn)
           b == PendingAt(open, turn, Best(open, turn))
<1>1. IInv /\ Remembered(page, ties, open, n)
  BY DEF MInv
<1>2. Len(page) \in Nat /\ n \in Nat
  BY <1>1, LenProperties DEF IInv
<1>3. /\ Extends(us, ties, n)
      /\ Candidates(open, turn) # {} =>
           \E k \in DOMAIN us : us[k].request = b.position /\ us[k].reply = n
  BY <1>1, ReplyTies
<1> HIDE DEF pg, b
<1>4. \A x : /\ Lacks(pg, us, x, n) = Lacks(pg, ties, x, n)
             /\ \A f : Settled(pg, us, x, f, n) <=> Settled(pg, ties, x, f, n)
  <2> HIDE DEF n
  <2>1. n <= n
    BY <1>2
  <2> HIDE DEF n
  <2> QED BY <1>2, <1>3, <2>1, EarlierTies
<1>5. Could(pg, ties, n, r, e)
  <2>1. Could(pg, us, n, r, e)
    BY DEF pg
  <2>2. Names(pg, us, n, r) <=> Names(pg, ties, n, r)
    BY <1>4 DEF Names
  <2> QED BY <1>4, <2>1, <2>2 DEF Could
<1>6. /\ pg[r] = page[r]
      /\ Settled(pg, ties, r, e, n) <=> Settled(page, ties, r, e, n)
      /\ Asked(pg, r, e) <=> Asked(page, r, e)
      /\ Repeats(pg, r, n) = Repeats(page, r, n)
  <2>1. n <= Len(page) + 1
    BY <1>2
  <2> QED BY <1>1, <1>2, <2>1, EarlierPage DEF pg
<1>7. Waits(page, open, r, e)
  <2>1. ~Settled(page, ties, r, e, n) /\ Asked(page, r, e)
    BY <1>5, <1>6 DEF Could
  <2>2. r \in 1..(n - 1)
    BY <1>2
  <2>3. ~(Cardinality(Repeats(page, r, n)) >= LocalOpen)
    BY <1>6 DEF pg
  <2> QED BY <1>1, <2>1, <2>2, <2>3 DEF Remembered
<1>8. PICK d \in Candidates(open, turn) :
           /\ PendingAt(open, turn, d).position = r
           /\ PendingAt(open, turn, d).timestamp = page[r].timestamp
           /\ ByHash(PendingAt(open, turn, d), turn) <=> Names(pg, ties, n, r)
  BY <1>1, <1>5, <1>7, CouldIsCandidate DEF pg
<1>9. ~Skipped(turn)
  <2>1. pg[n] = turn
    BY <1>1, <1>2, PageGrows DEF pg
  <2> QED BY <1>5, <2>1 DEF Could
<1> DEFINE q == PendingAt(open, turn, d)
           best == Best(open, turn)
           key == OpenKey(turn, best.exchange, Opposite[turn.direction])
<1>10. /\ ByHash(q, turn) => ByHash(b, turn)
       /\ (ByHash(q, turn) <=> ByHash(b, turn)) => b.timestamp <= q.timestamp
  BY <1>1, <1>8, <1>9, BestRank DEF b
<1>11. key \in OpenKeys /\ best.slot \in DOMAIN open[key] /\ b = open[key][best.slot]
  BY <1>1, <1>8, <1>9, BestIsCandidate, CandidateType DEF b
<1> HIDE DEF best, key, q
<1>12. Stands(page, ties, key, b)
  BY <1>1, <1>11 DEF IInv, Listed
<1>13. /\ b.position \in DOMAIN page
       /\ page[b.position].timestamp = b.timestamp
       /\ b.wanted = Lacks(page, ties, b.position, n)
       /\ b.keyed <=> page[b.position].keys # {}
  BY <1>12 DEF Stands
<1>14. /\ pg[b.position] = page[b.position]
       /\ Lacks(pg, ties, b.position, n) = Lacks(page, ties, b.position, n)
  <2>1. n <= Len(page) + 1 /\ b.position \in 1..Len(page)
    BY <1>1, <1>2, <1>13, LenProperties DEF IInv
  <2> QED BY <1>1, <1>2, <2>1, EarlierPage DEF pg
<1>15. ByHash(b, turn) <=> Names(pg, ties, n, b.position)
  <2>1. pg[n] = turn
    BY <1>1, <1>2, PageGrows DEF pg
  <2>2. b.keyed \/ b.wanted = {}
    BY <1>13 DEF Lacks
  <2>3. Names(pg, ties, n, b.position) <=> turn.keys \cap b.wanted # {}
    BY <1>13, <1>14, <2>1 DEF Names
  <2> QED BY <2>2, <2>3 DEF ByHash
<1>16. PICK k \in DOMAIN us : us[k].request = b.position /\ us[k].reply = n
  BY <1>3, <1>8
<1>17. /\ Names(pg, us, n, r) <=> ByHash(q, turn)
       /\ Names(pg, us, n, b.position) <=> ByHash(b, turn)
  <2>1. Names(pg, us, n, r) <=> Names(pg, ties, n, r)
    BY <1>4 DEF Names
  <2>2. Names(pg, us, n, b.position) <=> Names(pg, ties, n, b.position)
    BY <1>4 DEF Names
  <2> QED BY <1>8, <1>15, <2>1, <2>2 DEF q
<1>18. pg[b.position].timestamp = b.timestamp /\ pg[r].timestamp = q.timestamp
  BY <1>6, <1>8, <1>13, <1>14 DEF q
<1>19. NoWorse(pg, us, n, r)
  <2>1. Names(pg, us, n, r) => Names(pg, us, n, us[k].request)
    BY <1>10, <1>16, <1>17
  <2>2. (Names(pg, us, n, r) <=> Names(pg, us, n, us[k].request)) =>
          pg[us[k].request].timestamp <= pg[r].timestamp
    <3>1. ASSUME Names(pg, us, n, r) <=> Names(pg, us, n, us[k].request)
          PROVE  b.timestamp <= q.timestamp
      <4>1. Names(pg, us, n, r) <=> Names(pg, us, n, b.position)
        BY <3>1, <1>16
      <4>2. ByHash(q, turn) <=> ByHash(b, turn)
        BY <4>1, <1>17
      <4> QED BY <4>2, <1>10
    <3> QED BY <3>1, <1>16, <1>18
  <2> QED BY <1>16, <2>1, <2>2 DEF NoWorse
<1> QED BY <1>19 DEF pg

(* So is every turn before it, as it was. *)
LEMMA ReplyWellTied ==
  ASSUME MInv, NEW turn \in Turns, NEW us,
         us = AfterReply([open |-> open, ties |-> ties], Len(page) + 1, turn).ties
  PROVE  WellTied(Append(page, turn), us, Len(page) + 2)
<1> DEFINE n == Len(page) + 1
           pg == Append(page, turn)
<1>1. IInv /\ WellTied(page, ties, n)
  BY DEF MInv
<1>2. Len(page) \in Nat /\ n \in Nat
  BY <1>1, LenProperties DEF IInv
<1>3. Extends(us, ties, n)
  BY <1>1, ReplyTies
<1> SUFFICES ASSUME NEW i \in 1..n, NEW r \in 1..(i - 1), NEW e \in Exchanges,
                    Could(pg, us, i, r, e),
                    ~(Cardinality(Repeats(pg, r, i)) >= LocalOpen)
             PROVE  NoWorse(pg, us, i, r)
  <2>1. 1..(Len(page) + 2 - 1) = 1..n
    BY <1>2
  <2> QED BY <2>1 DEF WellTied
<1>4. CASE i = n
  <2>1. r \in 1..Len(page)
    BY <1>2, <1>4
  <2> QED BY <1>4, <2>1, TurnWellTied
<1>5. CASE i # n
  <2>1. i \in 1..Len(page) /\ i \in Nat /\ i <= n /\ r \in 1..Len(page)
    BY <1>2, <1>5
  <2> HIDE DEF n
  <2>2. \A x : /\ Lacks(pg, us, x, i) = Lacks(pg, ties, x, i)
               /\ \A f : Settled(pg, us, x, f, i) <=> Settled(pg, ties, x, f, i)
    <3> HIDE DEF pg
    <3> QED BY <1>2, <1>3, <2>1, EarlierTies
  <2>3. \A x \in 1..Len(page) :
          /\ pg[x] = page[x]
          /\ Lacks(pg, ties, x, i) = Lacks(page, ties, x, i)
          /\ \A f : Settled(pg, ties, x, f, i) <=> Settled(page, ties, x, f, i)
          /\ \A f : Asked(pg, x, f) <=> Asked(page, x, f)
          /\ Repeats(pg, x, i) = Repeats(page, x, i)
    BY <1>1, <2>1, EarlierPage DEF n
  <2> HIDE DEF pg
  <2>4. \A x \in 1..Len(page) : Names(pg, us, i, x) <=> Names(page, ties, i, x)
    BY <2>1, <2>2, <2>3 DEF Names
  <2>5. Could(page, ties, i, r, e)
    BY <2>1, <2>2, <2>3, <2>4 DEF Could
  <2>6. NoWorse(page, ties, i, r)
    <3>1. i \in 1..(n - 1)
      BY <1>2, <2>1 DEF n
    <3> QED BY <1>1, <2>1, <2>3, <2>5, <3>1 DEF WellTied
  <2>7. PICK k \in DOMAIN ties :
          /\ ties[k].reply = i
          /\ Names(page, ties, i, r) => Names(page, ties, i, ties[k].request)
          /\ (Names(page, ties, i, r) <=> Names(page, ties, i, ties[k].request)) =>
               page[ties[k].request].timestamp <= page[r].timestamp
    BY <2>6 DEF NoWorse
  <2>8. k \in DOMAIN us /\ us[k] = ties[k] /\ ties[k].request \in 1..Len(page)
    <3>1. ties[k] \in [request : Nat \ {0}, reply : Nat, elapsed : Nat]
      BY <1>1, TieType
    <3>2. ties[k].request < ties[k].reply /\ ties[k].reply <= Len(page)
      BY <1>1 DEF IInv, Tied
    <3> QED BY <1>2, <1>3, <3>1, <3>2 DEF Extends
  <2>9. /\ Names(pg, us, i, r) <=> Names(page, ties, i, r)
        /\ Names(pg, us, i, us[k].request) <=> Names(page, ties, i, ties[k].request)
        /\ pg[us[k].request] = page[ties[k].request] /\ pg[r] = page[r]
    BY <2>1, <2>3, <2>4, <2>8
  <2>10. Names(pg, us, i, r) => Names(pg, us, i, us[k].request)
    BY <2>7, <2>9
  <2>11. (Names(pg, us, i, r) <=> Names(pg, us, i, us[k].request)) =>
           pg[us[k].request].timestamp <= pg[r].timestamp
    <3>1. ASSUME Names(pg, us, i, r) <=> Names(pg, us, i, us[k].request)
          PROVE  page[ties[k].request].timestamp <= page[r].timestamp
      BY <2>7, <2>9, <3>1
    <3> QED BY <2>9, <3>1
  <2>12. us[k].reply = i
    BY <2>7, <2>8
  <2> QED BY <2>8, <2>10, <2>11, <2>12 DEF NoWorse
<1> QED BY <1>4, <1>5

(* A request once settled stays so. *)
LEMMA StaysSettled ==
  ASSUME NEW pg, NEW ts, NEW us, NEW n \in Nat, Extends(us, ts, n),
         \A k \in DOMAIN ts : ts[k].reply \in Nat,
         NEW r, NEW e, Settled(pg, ts, r, e, n)
  PROVE  Settled(pg, us, r, e, n + 1)
<1>1. \A k \in DOMAIN ts : k \in DOMAIN us /\ us[k] = ts[k]
                           /\ (ts[k].reply < n => us[k].reply < n + 1)
  BY DEF Extends
<1>2. CASE ~Table[e].multi /\ \E k \in DOMAIN ts : ts[k].request = r /\ ts[k].reply < n
  BY <1>1, <1>2 DEF Settled
<1>3. CASE pg[r].keys # {} /\ Lacks(pg, ts, r, n) = {}
  <2>1. Lacks(pg, us, r, n + 1) \subseteq Lacks(pg, ts, r, n)
    BY <1>1 DEF Lacks
  <2> QED BY <1>3, <2>1 DEF Settled
<1> QED BY <1>2, <1>3 DEF Settled

(* A request that the reply takes from its list is settled by it. *)
LEMMA ReplyRemembers ==
  ASSUME MInv, NEW turn \in Turns, ~Skipped(turn), NEW m,
         m = AfterReply([open |-> open, ties |-> ties], Len(page) + 1, turn),
         NEW r \in 1..Len(page), NEW e \in Exchanges, Asked(page, r, e)
  PROVE  \/ Waits(page, m.open, r, e)
         \/ Settled(Append(page, turn), m.ties, r, e, Len(page) + 2)
         \/ Cardinality(Repeats(page, r, Len(page) + 1)) >= LocalOpen
<1> DEFINE n == Len(page) + 1
           pg == Append(page, turn)
           key == KeyOf(page, r, e)
<1>1. IInv /\ Remembered(page, ties, open, n)
  BY DEF MInv
<1>2. Len(page) \in Nat /\ n \in Nat /\ Len(page) + 2 = n + 1
  BY <1>1, LenProperties DEF IInv
<1>3. Extends(m.ties, ties, n)
  BY <1>1, ReplyTies
<1>4. ASSUME Settled(page, ties, r, e, n)
      PROVE  Settled(pg, m.ties, r, e, n + 1)
  <2>1. Settled(pg, ties, r, e, n)
    <3>1. n <= Len(page) + 1
      BY <1>2
    <3> QED BY <1>1, <1>2, <1>4, <3>1, EarlierPage
  <2>2. \A k \in DOMAIN ties : ties[k].reply \in Nat
    BY <1>1, TieType
  <2> HIDE DEF n, pg
  <2> QED BY <1>2, <1>3, <2>1, <2>2, StaysSettled
<1>5. ASSUME Waits(page, open, r, e)
      PROVE  Waits(page, m.open, r, e) \/ Settled(pg, m.ties, r, e, n + 1)
  <2>1. PICK j \in DOMAIN open[key] : open[key][j].position = r
    BY <1>5 DEF Waits
  <2>2. CASE Candidates(open, turn) = {}
    <3>1. m.open = open
      BY <2>2 DEF AfterReply
    <3> QED BY <1>5, <3>1
  <2>3. CASE Candidates(open, turn) # {}
    <3> DEFINE c == Best(open, turn)
               hit == OpenKey(turn, c.exchange, Opposite[turn.direction])
               p == open[hit][c.slot]
               left == Delivered(p, turn)
               list == IF Closes(c.exchange, left) THEN RemoveAt(open[hit], c.slot)
                       ELSE [open[hit] EXCEPT ![c.slot] = left]
    <3>1. m.open = [open EXCEPT ![hit] = list]
      BY <2>3 DEF AfterReply
    <3>2. /\ c \in Candidates(open, turn) /\ hit \in OpenKeys
          /\ c.slot \in DOMAIN open[hit] /\ p \in Pending
          /\ PendingAt(open, turn, c) = p
      <4>1. c \in Candidates(open, turn)
        BY <1>1, <2>3, BestIsCandidate
      <4>2. PendingAt(open, turn, c) = p
        BY DEF PendingAt
      <4> QED BY <1>1, <4>1, <4>2, CandidateType
    <3>3. hit.exchange = c.exchange /\ key.exchange = e
      BY DEF OpenKey, KeyOf
    <3>4. /\ open[hit] \in Seq(Pending) /\ Len(open[hit]) \in Nat
          /\ DOMAIN open[hit] = 1..Len(open[hit])
          /\ Stands(page, ties, hit, p)
      <4>1. Listed(page, ties, hit, open[hit])
        BY <1>1, <3>2 DEF IInv
      <4> QED BY <3>2, <4>1, LenProperties DEF Listed
    <3>5. left.position = p.position /\ left.keyed = p.keyed
          /\ left.wanted = IF ByHash(p, turn) THEN p.wanted \ turn.keys ELSE p.wanted
      BY <3>2 DEF Delivered, Pending
    <3>6. DOMAIN open = OpenKeys
      BY <1>1 DEF IInv
    <3>7. CASE key # hit
      <4>1. key \in OpenKeys
        <5>1. page[r] \in Turns /\ ~Skipped(page[r])
          BY <1>1, LenProperties DEF IInv, Asked
        <5> QED BY <5>1, TurnType DEF KeyOf, OpenKey, OpenKeys
      <4> HIDE DEF key, hit, list
      <4>2. m.open[key] = open[key]
        BY <3>1, <3>6, <3>7, <4>1
      <4> QED BY <2>1, <4>2 DEF Waits, key
    <3>8. CASE key = hit /\ j # c.slot
      <4>0. m.open[key] = list
        BY <3>1, <3>2, <3>6, <3>8
      <4>1. CASE Closes(c.exchange, left)
        <5>1. list = RemoveAt(open[hit], c.slot)
          BY <4>1
        <5>2. /\ Len(list) = Len(open[hit]) - 1 /\ list \in Seq(Pending)
              /\ \A i \in 1..(Len(open[hit]) - 1) :
                   list[i] = IF i < c.slot THEN open[hit][i] ELSE open[hit][i + 1]
          <6>1. c.slot \in 1..Len(open[hit])
            BY <3>2, <3>4
          <6> HIDE DEF list, hit, c
          <6> QED BY <3>4, <5>1, <6>1, RemoveAtProperties
        <5> HIDE DEF list, hit, key, c, p
        <5>3. DOMAIN list = 1..(Len(open[hit]) - 1)
          BY <5>2, LenProperties
        <5>4. j \in 1..Len(open[hit]) /\ c.slot \in 1..Len(open[hit])
          BY <2>1, <3>2, <3>4, <3>8
        <5>5. PICK i \in DOMAIN list : list[i] = open[hit][j]
          <6>1. CASE j < c.slot
            <7>1. j \in DOMAIN list
              BY <3>4, <5>3, <5>4, <6>1
            <7> QED BY <5>2, <5>3, <6>1, <7>1
          <6>2. CASE j > c.slot
            <7>1. j - 1 \in DOMAIN list /\ ~(j - 1 < c.slot) /\ (j - 1) + 1 = j
              BY <3>4, <5>3, <5>4, <6>2
            <7> QED BY <5>2, <5>3, <7>1
          <6> QED BY <3>8, <5>4, <6>1, <6>2
        <5> QED BY <2>1, <3>8, <4>0, <5>5 DEF Waits, key
      <4>2. CASE ~Closes(c.exchange, left)
        <5>1. list = [open[hit] EXCEPT ![c.slot] = left]
          BY <4>2
        <5>2. j \in DOMAIN list /\ list[j] = open[hit][j]
          BY <2>1, <3>8, <5>1
        <5> HIDE DEF list, hit, key, c, p
        <5> QED BY <2>1, <3>8, <4>0, <5>2 DEF Waits, key
      <4> QED BY <4>1, <4>2
    <3>9. CASE key = hit /\ j = c.slot
      <4>0. m.open[key] = list /\ p.position = r /\ e = c.exchange
        BY <2>1, <3>1, <3>2, <3>3, <3>6, <3>9
      <4>1. CASE ~Closes(c.exchange, left)
        <5>1. list = [open[hit] EXCEPT ![c.slot] = left]
          BY <4>1
        <5>2. c.slot \in DOMAIN list /\ list[c.slot] = left
          BY <3>2, <5>1
        <5> HIDE DEF list, hit, key, c, p
        <5> QED BY <3>5, <4>0, <5>2 DEF Waits, key
      <4>2. CASE Closes(c.exchange, left)
        <5>1. PICK k \in DOMAIN m.ties : m.ties[k].request = r /\ m.ties[k].reply = n
          BY <1>1, <2>3, <3>2, <4>0, ReplyTies
        <5>2. m.ties[k].reply < n + 1
          BY <1>2, <5>1
        <5>3. CASE ~Table[c.exchange].multi
          BY <4>0, <5>1, <5>2, <5>3 DEF Settled
        <5>4. CASE left.keyed /\ left.wanted = {}
          <6>1. pg[r] = page[r] /\ pg[n] = turn
                /\ Lacks(pg, ties, r, n) = Lacks(page, ties, r, n)
            <7>1. n <= Len(page) + 1
              BY <1>2
            <7> QED BY <1>1, <1>2, <7>1, EarlierPage, PageGrows
          <6>2. /\ p.wanted = Lacks(page, ties, r, n)
                /\ p.keyed /\ page[r].keys # {}
            BY <3>4, <3>5, <4>0, <5>4 DEF Stands
          <6> HIDE DEF p, left, c, hit, n, pg
          <6>3. p.wanted \subseteq turn.keys
            BY <3>5, <5>4
          <6>4. Lacks(pg, m.ties, r, n + 1) \subseteq Lacks(pg, ties, r, n)
            <7>1. \A i \in DOMAIN ties : i \in DOMAIN m.ties /\ m.ties[i] = ties[i]
              BY <1>3 DEF Extends
            <7>2. \A i \in DOMAIN ties : ties[i].reply < n => ties[i].reply < n + 1
              BY <1>1, <1>2, TieType
            <7> QED BY <7>1, <7>2 DEF Lacks
          <6>5. \A h \in Lacks(pg, m.ties, r, n + 1) : h \notin turn.keys
            BY <5>1, <5>2, <6>1 DEF Lacks
          <6>6. Lacks(pg, m.ties, r, n + 1) = {}
            BY <6>1, <6>2, <6>3, <6>4, <6>5
          <6> QED BY <6>1, <6>2, <6>6 DEF Settled
        <5> QED BY <4>2, <5>3, <5>4 DEF Closes
      <4> QED BY <4>1, <4>2
    <3> QED BY <3>7, <3>8, <3>9
  <2> QED BY <2>2, <2>3
<1>6. r \in 1..(n - 1)
  BY <1>2
<1>7. \/ Waits(page, open, r, e)
      \/ Settled(page, ties, r, e, n)
      \/ Cardinality(Repeats(page, r, n)) >= LocalOpen
  BY <1>1, <1>6 DEF Remembered
<1>8. Settled(pg, m.ties, r, e, n + 1) => Settled(pg, m.ties, r, e, Len(page) + 2)
  BY <1>2
<1> QED BY <1>4, <1>5, <1>7, <1>8

(* A list that is full has as many requests of its first one's kind, and the
   new one after them. *)
LEMMA FullListRepeats ==
  ASSUME NEW pg \in Seq(Turns), NEW ts, NEW n \in Nat \ {0}, NEW key \in OpenKeys, NEW list,
         Listed(pg, ts, key, list), Len(list) = LocalOpen,
         \A i \in DOMAIN list : list[i].position < n,
         pg[n].peer = key.peer, pg[n].direction = key.direction,
         pg[n].command = Table[key.exchange].request,
         NEW r \in Nat, r = list[1].position
  PROVE  Cardinality(Repeats(pg, r, n + 1)) >= LocalOpen
<1> DEFINE f == [i \in 1..LocalOpen |-> IF i < LocalOpen THEN list[i + 1].position ELSE n]
           T == Repeats(pg, r, n + 1)
<1>1. /\ DOMAIN list = 1..LocalOpen
      /\ \A i \in 1..LocalOpen : Stands(pg, ts, key, list[i]) /\ list[i].position \in Nat
      /\ \A i, j \in 1..LocalOpen : i < j => list[i].position < list[j].position
  <2>1. list \in Seq(Pending) /\ DOMAIN list = 1..LocalOpen
    BY LenProperties DEF Listed
  <2>2. \A i \in 1..LocalOpen : list[i] \in Pending
    BY <2>1
  <2> QED BY <2>1, <2>2 DEF Listed, Pending
<1>2. LocalOpen \in Nat \ {0} /\ 1 \in 1..LocalOpen
  BY LocalOpenAssumption
<1>3. /\ pg[r].peer = key.peer /\ pg[r].direction = key.direction
      /\ pg[r].command = Table[key.exchange].request
      /\ r < n
  BY <1>1, <1>2 DEF Stands
<1>4. ASSUME NEW i \in 1..LocalOpen
      PROVE  f[i] \in T
  <2>1. CASE i < LocalOpen
    <3>1. i + 1 \in 1..LocalOpen /\ 1 < i + 1
      BY <1>2, <2>1
    <3>2. list[i + 1].position > r /\ list[i + 1].position < n /\ list[i + 1].position \in Nat
          /\ Stands(pg, ts, key, list[i + 1])
      BY <1>1, <1>2, <3>1
    <3>3. f[i] = list[i + 1].position
      BY <2>1
    <3>4. f[i] \in (r + 1)..(n + 1 - 1)
      BY <3>2, <3>3
    <3>5. /\ pg[f[i]].peer = pg[r].peer /\ pg[f[i]].direction = pg[r].direction
          /\ pg[f[i]].command = pg[r].command
      BY <1>3, <3>2, <3>3 DEF Stands
    <3> HIDE DEF f
    <3> QED BY <3>4, <3>5 DEF Repeats
  <2>2. CASE ~(i < LocalOpen)
    <3>1. f[i] = n
      BY <2>2
    <3>2. n \in (r + 1)..(n + 1 - 1)
      BY <1>3
    <3> QED BY <1>3, <3>1, <3>2 DEF Repeats
  <2> QED BY <2>1, <2>2
<1>5. ASSUME NEW i \in 1..LocalOpen, NEW j \in 1..LocalOpen, i < j
      PROVE  f[i] < f[j]
  <2>1. i < LocalOpen /\ i + 1 \in 1..LocalOpen /\ f[i] = list[i + 1].position
    BY <1>2, <1>5
  <2>2. CASE j < LocalOpen
    <3>1. j + 1 \in 1..LocalOpen /\ f[j] = list[j + 1].position /\ i + 1 < j + 1
      BY <1>2, <1>5, <2>2
    <3> HIDE DEF f
    <3> QED BY <1>1, <2>1, <3>1
  <2>3. CASE ~(j < LocalOpen)
    <3>1. f[j] = n
      BY <2>3
    <3> HIDE DEF f
    <3> QED BY <1>1, <2>1, <3>1
  <2> QED BY <2>2, <2>3
<1>6. f \in [1..LocalOpen -> T]
  BY <1>4
<1> HIDE DEF f
<1>7. \A i \in 1..LocalOpen : f[i] \in Nat
  BY <1>4 DEF Repeats
<1>8. \A i, j \in 1..LocalOpen : f[i] = f[j] => i = j
  BY <1>2, <1>5, <1>7
<1>9. f \in Injection(1..LocalOpen, T)
  BY <1>6, <1>8 DEF Injection, IsInjective
<1>10. IsFiniteSet(T) /\ Cardinality(T) \in Nat
  BY RepeatsGrow
<1> HIDE DEF T
<1>11. Cardinality(1..LocalOpen) <= Cardinality(T)
  BY <1>9, <1>10, FS_Injection
<1>12. Cardinality(1..LocalOpen) = LocalOpen
  BY <1>2, FS_Interval
<1> QED BY <1>2, <1>10, <1>11, <1>12 DEF T

(* The request takes the end of its list, and the place of the first if the
   list is full. *)
LEMMA RequestRemembers ==
  ASSUME NEW pg \in Seq(Turns), NEW n \in Nat \ {0}, NEW turn \in Turns, NEW m,
         Len(pg) = n, pg[n] = turn, ~Skipped(turn),
         DOMAIN m.open = OpenKeys,
         \A key \in OpenKeys :
           /\ Listed(pg, m.ties, key, m.open[key])
           /\ \A i \in DOMAIN m.open[key] : m.open[key][i].position < n,
         \A r \in 1..(n - 1) : \A e \in Exchanges : Asked(pg, r, e) =>
           \/ Waits(pg, m.open, r, e)
           \/ Settled(pg, m.ties, r, e, n + 1)
           \/ Cardinality(Repeats(pg, r, n)) >= LocalOpen
  PROVE  Remembered(pg, m.ties, AfterRequest(m, n, turn).open, n + 1)
<1> DEFINE op == AfterRequest(m, n, turn).open
<1> SUFFICES ASSUME NEW r \in 1..n, NEW e \in Exchanges, Asked(pg, r, e)
             PROVE  \/ Waits(pg, op, r, e)
                    \/ Settled(pg, m.ties, r, e, n + 1)
                    \/ Cardinality(Repeats(pg, r, n + 1)) >= LocalOpen
  <2>1. 1..(n + 1 - 1) = 1..n
    OBVIOUS
  <2> HIDE DEF op
  <2> QED BY <2>1 DEF Remembered, op
<1> DEFINE key == KeyOf(pg, r, e)
           list == m.open[key]
           new == NewPending(n, turn)
           asks == /\ Table[key.exchange].request = turn.command
                   /\ key = OpenKey(turn, key.exchange, turn.direction)
<1>1. key \in OpenKeys
  <2>1. pg[r] \in Turns /\ ~Skipped(pg[r])
    BY LenProperties DEF Asked
  <2> QED BY <2>1, TurnType DEF KeyOf, OpenKey, OpenKeys
<1>2. key.peer = pg[r].peer /\ key.exchange = e /\ key.direction = pg[r].direction
      /\ key = [peer |-> pg[r].peer, exchange |-> e, direction |-> pg[r].direction]
  BY DEF KeyOf, OpenKey
<1> HIDE DEF key
<1>3. op[key] = IF asks THEN Append(Room(list), new) ELSE list
  BY <1>1 DEF AfterRequest
<1>4. new.position = n /\ new \in Pending
  BY TurnType DEF NewPending, Pending
<1>5. /\ Listed(pg, m.ties, key, list)
      /\ list \in Seq(Pending) /\ Len(list) \in Nat /\ Len(list) <= LocalOpen
      /\ DOMAIN list = 1..Len(list)
      /\ \A i \in DOMAIN list : list[i].position < n
  BY <1>1, LenProperties DEF Listed
<1> HIDE DEF op, new, list
<1>6. LocalOpen \in Nat \ {0}
  BY LocalOpenAssumption
<1>7. CASE r = n
  <2>1. asks
    BY <1>2, <1>7 DEF Asked, OpenKey
  <2>2. Room(list) \in Seq(Pending)
    <3>1. CASE Len(list) >= LocalOpen
      <4>1. list # <<>>
        BY <1>5, <1>6, <3>1
      <4> QED BY <1>5, <3>1, <4>1, HeadTailProperties DEF Room
    <3>2. CASE ~(Len(list) >= LocalOpen)
      BY <1>5, <3>2 DEF Room
    <3> QED BY <3>1, <3>2
  <2>3. /\ Len(Room(list)) + 1 \in DOMAIN op[key]
        /\ op[key][Len(Room(list)) + 1] = new
    <3>1. op[key] = Append(Room(list), new)
      BY <1>3, <2>1
    <3>2. /\ Append(Room(list), new) \in Seq(Pending)
          /\ Len(Append(Room(list), new)) = Len(Room(list)) + 1
          /\ Append(Room(list), new)[Len(Room(list)) + 1] = new
      BY <1>4, <2>2, AppendProperties
    <3>3. Len(Room(list)) \in Nat
      BY <2>2, LenProperties
    <3> QED BY <3>1, <3>2, <3>3, LenProperties
  <2> QED BY <1>4, <1>7, <2>3 DEF Waits, key
<1>8. CASE r # n
  <2>1. r \in 1..(n - 1)
    BY <1>8
  <2>2. CASE Settled(pg, m.ties, r, e, n + 1)
    BY <2>2
  <2>3. CASE Cardinality(Repeats(pg, r, n)) >= LocalOpen
    BY <2>3, RepeatsGrow
  <2>4. CASE Waits(pg, m.open, r, e)
    <3>1. PICK j \in DOMAIN list : list[j].position = r
      BY <2>4 DEF Waits, list, key
    <3>2. CASE ~asks
      <4>1. op[key] = list
        BY <1>3, <3>2
      <4> QED BY <3>1, <4>1 DEF Waits, key
    <3>3. CASE asks /\ ~(Len(list) >= LocalOpen)
      <4>1. op[key] = Append(list, new)
        BY <1>3, <3>3 DEF Room
      <4>2. /\ Append(list, new) \in Seq(Pending)
            /\ Len(Append(list, new)) = Len(list) + 1
            /\ \A i \in 1..Len(list) : Append(list, new)[i] = list[i]
        BY <1>4, <1>5, AppendProperties
      <4>3. j \in DOMAIN op[key] /\ op[key][j] = list[j]
        BY <1>5, <3>1, <4>1, <4>2, LenProperties
      <4> QED BY <3>1, <4>3 DEF Waits, key
    <3>4. CASE asks /\ Len(list) >= LocalOpen
      <4>1. Len(list) = LocalOpen /\ list # <<>>
        BY <1>5, <1>6, <3>4
      <4>2. CASE j = 1
        <5>1. /\ pg[n].peer = key.peer /\ pg[n].direction = key.direction
              /\ pg[n].command = Table[key.exchange].request
          <6>1. key.peer = turn.peer /\ key.direction = turn.direction
            BY <3>4 DEF OpenKey
          <6> QED BY <3>4, <6>1
        <5>2. r \in Nat /\ r = list[1].position
          BY <3>1, <4>2
        <5>3. Cardinality(Repeats(pg, r, n + 1)) >= LocalOpen
          BY <1>1, <1>5, <4>1, <5>1, <5>2, FullListRepeats
        <5> QED BY <5>3
      <4>3. CASE j # 1
        <5>1. op[key] = Append(Tail(list), new)
          BY <1>3, <3>4 DEF Room
        <5>2. /\ Tail(list) \in Seq(Pending) /\ Len(Tail(list)) = Len(list) - 1
              /\ \A i \in 1..(Len(list) - 1) : Tail(list)[i] = list[i + 1]
          BY <1>5, <4>1, HeadTailProperties
        <5> DEFINE tail == Tail(list)
        <5> HIDE DEF tail
        <5>3. /\ Append(tail, new) \in Seq(Pending)
              /\ Len(Append(tail, new)) = Len(tail) + 1
              /\ \A i \in 1..Len(tail) : Append(tail, new)[i] = tail[i]
          BY <1>4, <5>2, AppendProperties DEF tail
        <5>4. j - 1 \in 1..(Len(list) - 1) /\ (j - 1) + 1 = j
          BY <1>5, <3>1, <4>3
        <5>5. tail[j - 1] = list[j] /\ Len(tail) = Len(list) - 1
          BY <5>2, <5>4 DEF tail
        <5>6. DOMAIN Append(tail, new) = 1..Len(list)
          <6>1. Len(Append(tail, new)) = Len(list)
            BY <1>5, <5>3, <5>5
          <6> QED BY <5>3, <6>1, LenProperties
        <5>7. j - 1 \in DOMAIN op[key] /\ op[key][j - 1] = list[j]
          <6>1. op[key] = Append(tail, new)
            BY <5>1 DEF tail
          <6>2. j - 1 \in 1..Len(list)
            BY <1>5, <5>4
          <6> QED BY <5>3, <5>4, <5>5, <5>6, <6>1, <6>2
        <5> QED BY <3>1, <5>7 DEF Waits, key
      <4> QED BY <4>2, <4>3
    <3> QED BY <3>2, <3>3, <3>4
  <2> QED BY <2>1, <2>2, <2>3, <2>4
<1> QED BY <1>7, <1>8

(* A turn that match_turns passes over is tied to nothing and asks nothing. *)
LEMMA SkippedKeeps ==
  ASSUME MInv, NEW turn \in Turns, Skipped(turn), NEW n, n = Len(page) + 1
  PROVE  /\ Remembered(Append(page, turn), ties, open, n + 1)
         /\ WellTied(Append(page, turn), ties, n + 1)
<1> DEFINE pg == Append(page, turn)
<1>1. IInv /\ Remembered(page, ties, open, n) /\ WellTied(page, ties, n)
  BY DEF MInv
<1>2. /\ pg[n] = turn
      /\ n \in Nat \ {0} /\ Len(page) = n - 1 /\ Len(page) \in Nat
  BY <1>1, PageGrows, LenProperties DEF IInv
<1>3. \A r \in 1..Len(page) : /\ pg[r] = page[r]
                              /\ \A e : Asked(pg, r, e) <=> Asked(page, r, e)
                              /\ Repeats(pg, r, n) = Repeats(page, r, n)
  BY <1>1, <1>2, EarlierPage
<1> HIDE DEF pg
<1>4. Extends(ties, ties, n)
  BY DEF Extends
<1>5. \A k \in DOMAIN ties : ties[k].reply \in Nat
  BY <1>1, TieType
<1>6. Remembered(pg, ties, open, n + 1)
  <2> SUFFICES ASSUME NEW r \in 1..n, NEW e \in Exchanges, Asked(pg, r, e)
               PROVE  \/ Waits(pg, open, r, e)
                      \/ Settled(pg, ties, r, e, n + 1)
                      \/ Cardinality(Repeats(pg, r, n + 1)) >= LocalOpen
    <3>1. 1..(n + 1 - 1) = 1..n
      BY <1>2
    <3> QED BY <3>1 DEF Remembered
  <2>1. r \in 1..(n - 1) /\ r \in 1..Len(page)
    BY <1>2 DEF Asked
  <2>2. \/ Waits(page, open, r, e)
        \/ Settled(page, ties, r, e, n)
        \/ Cardinality(Repeats(page, r, n)) >= LocalOpen
    BY <1>1, <1>3, <2>1 DEF Remembered
  <2>3. CASE Waits(page, open, r, e)
    <3>1. KeyOf(pg, r, e) = KeyOf(page, r, e)
      BY <1>3, <2>1 DEF KeyOf
    <3> QED BY <2>3, <3>1 DEF Waits
  <2>4. CASE Settled(page, ties, r, e, n)
    <3>1. Settled(pg, ties, r, e, n)
      <4>1. n \in Nat /\ n <= Len(page) + 1
        BY <1>2
      <4> QED BY <1>1, <2>1, <2>4, <4>1, EarlierPage DEF pg
    <3> QED BY <1>2, <1>4, <1>5, <3>1, StaysSettled
  <2>5. CASE Cardinality(Repeats(page, r, n)) >= LocalOpen
    <3>1. Cardinality(Repeats(pg, r, n)) >= LocalOpen
      BY <1>3, <2>1, <2>5
    <3> QED BY <1>2, <2>1, <3>1, RepeatsGrow
  <2> QED BY <2>2, <2>3, <2>4, <2>5
<1>7. WellTied(pg, ties, n + 1)
  <2> SUFFICES ASSUME NEW i \in 1..n, NEW r \in 1..(i - 1), NEW e \in Exchanges,
                      Could(pg, ties, i, r, e),
                      ~(Cardinality(Repeats(pg, r, i)) >= LocalOpen)
               PROVE  NoWorse(pg, ties, i, r)
    <3>1. 1..(n + 1 - 1) = 1..n
      BY <1>2
    <3> QED BY <3>1 DEF WellTied
  <2>1. i # n
    BY <1>2 DEF Could
  <2>2. i \in 1..Len(page) /\ i \in 1..(n - 1) /\ i \in Nat /\ i <= Len(page) + 1
        /\ r \in 1..Len(page)
    BY <1>2, <2>1
  <2>3. \A x \in 1..Len(page) :
          /\ pg[x] = page[x]
          /\ Lacks(pg, ties, x, i) = Lacks(page, ties, x, i)
          /\ \A f : Settled(pg, ties, x, f, i) <=> Settled(page, ties, x, f, i)
          /\ \A f : Asked(pg, x, f) <=> Asked(page, x, f)
          /\ Repeats(pg, x, i) = Repeats(page, x, i)
    BY <1>1, <2>2, EarlierPage DEF pg
  <2>4. \A x \in 1..Len(page) : Names(pg, ties, i, x) <=> Names(page, ties, i, x)
    BY <2>2, <2>3 DEF Names
  <2>5. Could(page, ties, i, r, e)
    BY <2>2, <2>3, <2>4 DEF Could
  <2>6. NoWorse(page, ties, i, r)
    BY <1>1, <2>2, <2>3, <2>5 DEF WellTied
  <2>7. \A k \in DOMAIN ties : ties[k].request \in 1..Len(page)
    <3>1. \A k \in DOMAIN ties : ties[k].request < ties[k].reply /\ ties[k].reply <= Len(page)
      BY <1>1 DEF IInv, Tied
    <3> QED BY <1>1, <1>2, <3>1, TieType
  <2> QED BY <2>2, <2>3, <2>4, <2>6, <2>7 DEF NoWorse
<1> QED BY <1>6, <1>7 DEF pg

(* The invariant holds at first, and every turn keeps it. *)
LEMMA MInvHolds == Spec => []MInv
<1>1. Init => MInv
  <2> SUFFICES ASSUME Init PROVE MInv
    OBVIOUS
  <2>1. Len(page) + 1 = 1
    BY DEF Init
  <2>2. IInv
    BY InitInv
  <2> QED BY <2>1, <2>2 DEF MInv, Remembered, WellTied
<1>2. IInv' /\ MInv /\ [Next]_vars => MInv'
  <2> SUFFICES ASSUME IInv', MInv, [Next]_vars PROVE MInv'
    OBVIOUS
  <2>1. CASE UNCHANGED vars
    BY <2>1 DEF vars, MInv
  <2>2. ASSUME NEW row \in Rows, ReadRow(row)
        PROVE  MInv'
    <3> DEFINE turn == TurnOf(row)
               m == [open |-> open, ties |-> ties]
               n == Len(page) + 1
               pg == Append(page, turn)
               after == MatchTurn(m, n, turn)
    <3>1. turn \in Turns /\ page' = pg /\ open' = after.open /\ ties' = after.ties
      BY <2>2 DEF ReadRow, Turns
    <3> HIDE DEF turn
    <3>2. IInv /\ Remembered(page, ties, open, n) /\ WellTied(page, ties, n)
      BY DEF MInv
    <3>3. /\ pg \in Seq(Turns) /\ Len(pg) = n /\ pg[n] = turn
          /\ n \in Nat \ {0} /\ Len(page) = n - 1 /\ Len(page) \in Nat
      BY <3>1, <3>2, PageGrows, LenProperties DEF IInv
    <3>4. \A r \in 1..Len(page) : /\ pg[r] = page[r]
                                  /\ \A e : Asked(pg, r, e) <=> Asked(page, r, e)
                                  /\ Repeats(pg, r, n) = Repeats(page, r, n)
      BY <3>1, <3>2, <3>3, EarlierPage
    <3> HIDE DEF n, pg
    <3>5. CASE Skipped(turn)
      <4>1. open' = open /\ ties' = ties
        BY <3>1, <3>5 DEF MatchTurn
      <4>2. /\ Remembered(pg, ties, open, n + 1)
            /\ WellTied(pg, ties, n + 1)
        BY <3>1, <3>3, <3>5, SkippedKeeps DEF n, pg
      <4> QED BY <3>1, <3>3, <4>1, <4>2 DEF MInv
    <3>6. CASE ~Skipped(turn)
      <4> DEFINE replied == AfterReply(m, n, turn)
      <4>1. /\ DOMAIN replied.open = OpenKeys
            /\ \A key \in OpenKeys :
                 /\ Listed(pg, replied.ties, key, replied.open[key])
                 /\ \A i \in DOMAIN replied.open[key] : replied.open[key][i].position <= Len(page)
        BY <3>1, <3>2, <3>6, ReplyStep DEF n, pg
      <4>2. after = AfterRequest(replied, n, turn)
        BY <3>6 DEF MatchTurn
      <4>3. WellTied(pg, replied.ties, n + 1)
        <5>1. WellTied(pg, replied.ties, Len(page) + 2)
          BY <3>1, ReplyWellTied DEF n, pg
        <5>2. Len(page) + 2 = n + 1
          BY <3>3
        <5> HIDE DEF replied
        <5> QED BY <5>1, <5>2
      <4>4. ASSUME NEW r \in 1..(n - 1), NEW e \in Exchanges, Asked(pg, r, e)
            PROVE  \/ Waits(pg, replied.open, r, e)
                   \/ Settled(pg, replied.ties, r, e, n + 1)
                   \/ Cardinality(Repeats(pg, r, n)) >= LocalOpen
        <5>1. r \in 1..Len(page) /\ Asked(page, r, e) /\ pg[r] = page[r]
              /\ Repeats(pg, r, n) = Repeats(page, r, n)
          BY <3>3, <3>4, <4>4
        <5>2. \/ Waits(page, replied.open, r, e)
              \/ Settled(pg, replied.ties, r, e, Len(page) + 2)
              \/ Cardinality(Repeats(page, r, n)) >= LocalOpen
          BY <3>1, <3>6, <5>1, ReplyRemembers DEF n, pg
        <5>3. Len(page) + 2 = n + 1
          BY <3>3
        <5>4. KeyOf(pg, r, e) = KeyOf(page, r, e)
          BY <5>1 DEF KeyOf
        <5> HIDE DEF replied
        <5>5. Waits(page, replied.open, r, e) => Waits(pg, replied.open, r, e)
          BY <5>4 DEF Waits
        <5> QED BY <5>1, <5>2, <5>3, <5>5
      <4> HIDE DEF replied, after
      <4>5. after.ties = replied.ties
        <5>1. after = [replied EXCEPT !.open = after.open]
          BY <4>2 DEF AfterRequest
        <5> QED BY <4>2, <5>1 DEF AfterRequest
      <4>6. ASSUME NEW key \in OpenKeys, NEW i \in DOMAIN replied.open[key]
            PROVE  replied.open[key][i].position < n
        <5>1. replied.open[key] \in Seq(Pending)
          BY <4>1 DEF Listed
        <5>2. replied.open[key][i] \in Pending
          BY <5>1, LenProperties
        <5>3. replied.open[key][i].position \in Nat /\ replied.open[key][i].position <= Len(page)
          BY <4>1, <5>2 DEF Pending
        <5> QED BY <3>3, <5>3
      <4>7. Remembered(pg, replied.ties, AfterRequest(replied, n, turn).open, n + 1)
        BY <3>1, <3>3, <3>6, <4>1, <4>4, <4>6, RequestRemembers
      <4> QED BY <3>1, <3>3, <4>2, <4>3, <4>5, <4>7 DEF MInv
    <3> QED BY <3>5, <3>6
  <2> QED BY <2>1, <2>2 DEF Next
<1> QED BY <1>1, <1>2, Invariant, PTL DEF Spec

(***************************************************************************)
(* Nothing better is overlooked: whatever the exchanges, the messages and  *)
(* the limit on the lists, a reply is tied to a request it names whenever  *)
(* one still waits, to the oldest of its like, and left untied only when   *)
(* no request can be meant or LOCAL_OPEN later ones have pushed it out.    *)
(***************************************************************************)
THEOREM NothingOverlooked == Spec => []NothingBetterIsOverlooked
<1>1. MInv => NothingBetterIsOverlooked
  <2> SUFFICES ASSUME MInv,
                      NEW i \in DOMAIN page, NEW r \in 1..(i - 1), NEW e \in Exchanges,
                      CouldAnswer(i, r, e), ~MayBeForgotten(r, i)
               PROVE  \E t \in Range(ties) :
                        /\ t.reply = i
                        /\ Exact(i, r) => Exact(i, t.request)
                        /\ (Exact(i, r) <=> Exact(i, t.request)) =>
                             page[t.request].timestamp <= page[r].timestamp
    BY DEF NothingBetterIsOverlooked
  <2>1. i \in 1..(Len(page) + 1 - 1)
    BY LenProperties DEF MInv, IInv
  <2>2. \A x : Missing(x, i) = Lacks(page, ties, x, i)
    BY DEF Missing, TiesTo, Range, Lacks
  <2>3. \A x : Exact(i, x) <=> Names(page, ties, i, x)
    BY <2>2 DEF Exact, Names
  <2>4. ~Settled(page, ties, r, e, i)
    <3>1. (\E t \in TiesTo(r) : t.reply < i)
            <=> \E k \in DOMAIN ties : ties[k].request = r /\ ties[k].reply < i
      BY DEF TiesTo, Range
    <3>2. ~SettledBefore(r, e, i)
      BY DEF CouldAnswer
    <3> QED BY <2>2, <3>1, <3>2 DEF SettledBefore, Settled
  <2>5. Could(page, ties, i, r, e)
    <3>1. page[r].keys = {} \/ page[i].keys = {} \/ Names(page, ties, i, r)
      BY <2>2 DEF CouldAnswer, Names
    <3> QED BY <2>4, <3>1 DEF Could, CouldAnswer, Asks, Asked
  <2>6. ~(Cardinality(Repeats(page, r, i)) >= LocalOpen)
    BY DEF MayBeForgotten, Repeats
  <2>7. NoWorse(page, ties, i, r)
    BY <2>1, <2>5, <2>6 DEF MInv, WellTied
  <2>8. PICK k \in DOMAIN ties :
          /\ ties[k].reply = i
          /\ Names(page, ties, i, r) => Names(page, ties, i, ties[k].request)
          /\ (Names(page, ties, i, r) <=> Names(page, ties, i, ties[k].request)) =>
               page[ties[k].request].timestamp <= page[r].timestamp
    BY <2>7 DEF NoWorse
  <2>9. ties[k] \in Range(ties)
    BY DEF Range
  <2>10. /\ Exact(i, r) => Exact(i, ties[k].request)
         /\ (Exact(i, r) <=> Exact(i, ties[k].request)) =>
              page[ties[k].request].timestamp <= page[r].timestamp
    BY <2>3, <2>8
  <2> QED BY <2>8, <2>9, <2>10
<1> QED BY <1>1, MInvHolds, PTL

-----------------------------------------------------------------------------
(***************************************************************************)
(* Peers are independent: the lists of a peer's requests are those of its  *)
(* turns on a page of their own, but for the positions, which the matching *)
(* never looks at.                                                         *)
(***************************************************************************)
Renumbered(x, q) == [x EXCEPT !.position = q]

LEMMA SameButPosition ==
  ASSUME NEW x \in Pending, NEW q \in Nat, NEW turn \in Turns
  PROVE  LET y == Renumbered(x, q)
         IN /\ y \in Pending /\ y.position = q /\ y.timestamp = x.timestamp
            /\ ByHash(y, turn) <=> ByHash(x, turn)
            /\ MayAnswer(turn, y) <=> MayAnswer(turn, x)
            /\ Delivered(x, turn) \in Pending /\ Delivered(x, turn).position = x.position
            /\ Delivered(y, turn) = Renumbered(Delivered(x, turn), q)
            /\ \A e : Closes(e, Delivered(y, turn)) <=> Closes(e, Delivered(x, turn))
<1> DEFINE y == Renumbered(x, q)
           dx == Delivered(x, turn)
           dy == Delivered(y, turn)
<1>1. /\ y = [position |-> q, timestamp |-> x.timestamp, wanted |-> x.wanted,
              keyed |-> x.keyed, replies |-> x.replies]
      /\ x.timestamp \in Nat /\ x.wanted \in SUBSET Hashes /\ x.keyed \in BOOLEAN
      /\ x.replies \in Nat /\ x.position \in Nat
  BY DEF Pending, Renumbered
<1>2. y \in Pending /\ y.position = q /\ y.timestamp = x.timestamp /\ y.wanted = x.wanted
      /\ y.keyed = x.keyed /\ y.replies = x.replies
  BY <1>1 DEF Pending
<1> HIDE DEF y
<1>3. (ByHash(y, turn) <=> ByHash(x, turn)) /\ (MayAnswer(turn, y) <=> MayAnswer(turn, x))
  BY <1>2 DEF ByHash, MayAnswer
<1> DEFINE left == IF ByHash(x, turn) THEN x.wanted \ turn.keys ELSE x.wanted
<1> DEFINE named == ByHash(x, turn)
<1>0. /\ x = [position |-> x.position, timestamp |-> x.timestamp, wanted |-> x.wanted,
              keyed |-> x.keyed, replies |-> x.replies]
      /\ y = [position |-> q, timestamp |-> x.timestamp, wanted |-> x.wanted,
              keyed |-> x.keyed, replies |-> x.replies]
  BY <1>1 DEF Pending, y
<1>4. dx = [position |-> x.position, timestamp |-> x.timestamp, wanted |-> left,
            keyed |-> x.keyed, replies |-> x.replies + 1]
  <2>1. dx = [x EXCEPT !.replies = @ + 1, !.wanted = IF named THEN @ \ turn.keys ELSE @]
    BY DEF Delivered
  <2>2. left = IF named THEN x.wanted \ turn.keys ELSE x.wanted
    OBVIOUS
  <2> HIDE DEF named, dx, left
  <2> QED BY <1>0, <2>1, <2>2
<1>5. dy = [position |-> q, timestamp |-> x.timestamp, wanted |-> left,
            keyed |-> x.keyed, replies |-> x.replies + 1]
  <2>1. dy = [y EXCEPT !.replies = @ + 1, !.wanted = IF named THEN @ \ turn.keys ELSE @]
    BY <1>3 DEF Delivered
  <2>2. left = IF named THEN x.wanted \ turn.keys ELSE x.wanted
    OBVIOUS
  <2> HIDE DEF named, dy, left
  <2> QED BY <1>0, <2>1, <2>2
<1>6. left \in SUBSET Hashes
  BY <1>1
<1> HIDE DEF left, dx, dy
<1>7. dx \in Pending /\ dx.position = x.position
  BY <1>1, <1>4, <1>6 DEF Pending
<1>8. dy = Renumbered(dx, q)
  BY <1>4, <1>5 DEF Renumbered
<1>9. \A e : Closes(e, dy) <=> Closes(e, dx)
  BY <1>4, <1>5 DEF Closes
<1> QED BY <1>2, <1>3, <1>7, <1>8, <1>9 DEF y, dx, dy

(* List ys is list xs with the positions 1..n renumbered by f. *)
Echo(f, n, xs, ys) ==
  /\ xs \in Seq(Pending) /\ ys \in Seq(Pending) /\ Len(ys) = Len(xs)
  /\ \A i \in 1..Len(xs) : /\ xs[i].position \in 1..n
                           /\ ys[i] = Renumbered(xs[i], f[xs[i].position])

Numbers(f, n) == n \in Nat /\ \A j \in 1..n : f[j] \in Nat

LEMMA EchoRemove ==
  ASSUME NEW f, NEW n, NEW xs, NEW ys, Echo(f, n, xs, ys), NEW s \in 1..Len(xs)
  PROVE  Echo(f, n, RemoveAt(xs, s), RemoveAt(ys, s))
<1> DEFINE us == RemoveAt(xs, s)
           vs == RemoveAt(ys, s)
<1>1. /\ xs \in Seq(Pending) /\ ys \in Seq(Pending) /\ Len(ys) = Len(xs)
      /\ s \in 1..Len(ys) /\ Len(xs) \in Nat
  BY LenProperties DEF Echo
<1>2. /\ us \in Seq(Pending) /\ Len(us) = Len(xs) - 1
      /\ \A i \in 1..(Len(xs) - 1) : us[i] = IF i < s THEN xs[i] ELSE xs[i + 1]
  BY <1>1, RemoveAtProperties
<1>3. /\ vs \in Seq(Pending) /\ Len(vs) = Len(xs) - 1
      /\ \A i \in 1..(Len(xs) - 1) : vs[i] = IF i < s THEN ys[i] ELSE ys[i + 1]
  BY <1>1, RemoveAtProperties
<1> HIDE DEF us, vs
<1>4. ASSUME NEW i \in 1..Len(us)
      PROVE  us[i].position \in 1..n /\ vs[i] = Renumbered(us[i], f[us[i].position])
  <2>1. i \in 1..(Len(xs) - 1) /\ i \in 1..Len(xs) /\ i + 1 \in 1..Len(xs)
    BY <1>1, <1>2
  <2>2. CASE i < s
    BY <1>2, <1>3, <2>1, <2>2 DEF Echo
  <2>3. CASE ~(i < s)
    BY <1>2, <1>3, <2>1, <2>3 DEF Echo
  <2> QED BY <2>2, <2>3
<1> QED BY <1>2, <1>3, <1>4 DEF Echo, us, vs

LEMMA EchoReplace ==
  ASSUME NEW f, NEW n, NEW xs, NEW ys, Echo(f, n, xs, ys), NEW s \in 1..Len(xs),
         NEW x \in Pending, x.position \in 1..n, f[x.position] \in Nat
  PROVE  Echo(f, n, [xs EXCEPT ![s] = x], [ys EXCEPT ![s] = Renumbered(x, f[x.position])])
<1> DEFINE y == Renumbered(x, f[x.position])
           us == [xs EXCEPT ![s] = x]
           vs == [ys EXCEPT ![s] = y]
<1>1. y \in Pending
  BY DEF Renumbered, Pending
<1>2. /\ xs \in Seq(Pending) /\ ys \in Seq(Pending) /\ Len(ys) = Len(xs)
      /\ DOMAIN xs = 1..Len(xs) /\ DOMAIN ys = 1..Len(xs) /\ Len(xs) \in Nat
  BY LenProperties DEF Echo
<1> HIDE DEF y
<1>3. us \in Seq(Pending) /\ Len(us) = Len(xs) /\ vs \in Seq(Pending) /\ Len(vs) = Len(xs)
  BY <1>1, <1>2
<1>4. ASSUME NEW i \in 1..Len(xs)
      PROVE  us[i].position \in 1..n /\ vs[i] = Renumbered(us[i], f[us[i].position])
  <2>1. CASE i = s
    BY <1>2, <2>1 DEF y
  <2>2. CASE i # s
    BY <1>2, <2>2 DEF Echo
  <2> QED BY <2>1, <2>2
<1> QED BY <1>3, <1>4 DEF Echo, y

LEMMA EchoRoom ==
  ASSUME NEW f, NEW n, NEW xs, NEW ys, Echo(f, n, xs, ys)
  PROVE  Echo(f, n, Room(xs), Room(ys))
<1>1. xs \in Seq(Pending) /\ ys \in Seq(Pending) /\ Len(ys) = Len(xs) /\ Len(xs) \in Nat
  BY LenProperties DEF Echo
<1>2. CASE Len(xs) >= LocalOpen
  <2>1. Room(xs) = Tail(xs) /\ Room(ys) = Tail(ys) /\ xs # <<>> /\ ys # <<>>
    BY <1>1, <1>2, LocalOpenAssumption, EmptySeq DEF Room
  <2>2. /\ Tail(xs) \in Seq(Pending) /\ Len(Tail(xs)) = Len(xs) - 1
        /\ \A i \in 1..Len(Tail(xs)) : Tail(xs)[i] = xs[i + 1]
        /\ Tail(ys) \in Seq(Pending) /\ Len(Tail(ys)) = Len(ys) - 1
        /\ \A i \in 1..Len(Tail(ys)) : Tail(ys)[i] = ys[i + 1]
    BY <1>1, <2>1, HeadTailProperties
  <2>3. \A i \in 1..(Len(xs) - 1) : i + 1 \in 1..Len(xs)
    BY <1>1
  <2> DEFINE us == Tail(xs)
             vs == Tail(ys)
  <2> HIDE DEF us, vs
  <2>4. ASSUME NEW i \in 1..Len(us)
        PROVE  us[i].position \in 1..n /\ vs[i] = Renumbered(us[i], f[us[i].position])
    <3>1. us[i] = xs[i + 1] /\ vs[i] = ys[i + 1] /\ i + 1 \in 1..Len(xs)
      BY <1>1, <2>2, <2>3 DEF us, vs
    <3> QED BY <3>1 DEF Echo
  <2> QED BY <1>1, <2>1, <2>2, <2>4 DEF Echo, us, vs
<1>3. CASE ~(Len(xs) >= LocalOpen)
  BY <1>1, <1>3 DEF Room
<1> QED BY <1>2, <1>3

LEMMA EchoAppend ==
  ASSUME NEW f, NEW n, NEW xs, NEW ys, Echo(f, n, xs, ys),
         NEW x \in Pending, x.position \in 1..n, f[x.position] \in Nat
  PROVE  Echo(f, n, Append(xs, x), Append(ys, Renumbered(x, f[x.position])))
<1> DEFINE y == Renumbered(x, f[x.position])
           us == Append(xs, x)
           vs == Append(ys, y)
<1>1. y \in Pending
  BY DEF Renumbered, Pending
<1> HIDE DEF y
<1>2. xs \in Seq(Pending) /\ ys \in Seq(Pending) /\ Len(ys) = Len(xs) /\ Len(xs) \in Nat
  BY LenProperties DEF Echo
<1>3. /\ us \in Seq(Pending) /\ Len(us) = Len(xs) + 1 /\ us[Len(xs) + 1] = x
      /\ \A i \in 1..Len(xs) : us[i] = xs[i]
  BY <1>2, AppendProperties
<1>4. /\ vs \in Seq(Pending) /\ Len(vs) = Len(xs) + 1 /\ vs[Len(xs) + 1] = y
      /\ \A i \in 1..Len(xs) : vs[i] = ys[i]
  BY <1>1, <1>2, AppendProperties
<1> HIDE DEF us, vs
<1>5. ASSUME NEW i \in 1..Len(us)
      PROVE  us[i].position \in 1..n /\ vs[i] = Renumbered(us[i], f[us[i].position])
  <2>1. CASE i = Len(xs) + 1
    BY <1>3, <1>4, <2>1 DEF y
  <2>2. CASE i # Len(xs) + 1
    <3>1. i \in 1..Len(xs)
      BY <1>2, <1>3, <2>2
    <3> QED BY <1>3, <1>4, <3>1 DEF Echo
  <2> QED BY <2>1, <2>2
<1> QED BY <1>3, <1>4, <1>5 DEF Echo, us, vs, y

LEMMA EchoGrows ==
  ASSUME NEW f, NEW n \in Nat, NEW xs, NEW ys, Echo(f, n, xs, ys),
         NEW g, NEW k \in Nat, n <= k, \A j \in 1..n : g[j] = f[j]
  PROVE  Echo(g, k, xs, ys)
<1>1. 1..n \subseteq 1..k
  OBVIOUS
<1> QED BY <1>1 DEF Echo

(* The lists of peer p's requests among them, in o and in its own a. *)
Echoes(f, n, p, a, o) ==
  /\ DOMAIN a = OpenKeys /\ DOMAIN o = OpenKeys
  /\ \A key \in OpenKeys : key.peer = p => Echo(f, n, a[key], o[key])

(* The same candidates, in the same order, so the same one is best. *)
LEMMA SameBest ==
  ASSUME IInv, NEW turn \in Turns, ~Skipped(turn), NEW f, NEW n, NEW a,
         Numbers(f, n), Echoes(f, n, turn.peer, a, open)
  PROVE  /\ Candidates(a, turn) = Candidates(open, turn)
         /\ Candidates(open, turn) # {} => Best(a, turn) = Best(open, turn)
<1> DEFINE cs == [exchange : Exchanges, slot : 1..LocalOpen]
           key(c) == OpenKey(turn, c.exchange, Opposite[turn.direction])
           C == Candidates(open, turn)
<1>1. \A c \in cs : key(c) \in OpenKeys /\ key(c).peer = turn.peer
  BY TurnType DEF OpenKey, OpenKeys
<1>2. ASSUME NEW c \in cs
      PROVE  /\ DOMAIN a[key(c)] = DOMAIN open[key(c)]
             /\ c.slot \in DOMAIN open[key(c)] =>
                  /\ PendingAt(a, turn, c).timestamp = PendingAt(open, turn, c).timestamp
                  /\ ByHash(PendingAt(a, turn, c), turn) <=> ByHash(PendingAt(open, turn, c), turn)
                  /\ MayAnswer(turn, PendingAt(a, turn, c)) <=> MayAnswer(turn, PendingAt(open, turn, c))
  <2> DEFINE k == key(c)
             xs == a[k]
             ys == open[k]
             x == xs[c.slot]
             y == ys[c.slot]
  <2>1. Echo(f, n, xs, ys)
    BY <1>1 DEF Echoes
  <2>2. PendingAt(a, turn, c) = x /\ PendingAt(open, turn, c) = y
    BY DEF PendingAt
  <2> HIDE DEF k, xs, ys
  <2>3. DOMAIN xs = 1..Len(xs) /\ DOMAIN ys = 1..Len(xs)
    BY <2>1, LenProperties DEF Echo
  <2>4. ASSUME c.slot \in 1..Len(xs)
        PROVE  /\ x.timestamp = y.timestamp /\ (ByHash(x, turn) <=> ByHash(y, turn))
               /\ (MayAnswer(turn, x) <=> MayAnswer(turn, y))
    <3>1. y = Renumbered(x, f[x.position]) /\ x.position \in 1..n
      BY <2>1, <2>4 DEF Echo
    <3>2. x \in Pending
      BY <2>1, <2>3, <2>4 DEF Echo
    <3>3. f[x.position] \in Nat
      BY <3>1 DEF Numbers
    <3> HIDE DEF x, y
    <3> QED BY <3>1, <3>2, <3>3, SameButPosition
  <2> QED BY <2>2, <2>3, <2>4 DEF xs, ys, k
<1>3. Candidates(a, turn) = C
  BY <1>2 DEF Candidates
<1>4. \A c \in C : Rank(a, turn, c) = Rank(open, turn, c)
  <2> TAKE c \in C
  <2>1. c \in cs /\ c.slot \in DOMAIN open[key(c)]
    BY DEF Candidates
  <2> QED BY <1>2, <2>1 DEF Rank
<1>5. ASSUME C # {}
      PROVE  Best(a, turn) = Best(open, turn)
  <2> DEFINE b == Best(open, turn)
             d == Best(a, turn)
  <2>1. b \in C /\ \A x \in C \ {b} : Before(Rank(open, turn, b), Rank(open, turn, x))
    BY <1>5, BestIsCandidate
  <2>2. \A x \in C \ {b} : Before(Rank(a, turn, b), Rank(a, turn, x))
    BY <1>4, <2>1
  <2>3. d = CHOOSE c \in C : \A x \in C \ {c} : Before(Rank(a, turn, c), Rank(a, turn, x))
    BY <1>3 DEF Best
  <2>4. d \in C /\ \A x \in C \ {d} : Before(Rank(a, turn, d), Rank(a, turn, x))
    <3> HIDE DEF b, d
    <3> QED BY <2>1, <2>2, <2>3
  <2>5. SUFFICES ASSUME d # b PROVE FALSE
    OBVIOUS
  <2> DEFINE rb == Rank(open, turn, b)
             rd == Rank(open, turn, d)
  <2>6. Before(rb, rd)
    BY <2>1, <2>4, <2>5
  <2>7. Before(rd, rb)
    BY <1>4, <2>1, <2>4, <2>5
  <2>8. \A c \in C : /\ DOMAIN Rank(open, turn, c) = 1..4
                     /\ \A i \in 1..4 : Rank(open, turn, c)[i] \in Nat
    <3> TAKE c \in C
    <3>1. c \in [exchange : Exchanges, slot : Nat] /\ PendingAt(open, turn, c) \in Pending
      BY CandidateType
    <3>2. c.exchange \in Nat /\ c.slot \in Nat /\ PendingAt(open, turn, c).timestamp \in Nat
      BY <3>1, TableAssumption DEF Pending
    <3> DEFINE guess == IF ByHash(PendingAt(open, turn, c), turn) THEN 0 ELSE 1
               then == PendingAt(open, turn, c).timestamp
    <3>3. Rank(open, turn, c) = <<guess, then, c.exchange, c.slot>> /\ guess \in Nat /\ then \in Nat
      BY <3>2 DEF Rank
    <3> HIDE DEF guess, then
    <3> QED BY <3>2, <3>3
  <2>9. /\ DOMAIN rb = 1..4 /\ DOMAIN rd = 1..4
        /\ \A i \in 1..4 : rb[i] \in Nat /\ rd[i] \in Nat
    BY <2>1, <2>4, <2>8
  <2> HIDE DEF rb, rd
  <2>10. PICK i \in 1..4 : rb[i] < rd[i] /\ \A j \in 1..(i - 1) : rb[j] = rd[j]
    BY <2>6, <2>9 DEF Before
  <2>11. PICK k \in 1..4 : rd[k] < rb[k] /\ \A j \in 1..(k - 1) : rd[j] = rb[j]
    BY <2>7, <2>9 DEF Before
  <2>12. CASE i < k
    BY <2>9, <2>10, <2>11, <2>12
  <2>13. CASE k < i
    BY <2>9, <2>10, <2>11, <2>13
  <2>14. CASE i = k
    BY <2>9, <2>10, <2>11, <2>14
  <2> QED BY <2>12, <2>13, <2>14
<1> QED BY <1>3, <1>5

(* The two matchings, of a page and of one peer's turns on it. *)
Matching(m) == m = [open |-> m.open, ties |-> m.ties]

(* The ties they both get for a turn, or that neither gets. *)
SameTies(f, n, us, ws, ts, vs) ==
  \/ ws = us /\ vs = ts
  \/ \E r \in 1..n, d \in Nat :
       ws = Append(us, Tie(r, n + 1, d)) /\ vs = Append(ts, Tie(f[r], f[n + 1], d))

LEMMA OwnReply ==
  ASSUME IInv, NEW turn \in Turns, ~Skipped(turn), NEW f, NEW n \in Nat, NEW a,
         Matching(a), Numbers(f, n), f[n + 1] = Len(page) + 1,
         Echoes(f, n, turn.peer, a.open, open)
  PROVE  LET m == AfterReply([open |-> open, ties |-> ties], Len(page) + 1, turn)
             b == AfterReply(a, n + 1, turn)
         IN /\ Matching(b) /\ Matching(m)
            /\ Echoes(f, n, turn.peer, b.open, m.open)
            /\ SameTies(f, n, a.ties, b.ties, ties, m.ties)
<1> DEFINE m0 == [open |-> open, ties |-> ties]
           N == Len(page) + 1
           m == AfterReply(m0, N, turn)
           b == AfterReply(a, n + 1, turn)
<1>1. CASE Candidates(open, turn) = {}
  <2>1. Candidates(a.open, turn) = {}
    BY <1>1, SameBest
  <2>2. m = m0 /\ b = a
    BY <1>1, <2>1 DEF AfterReply
  <2>3. Matching(m0) /\ m0.open = open /\ m0.ties = ties
    BY DEF Matching
  <2> QED BY <2>2, <2>3 DEF SameTies
<1>2. CASE Candidates(open, turn) # {}
  <2>1. Candidates(a.open, turn) = Candidates(open, turn) /\ Best(a.open, turn) = Best(open, turn)
    BY <1>2, SameBest
  <2> DEFINE c == Best(open, turn)
             key == OpenKey(turn, c.exchange, Opposite[turn.direction])
             xs == a.open[key]
             ys == open[key]
             x == xs[c.slot]
             y == ys[c.slot]
             us == IF Closes(c.exchange, Delivered(x, turn)) THEN RemoveAt(xs, c.slot)
                   ELSE [xs EXCEPT ![c.slot] = Delivered(x, turn)]
             vs == IF Closes(c.exchange, Delivered(y, turn)) THEN RemoveAt(ys, c.slot)
                   ELSE [ys EXCEPT ![c.slot] = Delivered(y, turn)]
             dx == Age(turn.timestamp, x.timestamp)
             dy == Age(turn.timestamp, y.timestamp)
  <2>2. m = [open |-> [open EXCEPT ![key] = vs], ties |-> Append(ties, Tie(y.position, N, dy))]
    BY <1>2 DEF AfterReply
  <2>3. b = [open |-> [a.open EXCEPT ![key] = us], ties |-> Append(a.ties, Tie(x.position, n + 1, dx))]
    BY <1>2, <2>1 DEF AfterReply
  <2>4. key \in OpenKeys /\ key.peer = turn.peer /\ c.slot \in DOMAIN ys
    <3>1. c \in Candidates(open, turn)
      BY <1>2, BestIsCandidate
    <3> HIDE DEF c
    <3> QED BY <3>1, CandidateType DEF OpenKey
  <2>5. Echo(f, n, xs, ys)
    BY <2>4 DEF Echoes
  <2> HIDE DEF c, xs, ys, key
  <2>6. c.slot \in 1..Len(xs)
    BY <2>4, <2>5, LenProperties DEF Echo
  <2>7. x \in Pending /\ x.position \in 1..n /\ y = Renumbered(x, f[x.position])
    BY <2>5, <2>6, LenProperties DEF Echo
  <2>8. f[x.position] \in Nat
    BY <2>7 DEF Numbers
  <2> HIDE DEF x, y
  <2>9. /\ y.position = f[x.position] /\ y.timestamp = x.timestamp
        /\ Delivered(x, turn) \in Pending /\ Delivered(x, turn).position = x.position
        /\ Delivered(y, turn) = Renumbered(Delivered(x, turn), f[x.position])
        /\ Closes(c.exchange, Delivered(y, turn)) <=> Closes(c.exchange, Delivered(x, turn))
    BY <2>7, <2>8, SameButPosition
  <2>10. Echo(f, n, us, vs)
    <3>1. CASE Closes(c.exchange, Delivered(x, turn))
      <4>1. us = RemoveAt(xs, c.slot) /\ vs = RemoveAt(ys, c.slot)
        BY <2>9, <3>1
      <4> QED BY <2>5, <2>6, <4>1, EchoRemove
    <3>2. CASE ~Closes(c.exchange, Delivered(x, turn))
      <4> DEFINE z == Delivered(x, turn)
      <4>1. us = [xs EXCEPT ![c.slot] = z] /\ vs = [ys EXCEPT ![c.slot] = Renumbered(z, f[z.position])]
        BY <2>9, <3>2
      <4>2. z \in Pending /\ z.position \in 1..n /\ f[z.position] \in Nat
        BY <2>7, <2>8, <2>9
      <4> HIDE DEF z
      <4> QED BY <2>5, <2>6, <4>1, <4>2, EchoReplace
    <3> QED BY <3>1, <3>2
  <2>11. dx \in Nat /\ dy = dx
    <3>1. turn.timestamp \in Nat /\ x.timestamp \in Nat
      BY <2>7, TurnType DEF Pending
    <3> QED BY <2>9, <3>1 DEF Age
  <2> HIDE DEF us, vs, dx, dy, m, b
  <2>12. /\ Matching(b) /\ Matching(m)
         /\ m.open = [open EXCEPT ![key] = vs] /\ b.open = [a.open EXCEPT ![key] = us]
         /\ m.ties = Append(ties, Tie(f[x.position], f[n + 1], dx))
         /\ b.ties = Append(a.ties, Tie(x.position, n + 1, dx))
    BY <2>2, <2>3, <2>9, <2>11 DEF Matching
  <2>13. Echoes(f, n, turn.peer, b.open, m.open)
    <3>1. DOMAIN a.open = OpenKeys /\ DOMAIN open = OpenKeys
      BY DEF Echoes
    <3>2. ASSUME NEW k \in OpenKeys, k.peer = turn.peer
          PROVE  Echo(f, n, b.open[k], m.open[k])
      <4>1. CASE k = key
        BY <2>10, <2>12, <3>1, <4>1
      <4>2. CASE k # key
        <5>1. b.open[k] = a.open[k] /\ m.open[k] = open[k]
          BY <2>12, <3>1, <3>2, <4>2
        <5> QED BY <3>2, <5>1 DEF Echoes
      <4> QED BY <4>1, <4>2
    <3> QED BY <2>12, <3>1, <3>2 DEF Echoes
  <2>14. SameTies(f, n, a.ties, b.ties, ties, m.ties)
    BY <2>7, <2>11, <2>12 DEF SameTies
  <2> QED BY <2>12, <2>13, <2>14 DEF m, b
<1> QED BY <1>1, <1>2

LEMMA RequestKeeps ==
  ASSUME NEW m, Matching(m), NEW position, NEW turn
  PROVE  LET r == AfterRequest(m, position, turn)
         IN /\ Matching(r) /\ r.ties = m.ties /\ DOMAIN r.open = OpenKeys
            /\ \A key \in OpenKeys :
                 r.open[key] =
                   IF /\ Table[key.exchange].request = turn.command
                      /\ key = OpenKey(turn, key.exchange, turn.direction)
                   THEN Append(Room(m.open[key]), NewPending(position, turn))
                   ELSE m.open[key]
<1> DEFINE o == [key \in OpenKeys |->
                   IF /\ Table[key.exchange].request = turn.command
                      /\ key = OpenKey(turn, key.exchange, turn.direction)
                   THEN Append(Room(m.open[key]), NewPending(position, turn))
                   ELSE m.open[key]]
           r == AfterRequest(m, position, turn)
<1>1. m = [open |-> m.open, ties |-> m.ties]
  BY DEF Matching
<1>2. r = [m EXCEPT !.open = o]
  BY DEF AfterRequest
<1>3. DOMAIN o = OpenKeys
  OBVIOUS
<1> HIDE DEF o, r
<1>4. r = [open |-> o, ties |-> m.ties]
  BY <1>1, <1>2
<1>5. r.open = o /\ r.ties = m.ties /\ Matching(r)
  BY <1>4 DEF Matching
<1> QED BY <1>3, <1>5 DEF o, r

LEMMA OwnRequest ==
  ASSUME NEW turn \in Turns, ~Skipped(turn), NEW f, NEW n \in Nat, NEW a, NEW m,
         Matching(a), Matching(m), Numbers(f, n + 1),
         Echoes(f, n, turn.peer, a.open, m.open)
  PROVE  LET b == AfterRequest(a, n + 1, turn)
             r == AfterRequest(m, f[n + 1], turn)
         IN /\ Matching(b) /\ b.ties = a.ties /\ r.ties = m.ties
            /\ Echoes(f, n + 1, turn.peer, b.open, r.open)
<1> DEFINE b == AfterRequest(a, n + 1, turn)
           r == AfterRequest(m, f[n + 1], turn)
           N == f[n + 1]
           x == NewPending(n + 1, turn)
           asks(key) == /\ Table[key.exchange].request = turn.command
                        /\ key = OpenKey(turn, key.exchange, turn.direction)
<1>1. /\ Matching(b) /\ b.ties = a.ties /\ DOMAIN b.open = OpenKeys
      /\ \A key \in OpenKeys :
           b.open[key] = IF asks(key) THEN Append(Room(a.open[key]), x) ELSE a.open[key]
  BY RequestKeeps
<1>2. /\ r.ties = m.ties /\ DOMAIN r.open = OpenKeys
      /\ \A key \in OpenKeys :
           r.open[key] = IF asks(key) THEN Append(Room(m.open[key]), NewPending(N, turn)) ELSE m.open[key]
  BY RequestKeeps
<1>3. N \in Nat /\ n + 1 \in 1..(n + 1)
  BY DEF Numbers
<1>4. x \in Pending /\ x.position = n + 1 /\ NewPending(N, turn) = Renumbered(x, N)
  <2>1. turn.timestamp \in Nat /\ turn.keys \in SUBSET Hashes
    BY TurnType
  <2> DEFINE named == turn.keys # {}
  <2>2. named \in BOOLEAN
    OBVIOUS
  <2>3. /\ x = [position |-> n + 1, timestamp |-> turn.timestamp, wanted |-> turn.keys,
                keyed |-> named, replies |-> 0]
        /\ NewPending(N, turn) = [position |-> N, timestamp |-> turn.timestamp, wanted |-> turn.keys,
                                  keyed |-> named, replies |-> 0]
    BY DEF NewPending
  <2> HIDE DEF named, x
  <2>4. x \in Pending
    BY <1>3, <2>1, <2>2, <2>3 DEF Pending
  <2>5. x.position = n + 1 /\ NewPending(N, turn) = Renumbered(x, N)
    BY <2>3 DEF Renumbered
  <2> QED BY <2>4, <2>5
<1> HIDE DEF b, r, asks, x
<1>5. ASSUME NEW key \in OpenKeys, key.peer = turn.peer
      PROVE  Echo(f, n + 1, b.open[key], r.open[key])
  <2> DEFINE xs == a.open[key]
             ys == m.open[key]
  <2>1. Echo(f, n + 1, xs, ys)
    <3>1. Echo(f, n, xs, ys)
      BY <1>5 DEF Echoes
    <3>2. n + 1 \in Nat /\ n <= n + 1
      OBVIOUS
    <3> HIDE DEF xs, ys
    <3> QED BY <3>1, <3>2, EchoGrows
  <2>2. CASE ~asks(key)
    BY <1>1, <1>2, <2>1, <2>2
  <2>3. CASE asks(key)
    <3>1. b.open[key] = Append(Room(xs), x) /\ r.open[key] = Append(Room(ys), Renumbered(x, N))
      BY <1>1, <1>2, <1>4, <2>3
    <3> HIDE DEF xs, ys
    <3>2. Echo(f, n + 1, Room(xs), Room(ys))
      BY <2>1, EchoRoom
    <3>3. x \in Pending /\ x.position \in 1..(n + 1) /\ f[x.position] \in Nat /\ N = f[x.position]
      BY <1>3, <1>4
    <3>4. Echo(f, n + 1, Append(Room(xs), x), Append(Room(ys), Renumbered(x, f[x.position])))
      BY <3>2, <3>3, EchoAppend
    <3> QED BY <3>1, <3>3, <3>4
  <2> QED BY <2>2, <2>3
<1>6. Echoes(f, n + 1, turn.peer, b.open, r.open)
  BY <1>1, <1>2, <1>5 DEF Echoes
<1> QED BY <1>1, <1>2, <1>6 DEF b, r

(* f lists the n positions of a set in order. *)
Lists(f, n, S) ==
  /\ n \in Nat /\ f = [j \in 1..n |-> f[j]]
  /\ \A j \in 1..n : f[j] \in S
  /\ \A i, j \in 1..n : i < j => f[i] < f[j]
  /\ \A x \in S : \E j \in 1..n : f[j] = x

Mine(pg, p) == {i \in DOMAIN pg : pg[i].peer = p}

(* The matchings of so many turns, one after another. *)
Reads(turns, n, after) ==
  after = [i \in 0..n |-> IF i = 0 THEN Unmatched ELSE MatchTurn(after[i - 1], i, turns[i])]

(* The ties us of a peer's own page are those among ts that are the peer's. *)
Told(f, t) == Tie(f[t.request], f[t.reply], t.elapsed)
Tells(f, n, p, pg, us, ts) ==
  /\ us \in Seq([request : Nat, reply : Nat, elapsed : Nat])
  /\ \A j \in DOMAIN us : us[j].request \in 1..n /\ us[j].reply \in 1..n
  /\ \A k \in DOMAIN ts : pg[ts[k].reply].peer = p => \E j \in DOMAIN us : ts[k] = Told(f, us[j])
  /\ \A j \in DOMAIN us : \E k \in DOMAIN ts : ts[k] = Told(f, us[j])

Follows(pg, o, ts, p, n, f, after) ==
  /\ Lists(f, n, Mine(pg, p))
  /\ Reads([j \in 1..n |-> pg[f[j]]], n, after)
  /\ Matching(after[n])
  /\ Echoes(f, n, p, after[n].open, o)
  /\ Tells(f, n, p, pg, after[n].ties, ts)

PeersInv == \A p \in Peers : \E n, f, after : Follows(page, open, ties, p, n, f, after)

(* A turn of another peer changes nothing. *)
LEMMA OtherTurn ==
  ASSUME IInv, NEW turn \in Turns, NEW p \in Peers, turn.peer # p,
         NEW n, NEW f, NEW after, Follows(page, open, ties, p, n, f, after)
  PROVE  LET m == MatchTurn([open |-> open, ties |-> ties], Len(page) + 1, turn)
         IN Follows(Append(page, turn), m.open, m.ties, p, n, f, after)
<1> DEFINE m0 == [open |-> open, ties |-> ties]
           N == Len(page) + 1
           m == MatchTurn(m0, N, turn)
           pg == Append(page, turn)
<1>1. /\ Len(page) \in Nat /\ DOMAIN page = 1..Len(page) /\ DOMAIN pg = 1..N
      /\ \A i \in 1..Len(page) : pg[i] = page[i]
      /\ pg[N] = turn
  <2>1. page \in Seq(Turns)
    BY DEF IInv
  <2> QED BY <2>1, AppendProperties, LenProperties
<1>2. DOMAIN open = OpenKeys /\ Matching(m0) /\ m0.open = open /\ m0.ties = ties
  BY DEF IInv, Matching
<1>3. /\ DOMAIN m.open = OpenKeys
      /\ \A key \in OpenKeys : key.peer = p => m.open[key] = open[key]
      /\ Extends(m.ties, ties, N)
  <2>1. CASE Skipped(turn)
    <3>1. m = m0
      BY <2>1 DEF MatchTurn
    <3> HIDE DEF m, m0
    <3> QED BY <1>2, <3>1 DEF Extends
  <2>2. CASE ~Skipped(turn)
    <3> DEFINE b == AfterReply(m0, N, turn)
    <3>1. m = AfterRequest(b, N, turn)
      BY <2>2 DEF MatchTurn
    <3>2. Extends(b.ties, ties, N)
      BY ReplyTies
    <3>3. /\ Matching(b) /\ DOMAIN b.open = OpenKeys
          /\ \A key \in OpenKeys : key.peer = p => b.open[key] = open[key]
      <4>1. CASE Candidates(open, turn) = {}
        <5>1. b = m0
          BY <4>1 DEF AfterReply
        <5> HIDE DEF b, m0
        <5> QED BY <1>2, <5>1
      <4>2. CASE Candidates(open, turn) # {}
        <5> DEFINE k == OpenKey(turn, Best(open, turn).exchange, Opposite[turn.direction])
        <5>1. \E list, us : b = [open |-> [open EXCEPT ![k] = list], ties |-> us]
          BY <4>2 DEF AfterReply
        <5>2. k.peer # p
          BY DEF OpenKey
        <5> HIDE DEF k, b
        <5>3. PICK list, us : b = [open |-> [open EXCEPT ![k] = list], ties |-> us]
          BY <5>1
        <5>4. Matching(b) /\ b.open = [open EXCEPT ![k] = list]
          BY <5>3 DEF Matching
        <5> QED BY <1>2, <5>2, <5>4
      <4> QED BY <4>1, <4>2
    <3> HIDE DEF b, m, N
    <3>4. /\ m.ties = b.ties /\ DOMAIN m.open = OpenKeys
          /\ \A key \in OpenKeys : key.peer = p => m.open[key] = b.open[key]
      <4>1. \A key \in OpenKeys : key.peer = p => key # OpenKey(turn, key.exchange, turn.direction)
        BY DEF OpenKey
      <4> QED BY <3>1, <3>3, <4>1, RequestKeeps
    <3> QED BY <3>2, <3>3, <3>4
  <2> QED BY <2>1, <2>2
<1> HIDE DEF m, pg
<1>4. Mine(pg, p) = Mine(page, p)
  BY <1>1 DEF Mine
<1>5. \A j \in 1..n : f[j] \in 1..Len(page)
  BY <1>1 DEF Follows, Lists, Mine
<1>6. [j \in 1..n |-> pg[f[j]]] = [j \in 1..n |-> page[f[j]]]
  BY <1>1, <1>5
<1>7. Echoes(f, n, p, after[n].open, m.open)
  BY <1>3 DEF Follows, Echoes
<1>8. Tells(f, n, p, pg, after[n].ties, m.ties)
  <2> DEFINE us == after[n].ties
  <2>1. Tells(f, n, p, page, us, ties)
    BY DEF Follows
  <2> HIDE DEF us
  <2>2. \A k \in DOMAIN ties : ties[k].reply \in 1..Len(page)
    <3>1. \A k \in DOMAIN ties : ties[k] \in [request : Nat \ {0}, reply : Nat, elapsed : Nat]
      BY TieType
    <3>2. \A k \in DOMAIN ties : ties[k].request < ties[k].reply /\ ties[k].reply <= Len(page)
      BY DEF IInv, Tied
    <3> QED BY <1>1, <3>1, <3>2
  <2>3. ASSUME NEW k \in DOMAIN m.ties, pg[m.ties[k].reply].peer = p
        PROVE  \E j \in DOMAIN us : m.ties[k] = Told(f, us[j])
    <3>1. CASE k \in DOMAIN ties
      <4>1. m.ties[k] = ties[k] /\ page[ties[k].reply].peer = p
        BY <1>1, <1>3, <2>2, <2>3, <3>1 DEF Extends
      <4> QED BY <2>1, <3>1, <4>1 DEF Tells
    <3>2. CASE k \notin DOMAIN ties
      <4>1. m.ties[k].reply = N
        BY <1>3, <3>2 DEF Extends
      <4> QED BY <1>1, <2>3, <4>1
    <3> QED BY <3>1, <3>2
  <2>4. ASSUME NEW j \in DOMAIN us
        PROVE  \E k \in DOMAIN m.ties : m.ties[k] = Told(f, us[j])
    <3>1. PICK k \in DOMAIN ties : ties[k] = Told(f, us[j])
      BY <2>1 DEF Tells
    <3>2. k \in DOMAIN m.ties /\ m.ties[k] = ties[k]
      BY <1>3 DEF Extends
    <3> QED BY <3>1, <3>2
  <2> QED BY <2>1, <2>3, <2>4 DEF Tells, us
<1> QED BY <1>4, <1>6, <1>7, <1>8 DEF Follows, m, pg

(* A turn of the peer's is matched on its own page as it is on the whole. *)
LEMMA TellsMore ==
  ASSUME IInv, NEW turn \in Turns, NEW p, turn.peer = p, NEW f, NEW g, NEW n \in Nat,
         \A j \in 1..n : g[j] = f[j], g[n + 1] = Len(page) + 1,
         NEW us, NEW ws, NEW vs, Tells(f, n, p, page, us, ties), SameTies(g, n, us, ws, ties, vs)
  PROVE  Tells(g, n + 1, p, Append(page, turn), ws, vs)
<1> DEFINE N == Len(page) + 1
           pg == Append(page, turn)
           Typed == [request : Nat, reply : Nat, elapsed : Nat]
<1>1. /\ Len(page) \in Nat /\ \A i \in 1..Len(page) : pg[i] = page[i]
      /\ pg[N] = turn
  <2>1. page \in Seq(Turns)
    BY DEF IInv
  <2> QED BY <2>1, AppendProperties, LenProperties
<1>2. /\ us \in Seq(Typed) /\ Len(us) \in Nat /\ DOMAIN us = 1..Len(us)
      /\ \A j \in DOMAIN us : us[j].request \in 1..n /\ us[j].reply \in 1..n
  BY LenProperties DEF Tells
<1>3. /\ ties \in Seq([request : Nat \ {0}, reply : Nat, elapsed : Nat])
      /\ Len(ties) \in Nat /\ DOMAIN ties = 1..Len(ties)
      /\ \A k \in DOMAIN ties : ties[k].reply \in 1..Len(page)
  <2>1. \A k \in DOMAIN ties : ties[k] \in [request : Nat \ {0}, reply : Nat, elapsed : Nat]
    BY TieType
  <2>2. \A k \in DOMAIN ties : ties[k].request < ties[k].reply /\ ties[k].reply <= Len(page)
    BY DEF IInv, Tied
  <2>3. ties \in Seq([request : Nat \ {0}, reply : Nat, elapsed : Nat])
    BY DEF IInv, Tied
  <2>4. \A k \in DOMAIN ties : ties[k].reply \in 1..Len(page)
    BY <1>1, <2>1, <2>2
  <2> QED BY <2>3, <2>4, LenProperties
<1>4. \A j \in DOMAIN us : Told(g, us[j]) = Told(f, us[j])
  BY <1>2 DEF Told
<1>5. \A k \in DOMAIN ties : pg[ties[k].reply].peer = p => \E j \in DOMAIN us : ties[k] = Told(g, us[j])
  <2> TAKE k \in DOMAIN ties
  <2>1. pg[ties[k].reply] = page[ties[k].reply]
    BY <1>1, <1>3
  <2> QED BY <1>4, <2>1 DEF Tells
<1>6. \A j \in DOMAIN us : \E k \in DOMAIN ties : ties[k] = Told(g, us[j])
  BY <1>4 DEF Tells
<1>7. 1..n \subseteq 1..(n + 1) /\ n + 1 \in 1..(n + 1)
  OBVIOUS
<1> HIDE DEF pg
<1>8. CASE ws = us /\ vs = ties
  BY <1>2, <1>5, <1>6, <1>7, <1>8 DEF Tells, pg
<1>9. CASE \E r \in 1..n, d \in Nat :
             ws = Append(us, Tie(r, n + 1, d)) /\ vs = Append(ties, Tie(g[r], g[n + 1], d))
  <2>1. PICK r \in 1..n, d \in Nat :
          ws = Append(us, Tie(r, n + 1, d)) /\ vs = Append(ties, Tie(g[r], g[n + 1], d))
    BY <1>9
  <2> DEFINE t == Tie(r, n + 1, d)
             u == Tie(g[r], g[n + 1], d)
             a == Len(us) + 1
             b == Len(ties) + 1
  <2>2. t \in Typed /\ t.request = r /\ t.reply = n + 1 /\ u = Told(g, t)
    BY DEF Tie, Told
  <2> HIDE DEF t, u
  <2>3. ws \in Seq(Typed) /\ DOMAIN ws = 1..a /\ ws[a] = t /\ \A j \in DOMAIN us : ws[j] = us[j]
    BY <1>2, <2>1, <2>2, AppendProperties, LenProperties DEF t
  <2>4. DOMAIN vs = 1..b /\ vs[b] = u /\ \A k \in DOMAIN ties : vs[k] = ties[k]
    <3> DEFINE Both == [request : Nat \ {0}, reply : Nat, elapsed : Nat] \cup {u}
    <3>1. ties \in Seq(Both) /\ u \in Both
      <4>1. ties \in [1..Len(ties) -> [request : Nat \ {0}, reply : Nat, elapsed : Nat]]
        BY <1>3, LenProperties
      <4>2. ties \in [1..Len(ties) -> Both]
        BY <4>1
      <4>3. u \in Both
        OBVIOUS
      <4> HIDE DEF Both
      <4> DEFINE q == Len(ties)
      <4>4. q \in Nat /\ ties \in [1..q -> Both]
        BY <1>3, <4>2
      <4> HIDE DEF q
      <4>5. ties \in Seq(Both)
        BY <4>4, SeqDef
      <4> QED BY <4>3, <4>5
    <3> HIDE DEF Both
    <3>2. vs \in Seq(Both) /\ Len(vs) = Len(ties) + 1 /\ vs[b] = u /\ \A k \in 1..Len(ties) : vs[k] = ties[k]
      BY <2>1, <3>1, AppendProperties DEF u
    <3> QED BY <1>3, <3>2, LenProperties
  <2>5. a \in DOMAIN ws /\ b \in DOMAIN vs
    BY <1>2, <1>3, <2>3, <2>4
  <2>6. \A j \in DOMAIN ws : j \in DOMAIN us \/ j = a
    BY <1>2, <2>3
  <2>7. \A k \in DOMAIN vs : k \in DOMAIN ties \/ k = b
    BY <1>3, <2>4
  <2>8. DOMAIN us \subseteq DOMAIN ws /\ DOMAIN ties \subseteq DOMAIN vs
    BY <1>2, <1>3, <2>3, <2>4
  <2> HIDE DEF a, b
  <2>9. \A j \in DOMAIN ws : ws[j].request \in 1..(n + 1) /\ ws[j].reply \in 1..(n + 1)
    BY <1>2, <1>7, <2>2, <2>3, <2>6
  <2>10. \A k \in DOMAIN vs : pg[vs[k].reply].peer = p => \E j \in DOMAIN ws : vs[k] = Told(g, ws[j])
    <3> TAKE k \in DOMAIN vs
    <3>1. CASE k \in DOMAIN ties
      <4>1. vs[k] = ties[k]
        BY <2>4, <3>1
      <4>2. pg[ties[k].reply].peer = p => \E j \in DOMAIN us : ties[k] = Told(g, us[j])
        BY <1>5, <3>1
      <4> QED BY <2>3, <2>8, <4>1, <4>2
    <3>2. CASE k = b
      BY <2>2, <2>3, <2>4, <2>5, <3>2
    <3> QED BY <2>7, <3>1, <3>2
  <2>11. \A j \in DOMAIN ws : \E k \in DOMAIN vs : vs[k] = Told(g, ws[j])
    <3> TAKE j \in DOMAIN ws
    <3>1. CASE j \in DOMAIN us
      <4>1. PICK k \in DOMAIN ties : ties[k] = Told(g, us[j])
        BY <1>6, <3>1
      <4> QED BY <2>3, <2>4, <2>8, <3>1, <4>1
    <3>2. CASE j = a
      BY <2>2, <2>3, <2>4, <2>5, <3>2
    <3> QED BY <2>6, <3>1, <3>2
  <2> QED BY <2>3, <2>9, <2>10, <2>11 DEF Tells, pg
<1> QED BY <1>8, <1>9 DEF SameTies

LEMMA OwnTurn ==
  ASSUME IInv, NEW turn \in Turns, NEW p \in Peers, turn.peer = p,
         NEW n, NEW f, NEW after, Follows(page, open, ties, p, n, f, after)
  PROVE  LET m == MatchTurn([open |-> open, ties |-> ties], Len(page) + 1, turn)
             g == [j \in 1..(n + 1) |-> IF j <= n THEN f[j] ELSE Len(page) + 1]
             more == [i \in 0..(n + 1) |-> IF i <= n THEN after[i] ELSE MatchTurn(after[n], n + 1, turn)]
         IN Follows(Append(page, turn), m.open, m.ties, p, n + 1, g, more)
<1> DEFINE m0 == [open |-> open, ties |-> ties]
           N == Len(page) + 1
           m == MatchTurn(m0, N, turn)
           a == after[n]
           b == MatchTurn(a, n + 1, turn)
           g == [j \in 1..(n + 1) |-> IF j <= n THEN f[j] ELSE N]
           more == [i \in 0..(n + 1) |-> IF i <= n THEN after[i] ELSE b]
           pg == Append(page, turn)
           turns == [j \in 1..n |-> page[f[j]]]
           all == [j \in 1..(n + 1) |-> pg[g[j]]]
<1>1. /\ Len(page) \in Nat /\ DOMAIN page = 1..Len(page) /\ DOMAIN pg = 1..N
      /\ \A i \in 1..Len(page) : pg[i] = page[i]
      /\ pg[N] = turn
  <2>1. page \in Seq(Turns)
    BY DEF IInv
  <2> QED BY <2>1, AppendProperties, LenProperties
<1>2. /\ n \in Nat /\ n + 1 \in Nat /\ \A j \in 1..n : f[j] \in Mine(page, p)
      /\ \A i, j \in 1..n : i < j => f[i] < f[j]
      /\ \A x \in Mine(page, p) : \E j \in 1..n : f[j] = x
      /\ Matching(a) /\ Echoes(f, n, p, a.open, open) /\ Tells(f, n, p, page, a.ties, ties)
  BY DEF Follows, Lists
<1>3. \A i \in 0..n : after[i] = IF i = 0 THEN Unmatched ELSE MatchTurn(after[i - 1], i, turns[i])
  <2>1. Reads(turns, n, after)
    BY DEF Follows
  <2> HIDE DEF turns
  <2> QED BY <2>1 DEF Reads
<1>4. \A j \in 1..n : f[j] \in 1..Len(page)
  BY <1>1, <1>2 DEF Mine
<1>5. /\ DOMAIN g = 1..(n + 1) /\ g = [j \in 1..(n + 1) |-> g[j]]
      /\ \A j \in 1..n : g[j] = f[j]
      /\ g[n + 1] = N
  BY <1>2
<1>6. /\ more = [i \in 0..(n + 1) |-> more[i]] /\ \A i \in 0..n : more[i] = after[i]
      /\ more[n + 1] = b
  <2> HIDE DEF b
  <2> QED BY <1>2
<1> HIDE DEF m0, m, a, b, g, more, pg, turns
<1>7. Lists(g, n + 1, Mine(pg, p))
  <2>1. Mine(pg, p) = Mine(page, p) \cup {N}
    BY <1>1 DEF Mine
  <2>2. \A j \in 1..(n + 1) : j \in 1..n \/ j = n + 1
    BY <1>2
  <2>3. \A j \in 1..(n + 1) : g[j] \in Mine(pg, p)
    BY <1>2, <1>5, <2>1, <2>2
  <2>4. \A i, j \in 1..(n + 1) : i < j => g[i] < g[j]
    <3> SUFFICES ASSUME NEW i \in 1..(n + 1), NEW j \in 1..(n + 1), i < j PROVE g[i] < g[j]
      OBVIOUS
    <3>1. i \in 1..n
      BY <1>2
    <3>2. CASE j \in 1..n
      BY <1>2, <1>5, <3>1, <3>2
    <3>3. CASE j = n + 1
      <4>1. g[i] = f[i] /\ f[i] \in 1..Len(page) /\ g[j] = N
        BY <1>4, <1>5, <3>1, <3>3
      <4> QED BY <1>1, <4>1
    <3> QED BY <2>2, <3>2, <3>3
  <2>5. \A x \in Mine(pg, p) : \E j \in 1..(n + 1) : g[j] = x
    <3> TAKE x \in Mine(pg, p)
    <3>1. CASE x = N
      BY <1>2, <1>5, <3>1
    <3>2. CASE x \in Mine(page, p)
      <4>1. PICK j \in 1..n : f[j] = x
        BY <1>2, <3>2
      <4>2. j \in 1..(n + 1)
        BY <1>2
      <4> QED BY <1>5, <4>1, <4>2
    <3> QED BY <2>1, <3>1, <3>2
  <2> QED BY <1>2, <1>5, <2>3, <2>4, <2>5 DEF Lists
<1>8. Reads(all, n + 1, more)
  <2>1. \A j \in 1..n : all[j] = turns[j]
    <3> TAKE j \in 1..n
    <3>1. j \in 1..(n + 1)
      BY <1>2
    <3> QED BY <1>1, <1>4, <1>5, <3>1 DEF turns
  <2>2. all[n + 1] = turn
    <3>1. n + 1 \in 1..(n + 1)
      BY <1>2
    <3> QED BY <1>1, <1>5, <3>1
  <2> HIDE DEF all
  <2>3. \A i \in 0..(n + 1) : more[i] = IF i = 0 THEN Unmatched ELSE MatchTurn(more[i - 1], i, all[i])
    <3> TAKE i \in 0..(n + 1)
    <3>1. CASE i = 0
      BY <1>2, <1>3, <1>6, <3>1
    <3>2. CASE i \in 1..n
      <4>1. i \in 0..n /\ i - 1 \in 0..n /\ i # 0
        BY <1>2, <3>2
      <4>2. after[i] = MatchTurn(after[i - 1], i, turns[i])
        BY <1>3, <4>1
      <4> QED BY <1>6, <2>1, <3>2, <4>1, <4>2
    <3>3. CASE i = n + 1
      <4>1. i # 0 /\ i - 1 = n /\ n \in 0..n
        BY <1>2, <3>3
      <4>2. more[i - 1] = a
        BY <1>6, <4>1 DEF a
      <4> QED BY <1>6, <2>2, <3>3, <4>1, <4>2 DEF b
    <3> QED BY <1>2, <3>1, <3>2, <3>3
  <2> QED BY <1>6, <2>3 DEF Reads
<1>9. Numbers(g, n + 1)
  <2>1. \A j \in 1..(n + 1) : j \in 1..n \/ j = n + 1
    BY <1>2
  <2>2. \A j \in 1..n : g[j] \in 1..Len(page)
    BY <1>4, <1>5
  <2>3. \A j \in 1..(n + 1) : g[j] \in Nat
    <3> TAKE j \in 1..(n + 1)
    <3>1. CASE j \in 1..n
      <4>1. g[j] \in 1..Len(page)
        BY <2>2, <3>1
      <4> QED BY <4>1
    <3>2. CASE j = n + 1
      BY <1>1, <1>5, <3>2
    <3> QED BY <2>1, <3>1, <3>2
  <2> QED BY <1>2, <2>3 DEF Numbers
<1>10. Numbers(g, n)
  <2>1. 1..n \subseteq 1..(n + 1)
    BY <1>2
  <2> QED BY <1>2, <1>9, <2>1 DEF Numbers
<1>11. Echoes(g, n, p, a.open, open)
  <2>1. \A key \in OpenKeys : key.peer = p => Echo(g, n, a.open[key], open[key])
    <3> SUFFICES ASSUME NEW key \in OpenKeys, key.peer = p PROVE Echo(g, n, a.open[key], open[key])
      OBVIOUS
    <3>1. Echo(f, n, a.open[key], open[key])
      BY <1>2 DEF Echoes
    <3>2. n <= n
      BY <1>2
    <3> QED BY <1>2, <1>5, <3>1, <3>2, EchoGrows
  <2> QED BY <1>2, <2>1 DEF Echoes
<1>12. Matching(m0) /\ m0.open = open /\ m0.ties = ties
  BY DEF Matching, m0
<1>13. Matching(b) /\ Echoes(g, n + 1, p, b.open, m.open) /\ SameTies(g, n, a.ties, b.ties, ties, m.ties)
  <2>1. CASE Skipped(turn)
    <3>1. b = a /\ m = m0
      BY <2>1 DEF MatchTurn, b, m
    <3>2. \A key \in OpenKeys : key.peer = p => Echo(g, n + 1, a.open[key], open[key])
      <4> SUFFICES ASSUME NEW key \in OpenKeys, key.peer = p PROVE Echo(g, n + 1, a.open[key], open[key])
        OBVIOUS
      <4>1. Echo(g, n, a.open[key], open[key])
        BY <1>11 DEF Echoes
      <4>2. n <= n + 1
        BY <1>2
      <4> QED BY <1>2, <4>1, <4>2, EchoGrows
    <3> QED BY <1>2, <1>11, <1>12, <3>1, <3>2 DEF Echoes, SameTies
  <2>2. CASE ~Skipped(turn)
    <3> DEFINE c == AfterReply(a, n + 1, turn)
               r == AfterReply(m0, N, turn)
    <3>1. b = AfterRequest(c, n + 1, turn) /\ m = AfterRequest(r, g[n + 1], turn)
      BY <1>5, <2>2 DEF MatchTurn, b, m
    <3>2. /\ Matching(c) /\ Matching(r) /\ Echoes(g, n, p, c.open, r.open)
          /\ SameTies(g, n, a.ties, c.ties, ties, r.ties)
      BY <1>2, <1>5, <1>10, <1>11, <2>2, OwnReply DEF m0
    <3> HIDE DEF c, r
    <3>3. /\ Matching(b) /\ b.ties = c.ties /\ m.ties = r.ties
          /\ Echoes(g, n + 1, p, b.open, m.open)
      BY <1>2, <1>9, <2>2, <3>1, <3>2, OwnRequest
    <3> QED BY <3>2, <3>3
  <2> QED BY <2>1, <2>2
<1>14. Tells(g, n + 1, p, pg, b.ties, m.ties)
  BY <1>2, <1>5, <1>13, TellsMore DEF pg
<1>15. Follows(pg, m.open, m.ties, p, n + 1, g, more)
  BY <1>6, <1>7, <1>8, <1>13, <1>14 DEF Follows
<1> QED BY <1>15 DEF m0, m, a, b, g, more, pg

(* Every peer's turns are followed, whatever the page holds. *)
LEMMA PeersInit == Init => PeersInv
<1> SUFFICES ASSUME Init, NEW p \in Peers
             PROVE  \E n, f, after : Follows(page, open, ties, p, n, f, after)
  BY DEF PeersInv
<1> DEFINE f == [j \in 1..0 |-> 0]
           after == [i \in 0..0 |-> Unmatched]
<1>1. page = <<>> /\ open = Unmatched.open /\ ties = Unmatched.ties
  BY DEF Init
<1>2. 1..0 = {} /\ 0..0 = {0}
  OBVIOUS
<1>3. Lists(f, 0, Mine(page, p))
  <2>1. Mine(page, p) = {}
    BY <1>1 DEF Mine
  <2> QED BY <1>2, <2>1 DEF Lists
<1>4. after[0] = Unmatched
  BY <1>2
<1>5. Reads([j \in 1..0 |-> page[f[j]]], 0, after)
  BY <1>2 DEF Reads
<1>6. Matching(Unmatched) /\ DOMAIN Unmatched.open = OpenKeys
      /\ (\A key \in OpenKeys : Unmatched.open[key] = <<>>) /\ Unmatched.ties = <<>>
  BY DEF Matching, Unmatched
<1> HIDE DEF f, after
<1>7. Echoes(f, 0, p, after[0].open, open)
  <2>1. Echo(f, 0, <<>>, <<>>)
    BY <1>2, EmptySeq DEF Echo
  <2> QED BY <1>1, <1>4, <1>6, <2>1 DEF Echoes
<1>8. Tells(f, 0, p, page, after[0].ties, ties)
  BY <1>1, <1>4, <1>6, EmptySeq DEF Tells
<1>9. Follows(page, open, ties, p, 0, f, after)
  BY <1>3, <1>4, <1>5, <1>6, <1>7, <1>8 DEF Follows
<1> QED BY <1>9

LEMMA PeersNext == IInv /\ PeersInv /\ [Next]_vars => PeersInv'
<1> SUFFICES ASSUME IInv, PeersInv, [Next]_vars, NEW p \in Peers
             PROVE  \E n, f, after : Follows(page', open', ties', p, n, f, after)
  <2>1. PeersInv' = \A p \in Peers : \E n, f, after : Follows(page', open', ties', p, n, f, after)
    BY DEF PeersInv
  <2> QED BY <2>1
<1>1. PICK n, f, after : Follows(page, open, ties, p, n, f, after)
  BY DEF PeersInv
<1>2. CASE UNCHANGED vars
  BY <1>1, <1>2 DEF vars
<1>3. ASSUME NEW row \in Rows, ReadRow(row)
      PROVE  \E k, g, more : Follows(page', open', ties', p, k, g, more)
  <2> DEFINE turn == TurnOf(row)
             m == MatchTurn([open |-> open, ties |-> ties], Len(page) + 1, turn)
  <2>1. turn \in Turns /\ page' = Append(page, turn) /\ open' = m.open /\ ties' = m.ties
    BY <1>3 DEF ReadRow, Turns
  <2> HIDE DEF turn
  <2>2. CASE turn.peer = p
    <3> DEFINE g == [j \in 1..(n + 1) |-> IF j <= n THEN f[j] ELSE Len(page) + 1]
               more == [i \in 0..(n + 1) |-> IF i <= n THEN after[i] ELSE MatchTurn(after[n], n + 1, turn)]
    <3>1. Follows(Append(page, turn), m.open, m.ties, p, n + 1, g, more)
      BY <1>1, <2>1, <2>2, OwnTurn
    <3> HIDE DEF g, more, m
    <3> QED BY <2>1, <3>1
  <2>3. CASE turn.peer # p
    <3>1. Follows(Append(page, turn), m.open, m.ties, p, n, f, after)
      BY <1>1, <2>1, <2>3, OtherTurn
    <3> HIDE DEF m
    <3> QED BY <2>1, <3>1
  <2> QED BY <2>2, <2>3
<1> QED BY <1>2, <1>3 DEF Next

LEMMA PeersFollowed == Spec => []PeersInv
<1>1. Init => PeersInv
  BY PeersInit
<1>2. IInv /\ PeersInv /\ [Next]_vars => PeersInv'
  BY PeersNext
<1> QED BY <1>1, <1>2, Invariant, PTL DEF Spec

(* There is one order of a set, and one course of a matching. *)
LEMMA ListIsInOrder ==
  ASSUME NEW S \in SUBSET Nat, NEW n, NEW f, Lists(f, n, S)
  PROVE  f = InOrder(S) /\ DOMAIN f = 1..n
<1> DEFINE Up(x) == {k \in S : k <= x}
<1>1. /\ n \in Nat /\ DOMAIN f = 1..n /\ \A j \in 1..n : f[j] \in S
      /\ f = [j \in 1..n |-> f[j]]
      /\ \A i, j \in 1..n : i < j => f[i] < f[j]
      /\ \A x \in S : \E j \in 1..n : f[j] = x
  BY DEF Lists
<1>2. \A i, j \in 1..n : f[i] <= f[j] => i <= j
  <2> SUFFICES ASSUME NEW i \in 1..n, NEW j \in 1..n, f[i] <= f[j], j < i PROVE FALSE
    BY <1>1
  <2>1. f[j] < f[i] /\ f[i] \in Nat /\ f[j] \in Nat
    BY <1>1
  <2> QED BY <2>1
<1>3. ASSUME NEW j \in 0..n
      PROVE  Cardinality({f[i] : i \in 1..j}) = j
  <2> DEFINE U == {f[i] : i \in 1..j}
             h == [i \in 1..j |-> f[i]]
  <2>1. \A i \in 1..j : i \in 1..n
    BY <1>1
  <2>2. h \in Bijection(1..j, U)
    <3>1. \A x, y \in 1..j : h[x] = h[y] => x = y
      <4> SUFFICES ASSUME NEW x \in 1..j, NEW y \in 1..j, f[x] = f[y] PROVE x = y
        OBVIOUS
      <4>1. f[x] \in Nat /\ f[y] \in Nat /\ x \in 1..n /\ y \in 1..n
        BY <1>1, <2>1
      <4>2. x <= y /\ y <= x
        BY <1>2, <4>1
      <4> QED BY <4>1, <4>2
    <3>2. h \in [1..j -> U] /\ \A u \in U : \E i \in 1..j : h[i] = u
      OBVIOUS
    <3> HIDE DEF h, U
    <3> QED BY <3>1, <3>2 DEF Bijection, Injection, Surjection, IsInjective
  <2>3. IsFiniteSet(1..j) /\ Cardinality(1..j) = j
    <3>1. 1 \in Int /\ j \in Int /\ j \in Nat
      BY <1>1
    <3> QED BY <3>1, FS_Interval
  <2> HIDE DEF U, h
  <2>4. Cardinality(U) = Cardinality(1..j)
    BY <2>2, <2>3, FS_Bijection DEF ExistsBijection
  <2> QED BY <2>3, <2>4 DEF U
<1>4. ASSUME NEW j \in 1..n
      PROVE  Cardinality(Up(f[j])) = j
  <2>1. Up(f[j]) = {f[i] : i \in 1..j}
    <3>1. ASSUME NEW x \in Up(f[j]) PROVE x \in {f[i] : i \in 1..j}
      <4>1. PICK i \in 1..n : f[i] = x
        BY <1>1
      <4>2. i <= j
        BY <1>2, <4>1
      <4> QED BY <4>1, <4>2
    <3>2. ASSUME NEW i \in 1..j PROVE f[i] \in Up(f[j])
      <4>1. i \in 1..n /\ (i = j \/ i < j)
        BY <1>1
      <4>2. f[i] \in S /\ f[i] \in Nat /\ f[j] \in Nat /\ (i = j \/ f[i] < f[j])
        BY <1>1, <4>1
      <4> QED BY <4>2
    <3> QED BY <3>1, <3>2
  <2>2. j \in 0..n
    OBVIOUS
  <2> QED BY <1>3, <2>1, <2>2
<1>5. Cardinality(S) = n
  <2>1. S = {f[i] : i \in 1..n}
    BY <1>1
  <2>2. n \in 0..n
    BY <1>1
  <2> QED BY <1>3, <2>1, <2>2
<1>6. InOrder(S) = [j \in 1..n |-> CHOOSE i \in S : Cardinality(Up(i)) = j]
  BY <1>5 DEF InOrder
<1> HIDE DEF Up
<1>7. \A j \in 1..n : (CHOOSE i \in S : Cardinality(Up(i)) = j) = f[j]
  <2> TAKE j \in 1..n
  <2> DEFINE i == CHOOSE i \in S : Cardinality(Up(i)) = j
  <2>1. i \in S /\ Cardinality(Up(i)) = j
    BY <1>1, <1>4
  <2> HIDE DEF i
  <2>2. PICK k \in 1..n : f[k] = i
    BY <1>1, <2>1
  <2>3. k = j
    BY <1>4, <2>1, <2>2
  <2> QED BY <2>2, <2>3 DEF i
<1> QED BY <1>1, <1>6, <1>7

LEMMA MatchTurnsIs ==
  ASSUME NEW turns, NEW n \in Nat, turns = [j \in 1..n |-> turns[j]],
         NEW after, Reads(turns, n, after)
  PROVE  MatchTurns(turns) = after[n].ties
<1>1. Len(turns) = n
  <2> DEFINE X == {turns[j] : j \in 1..n}
  <2>1. turns \in [1..n -> X]
    OBVIOUS
  <2> HIDE DEF X
  <2>2. turns \in Seq(X)
    BY <2>1, SeqDef
  <2> QED BY <2>1, <2>2, LenProperties
<1> DEFINE g == CHOOSE g : Reads(turns, n, g)
<1>2. MatchTurns(turns) = g[n].ties
  BY <1>1 DEF MatchTurns, Reads
<1>3. Reads(turns, n, g)
  OBVIOUS
<1> HIDE DEF g
<1>4. \A i \in 0..n : g[i] = IF i = 0 THEN Unmatched ELSE MatchTurn(g[i - 1], i, turns[i])
  BY <1>3 DEF Reads
<1>5. \A i \in 0..n : after[i] = IF i = 0 THEN Unmatched ELSE MatchTurn(after[i - 1], i, turns[i])
  BY DEF Reads
<1> DEFINE T == {i \in 0..n : g[i] # after[i]}
<1>6. T = {}
  <2> SUFFICES ASSUME T # {} PROVE FALSE
    OBVIOUS
  <2>1. PICK x \in T : \A y \in T : x <= y
    <3>1. T \in SUBSET Nat
      OBVIOUS
    <3> HIDE DEF T
    <3> QED BY <3>1, LeastNat
  <2>2. x # 0
    BY <1>4, <1>5
  <2>3. x \in 0..n /\ x - 1 \in 0..n /\ ~(x <= x - 1)
    BY <2>2
  <2>4. g[x - 1] = after[x - 1]
    BY <2>1, <2>3
  <2>5. g[x] = after[x]
    BY <1>4, <1>5, <2>2, <2>3, <2>4
  <2> QED BY <2>5
<1>7. n \in 0..n
  OBVIOUS
<1> QED BY <1>2, <1>6, <1>7

(***************************************************************************)
(* Peers do not disturb one another: the ties of a page are those of each  *)
(* peer's turns matched on a page of their own.                            *)
(***************************************************************************)
THEOREM PeersIndependent == Spec => []PeersAreIndependent
<1>1. IInv /\ PeersInv => PeersAreIndependent
  <2> SUFFICES ASSUME IInv, PeersInv, NEW p \in Peers
               PROVE  LET mine == InOrder({i \in DOMAIN page : page[i].peer = p})
                          alone == MatchTurns([i \in DOMAIN mine |-> page[mine[i]]])
                      IN {t \in Range(ties) : page[t.reply].peer = p} =
                           {Tie(mine[t.request], mine[t.reply], t.elapsed) : t \in Range(alone)}
    BY DEF PeersAreIndependent
  <2> DEFINE S == Mine(page, p)
             mine == InOrder(S)
             turns == [i \in DOMAIN mine |-> page[mine[i]]]
             alone == MatchTurns(turns)
  <2>1. PICK n, f, after : Follows(page, open, ties, p, n, f, after)
    BY DEF PeersInv
  <2>2. S \in SUBSET Nat
    <3>1. DOMAIN page = 1..Len(page) /\ Len(page) \in Nat
      BY LenProperties DEF IInv
    <3> QED BY <3>1 DEF Mine
  <2>3. mine = f /\ DOMAIN f = 1..n /\ n \in Nat
    <3>1. Lists(f, n, S)
      BY <2>1 DEF Follows
    <3> HIDE DEF S
    <3> QED BY <2>2, <3>1, ListIsInOrder DEF Lists
  <2> HIDE DEF mine
  <2>4. turns = [j \in 1..n |-> page[f[j]]]
    BY <2>3
  <2>5. turns = [j \in 1..n |-> turns[j]]
    BY <2>3
  <2> HIDE DEF turns
  <2>6. alone = after[n].ties
    BY <2>1, <2>3, <2>4, <2>5, MatchTurnsIs DEF Follows
  <2> HIDE DEF alone
  <2>7. Tells(f, n, p, page, alone, ties)
    BY <2>1, <2>6 DEF Follows
  <2>8. \A j \in DOMAIN alone : page[Told(f, alone[j]).reply].peer = p
    <3> TAKE j \in DOMAIN alone
    <3>1. alone[j].reply \in 1..n
      BY <2>7 DEF Tells
    <3>2. f[alone[j].reply] \in S
      BY <2>1, <3>1 DEF Follows, Lists
    <3> QED BY <3>2 DEF Told, Tie, Mine
  <2>9. \A t : t \in Range(alone) <=> \E j \in DOMAIN alone : t = alone[j]
    BY DEF Range
  <2>10. \A t : t \in Range(ties) <=> \E k \in DOMAIN ties : t = ties[k]
    BY DEF Range
  <2>11. {t \in Range(ties) : page[t.reply].peer = p} = {Told(f, t) : t \in Range(alone)}
    <3>1. ASSUME NEW t \in Range(ties), page[t.reply].peer = p
          PROVE  \E u \in Range(alone) : t = Told(f, u)
      BY <2>7, <2>9, <2>10, <3>1 DEF Tells
    <3>2. ASSUME NEW u \in Range(alone)
          PROVE  Told(f, u) \in Range(ties) /\ page[Told(f, u).reply].peer = p
      <4>1. PICK j \in DOMAIN alone : u = alone[j]
        BY <2>9
      <4>2. PICK k \in DOMAIN ties : ties[k] = Told(f, alone[j])
        BY <2>7 DEF Tells
      <4> QED BY <2>8, <2>10, <4>1, <4>2
    <3> QED BY <3>1, <3>2
  <2>12. {t \in Range(ties) : page[t.reply].peer = p} =
           {Tie(mine[t.request], mine[t.reply], t.elapsed) : t \in Range(alone)}
    BY <2>3, <2>11 DEF Told
  <2> QED BY <2>12 DEF mine, turns, alone, Mine
<1>2. IInv /\ PeersInv => PeersAreIndependent
  BY <1>1
<1> QED BY <1>2, Invariant, PeersFollowed, PTL

=============================================================================

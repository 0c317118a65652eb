----------------------------- MODULE TurnMatcher -----------------------------
(***************************************************************************)
(* The pairing of one page of the sequence diagram (match_turns of         *)
(* crates/core/src/exchange.rs, as `sequence` of crates/core/src/view.rs   *)
(* calls it): by the hashes both messages name where they name any, by     *)
(* age otherwise.  The streaming tracker of ExchangeTracker sees no        *)
(* hashes and keeps one request of a kind; this one keeps a short list.    *)
(*                                                                         *)
(* A definition named X_Y is X with the mistake Y in it.                   *)
(***************************************************************************)
EXTENDS Integers, SequencesExt, Payload

CONSTANTS
  Peers,      \* store indices of peers
  NoPeer,     \* NO_PEER
  Table,      \* the exchanges followed: rows of EXCHANGES
  Rows,       \* the events a page may hold, as the store and payload give them
  LocalOpen,  \* LOCAL_OPEN
  MaxTurns    \* bound of the model: events on a page

Exchanges == DOMAIN Table
Directions == {"in", "out", "none"}
Opposite == [in |-> "out", out |-> "in"]

ASSUME NoPeerAssumption == NoPeer \notin Peers
ASSUME LocalOpenAssumption == LocalOpen \in Nat \ {0}
ASSUME TableAssumption ==
  /\ Exchanges \subseteq Nat
  /\ \A e \in Exchanges : Table[e].multi \in BOOLEAN /\ Table[e].window \in Nat
  /\ \A d, e \in Exchanges : Table[d].request = Table[e].request => d = e
ASSUME RowsAssumption ==
  \A row \in Rows : /\ row.peer \in Peers \cup {NoPeer}
                    /\ row.direction \in Directions
                    /\ row.timestamp \in Nat

VARIABLES
  page,  \* the turns seen so far, in archive order
  open,  \* peer, exchange and direction of a request |-> its Pendings
  ties   \* the ties found, in order

vars == <<page, open, ties>>

(***************************************************************************)
(* A key absent from the code's map is an empty list here: both are looked *)
(* up the same way.                                                        *)
(***************************************************************************)
OpenKeys == [peer : Peers, exchange : Exchanges, direction : {"in", "out"}]
OpenKey_AnyPeer(turn, e, direction) ==
  [peer |-> CHOOSE p \in Peers : TRUE, exchange |-> e, direction |-> direction]
OpenKey(turn, e, direction) == [peer |-> turn.peer, exchange |-> e, direction |-> direction]

(***************************************************************************)
(* sequence: one row of the page as a turn, with what its message names.   *)
(***************************************************************************)
TurnOf(row) ==
  [peer |-> row.peer, command |-> row.message.command, direction |-> row.direction,
   timestamp |-> row.timestamp, keys |-> KeysOf(row.message)]

Skipped(turn) == turn.direction = "none" \/ turn.peer = NoPeer

Age(now, then) == IF now >= then THEN now - then ELSE 0

-----------------------------------------------------------------------------
(***************************************************************************)
(* The reply.  A candidate is a pending request in its window that the     *)
(* turn may answer: by hash; or unnamed, which anything answers; or named, *)
(* still missing something, and answered by a turn that names nothing.     *)
(***************************************************************************)
ByHash(pending, turn) == pending.keyed /\ turn.keys \cap pending.wanted # {}

MayAnswer(turn, pending) ==
  \/ ByHash(pending, turn)
  \/ ~pending.keyed
  \/ turn.keys = {} /\ pending.wanted # {}

PendingAt(o, turn, c) == o[OpenKey(turn, c.exchange, Opposite[turn.direction])][c.slot]

Candidates(o, turn) ==
  {c \in [exchange : Exchanges, slot : 1..LocalOpen] :
     /\ turn.command \in Table[c.exchange].replies
     /\ c.slot \in DOMAIN o[OpenKey(turn, c.exchange, Opposite[turn.direction])]
     /\ LET pending == PendingAt(o, turn, c)
        IN /\ Age(turn.timestamp, pending.timestamp) <= Table[c.exchange].window
           /\ MayAnswer(turn, pending)}

(***************************************************************************)
(* A hash beats a guess, then the older timestamp wins, then the candidate *)
(* met first: by exchange, then by slot.                                   *)
(***************************************************************************)
Rank_GuessFirst(o, turn, c) ==
  <<0, PendingAt(o, turn, c).timestamp, c.exchange, c.slot>>
Rank(o, turn, c) ==
  <<IF ByHash(PendingAt(o, turn, c), turn) THEN 0 ELSE 1,
    PendingAt(o, turn, c).timestamp, c.exchange, c.slot>>

Before(r, s) ==
  \E i \in DOMAIN r : r[i] < s[i] /\ \A j \in 1..(i - 1) : r[j] = s[j]

Best(o, turn) ==
  CHOOSE c \in Candidates(o, turn) :
    \A d \in Candidates(o, turn) \ {c} : Before(Rank(o, turn, c), Rank(o, turn, d))

(***************************************************************************)
(* What the reply leaves of the request: the items it delivered are no     *)
(* longer wanted, and an answered request closes unless more may come.     *)
(***************************************************************************)
Delivered_Kept(pending, turn) == [pending EXCEPT !.replies = @ + 1]
Delivered(pending, turn) ==
  [pending EXCEPT !.replies = @ + 1,
     !.wanted = IF ByHash(pending, turn) THEN @ \ turn.keys ELSE @]

Closes_SingleOnly(e, pending) == ~Table[e].multi
Closes(e, pending) == ~Table[e].multi \/ (pending.keyed /\ pending.wanted = {})

Tie(request, reply, elapsed) == [request |-> request, reply |-> reply, elapsed |-> elapsed]

AfterReply(m, position, turn) ==
  IF Candidates(m.open, turn) = {} THEN m
  ELSE LET c == Best(m.open, turn)
           key == OpenKey(turn, c.exchange, Opposite[turn.direction])
           pending == m.open[key][c.slot]
           left == Delivered(pending, turn)
       IN [open |-> [m.open EXCEPT ![key] =
                       IF Closes(c.exchange, left) THEN RemoveAt(@, c.slot)
                       ELSE [@ EXCEPT ![c.slot] = left]],
           ties |-> Append(m.ties, Tie(pending.position, position,
                                       Age(turn.timestamp, pending.timestamp)))]

-----------------------------------------------------------------------------
(***************************************************************************)
(* The request.  Past LocalOpen of a kind, the first of them is forgotten. *)
(***************************************************************************)
NewPending(position, turn) ==
  [position |-> position, timestamp |-> turn.timestamp, wanted |-> turn.keys,
   keyed |-> turn.keys # {}, replies |-> 0]

Room(list) == IF Len(list) >= LocalOpen THEN Tail(list) ELSE list

AfterRequest(m, position, turn) ==
  [m EXCEPT !.open = [key \in OpenKeys |->
     IF /\ Table[key.exchange].request = turn.command
        /\ key = OpenKey(turn, key.exchange, turn.direction)
     THEN Append(Room(@[key]), NewPending(position, turn))
     ELSE @[key]]]

(***************************************************************************)
(* One turn of match_turns: a reply first, so that nothing answers itself, *)
(* and then a request.                                                     *)
(***************************************************************************)
MatchTurn(m, position, turn) ==
  IF Skipped(turn) THEN m
  ELSE AfterRequest(AfterReply(m, position, turn), position, turn)

Unmatched == [open |-> [key \in OpenKeys |-> <<>>], ties |-> <<>>]

(***************************************************************************)
(* match_turns, over a page of its own.                                    *)
(***************************************************************************)
MatchTurns(turns) ==
  LET after[i \in 0..Len(turns)] ==
        IF i = 0 THEN Unmatched ELSE MatchTurn(after[i - 1], i, turns[i])
  IN after[Len(turns)].ties

-----------------------------------------------------------------------------
Init ==
  /\ page = <<>>
  /\ open = Unmatched.open
  /\ ties = Unmatched.ties

ReadRow(row) ==
  LET turn == TurnOf(row)
      m == MatchTurn([open |-> open, ties |-> ties], Len(page) + 1, turn)
  IN /\ Len(page) < MaxTurns
     /\ page' = Append(page, turn)
     /\ open' = m.open
     /\ ties' = m.ties

Next == \E row \in Rows : ReadRow(row)

Spec == Init /\ [][Next]_vars

-----------------------------------------------------------------------------
Hashes == UNION {KeysOf(row.message) : row \in Rows}
Pending == [position : Nat, timestamp : Nat, wanted : SUBSET Hashes,
            keyed : BOOLEAN, replies : Nat]

(***************************************************************************)
(* The lists stay within LOCAL_OPEN and in the order of the page, with no  *)
(* request in them that is finished; ties point forward, in reply order.   *)
(***************************************************************************)
TypeOK ==
  /\ DOMAIN open = OpenKeys
  /\ \A key \in OpenKeys :
       /\ open[key] \in Seq(Pending) /\ Len(open[key]) <= LocalOpen
       /\ \A i, j \in DOMAIN open[key] : i < j => open[key][i].position < open[key][j].position
       /\ \A i \in DOMAIN open[key] : open[key][i].keyed => open[key][i].wanted # {}
  /\ \A i \in DOMAIN ties : ties[i].request < ties[i].reply /\ ties[i].reply <= Len(page)
  /\ \A i, j \in DOMAIN ties : i < j => ties[i].reply < ties[j].reply

-----------------------------------------------------------------------------
(***************************************************************************)
(* What a page says without the lists: which turns ask what, what is still *)
(* missing when a reply comes, and which requests it could answer.         *)
(***************************************************************************)
TiesTo(r) == {t \in Range(ties) : t.request = r}

Missing(r, i) ==
  page[r].keys \ UNION {page[t.reply].keys : t \in {u \in TiesTo(r) : u.reply < i}}

Asks(r, e) == ~Skipped(page[r]) /\ Table[e].request = page[r].command

SettledBefore(r, e, i) ==
  \/ ~Table[e].multi /\ \E t \in TiesTo(r) : t.reply < i
  \/ page[r].keys # {} /\ Missing(r, i) = {}

CouldAnswer(i, r, e) ==
  /\ r < i /\ ~Skipped(page[i])
  /\ Asks(r, e)
  /\ page[r].peer = page[i].peer
  /\ page[r].direction = Opposite[page[i].direction]
  /\ page[i].command \in Table[e].replies
  /\ Age(page[i].timestamp, page[r].timestamp) <= Table[e].window
  /\ ~SettledBefore(r, e, i)
  /\ page[r].keys = {} \/ page[i].keys = {} \/ page[i].keys \cap Missing(r, i) # {}

Exact(i, r) == page[i].keys \cap Missing(r, i) # {}

(***************************************************************************)
(* Forgotten by LOCAL_OPEN: that many later requests of its kind lie       *)
(* between it and the reply.                                               *)
(***************************************************************************)
MayBeForgotten(r, i) ==
  Cardinality({s \in (r + 1)..(i - 1) :
                 /\ page[s].peer = page[r].peer
                 /\ page[s].command = page[r].command
                 /\ page[s].direction = page[r].direction}) >= LocalOpen

(***************************************************************************)
(* A request absorbs no more than it asked for.  One that has a single     *)
(* reply is tied once; one that named items is tied to replies that each   *)
(* bring something still missing, or name nothing.                         *)
(***************************************************************************)
RequestsAreNotOverfilled ==
  \A t \in Range(ties) :
    \E e \in Exchanges : CouldAnswer(t.reply, t.request, e)

(***************************************************************************)
(* Nothing better is overlooked: a reply is left untied only when no       *)
(* request on the page could be meant, and is tied to a request it names   *)
(* whenever there is one, the oldest if there are several, unless more     *)
(* than LOCAL_OPEN further requests of that kind have come between.        *)
(***************************************************************************)
NothingBetterIsOverlooked ==
  \A i \in DOMAIN page : \A r \in 1..(i - 1) : \A e \in Exchanges :
    CouldAnswer(i, r, e) /\ ~MayBeForgotten(r, i) =>
      \E t \in Range(ties) :
        /\ t.reply = i
        /\ Exact(i, r) => Exact(i, t.request)
        /\ (Exact(i, r) <=> Exact(i, t.request)) => page[t.request].timestamp <= page[r].timestamp

(***************************************************************************)
(* The positions in a set, from the first to the last.                     *)
(***************************************************************************)
InOrder(S) ==
  [j \in 1..Cardinality(S) |-> CHOOSE i \in S : Cardinality({k \in S : k <= i}) = j]

(***************************************************************************)
(* Peers do not disturb one another: the ties of a page are those of each  *)
(* peer's turns matched on a page of their own, which is what filtering    *)
(* the diagram to one peer shows.                                          *)
(***************************************************************************)
PeersAreIndependent ==
  \A p \in Peers :
    LET mine == InOrder({i \in DOMAIN page : page[i].peer = p})
        alone == MatchTurns([i \in DOMAIN mine |-> page[mine[i]]])
    IN {t \in Range(ties) : page[t.reply].peer = p} =
         {Tie(mine[t.request], mine[t.reply], t.elapsed) : t \in Range(alone)}

=============================================================================

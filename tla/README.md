# A verification project for archive-viewer

archive-viewer reads peer-observer archives in the browser: a Rust core compiled
to WebAssembly decodes and aggregates them, and one HTML page drives it. This
directory models the parts of it in which order, failure and accumulated state
matter, checks them with TLC on small instances, and proves the most important
facts with TLAPS for every value of the constants. Source paths below are
relative to the repository's root.

## 1. Inventory

| component | state | operations | talks to |
|---|---|---|---|
| record decoder (`core/decode.rs`) | input not decoded, zstd decoder with its window, output not scanned, scan position | `push`, `finish` | emits records into ingest; called by the session |
| ingest and session totals (`core/analysis.rs`) | totals, clock, current file and its summary, `since_sweep`, the decoder | `begin_file`, `push`, `end_file`; one `record` per record | feeds all the aggregates below, in a fixed order, for each event |
| request/reply tracker (`core/exchange.rs`: `Tracker`) | the open request of each peer, exchange and direction | `observe`, `sweep` | called for each P2P message and every 32,768 of them; its results become `ExchangeStats` and latencies |
| turn matcher (`core/exchange.rs`: `match_turns`) | pending requests of one page | one pass over the page | called by the sequence diagram |
| event store (`core/store.rs`) | columns, chunks, budget, why it stopped | `push`, reads | last step of ingest; read by the queries |
| query cache (`core/view.rs`) | last filter, its matches, the length they were built at | `query`, `sequence` | reads store, kinds and peers |
| timeline histogram (`core/histogram.rs`) and charts (`core/view.rs`) | start, width and rows of bins | `add`; `timeline`, `timeline_group` | fed by ingest |
| transaction relay (`core/relay.rs`) | items announced or delivered, tallies by peer | `observe` | fed by ingest |
| peer table (`core/peers.rs`) | statistics, address, user agents and lifecycle of each peer | `record_*` | fed by ingest; joined by most views |
| latency distributions (`core/latency.rs`) | log-spaced buckets | `add`, `merge`, percentiles | inside tracker tallies, relay and peers |
| rasters and other views (`core/view.rs`, `core/asn.rs`) | none: projections | `peer_raster`, `peer_activity`, `user_agents`, `connection_durations`, `relay`, `networks` | read the store, the peer table and the relay |
| event kinds (`core/kind.rs`), payload keys (`core/payload.rs`) | the table of kinds | `classify`, `intern`; `keys_of` | ingest; the turn matcher and the relay |
| wasm boundary (`crates/wasm/src/lib.rs`) | one `Analysis`, one cache, an asmap | forwards; fails for good once it has panicked | called by the page |
| page: opening archives (`web/index.html`) | `S.session`, `S.dead`, the elements shown, the loads under way | `loadFiles`, `call`, Clear | the wasm boundary |
| page: networks view (`web/index.html`) | `S.asnState`, the name tables, `S.peerMode`, the rows shown | `ensureAsn`, `showNetworks`, `showPeerMode` | fetches; the wasm boundary |

The rest (stripping, inspector, protobuf types, the name tables, routing,
drawing, build scripts) keeps no state that several steps could bring out of
order; PROJECT.json lists each of them with the reason it is left out.

What is hard here, and what makes each component correct:

* *Decoder.* Chunks end anywhere; the writer may still be running, so that a
  frame may have no end; a 128 MiB window withholds everything until then. The
  records must not depend on the chunks, none may be lost, torn or repeated, and
  truncation must be reported exactly when there is some.
* *Tracker.* Several requests can claim one reply; a request can be repeated
  before it is answered; timestamps go backwards between extractors; the sweep
  runs rarely and at different clocks. No request may be counted twice, no peer
  may be blamed for a silence that did not happen, and no real silence of a judged
  exchange may be dropped.
* *Turn matcher.* It sees one page, and several requests of a kind at once. A
  request must not absorb more than it asked for, a reply must not go to a worse
  request than the page has, and peers must not disturb one another.
* *Ingest, peers, relay, distributions, views.* Tables grow while rows refer into
  them; a peer is named from several sources in any order; lists are capped and
  their counters are not; a transaction has two hashes and one entry; the same
  number is kept in several places. What a page says must be what the events said.
* *Store.* Memory can fail in the middle of growing the columns, and an
  allocation that cannot fail aborts the module. Nothing may grow unasked, the
  budget holds, and what was kept reads back.
* *Query cache.* It must show what matches now.
* *Histogram.* It grows both ways and coarsens in either; every event stays
  counted once, in the bin its time falls in.
* *Page.* `loadFiles` awaits reads and yields, so loads overlap with one another,
  with Clear, with fetches and with panics. What is shown must be whole, a
  poisoned session must not be called again, and waiting must end.

PROJECT.json lists these hazards one by one, each at its line.

## 2. Modules

| module | models | state |
|---|---|---|
| `ExchangeTable` | the table `EXCHANGES`, in half minutes | none |
| `ExchangeTracker` | `Tracker` and the tallies of `Analysis`, over files that begin, end and fail | `open`, `dropped`, `exchanges`, `latency`, the clock |
| `ExchangeHistory` | the same, with the log of the messages and of what was reported | + `log`, `asked`, `pairs`, `silent` |
| `RequestLedger` | abstract: every request has one fate, a settled fate is final, the tallies count fates | `requests`, `tallies` |
| `ExchangeProofs` | theorems about `ExchangeTracker` and `ExchangeHistory`, and that the latter implements `RequestLedger` | |
| `Payload` | the hashes a message names, for the turn matcher and for the relay | none |
| `TurnMatcher` | `match_turns` over one page, a turn at a time, as `sequence` feeds it | `page`, `open`, `ties` |
| `TurnMatcherProofs` | theorems about `TurnMatcher` | |
| `RecordDecoder` | `RecordDecoder`, over an archive that is cut off anywhere | `file`, `size`, `fed`, `d`, `emitted` |
| `RecordStream` | abstract: the recoverable records go out once, in order | `source`, `delivered`, `ended` |
| `DecoderProofs` | theorems about `RecordDecoder`, and that it implements `RecordStream` | |
| `EventStore` | `EventStore::push`, its allocations failing at will | `rows`, `capacity`, `chunks`, `chunkBytes`, `stopped` |
| `EventQuery` | EXTENDS `EventStore`: ingest of addresses, `Filter`, `QueryCache`, `query` | + `addr`, `cache` |
| `EventStoreProofs` | theorems about `EventStore` and `EventQuery` | |
| `Latencies` | `Latencies`: operators on one distribution, and the same from its samples | none |
| `Relay` | `Relay`: operators on one record | none |
| `PeerTable` | `PeerTable` and `ConnectionDurations`: operators on one record | none |
| `Ingest` | EXTENDS `PeerTable`, `Relay`: `ingest_event`, one event through all of these, the kinds, the counts, the clock and the store | `table`, `relay`, `kinds`, `counts`, `clock`, `store` |
| `SessionViews` | EXTENDS `Ingest`: the views drawn from that state | none more |
| `SessionTruth` | EXTENDS `SessionViews`: what all of it must be, told from the log of the events | none more |
| `SessionProofs` | theorems about `Ingest`, as `SessionTruth` states them | |
| `Histogram` | `Histogram` and the charts drawn from it | `h` |
| `HistogramProofs` | theorems about `Histogram` | |
| `Sums` | no model: lemmas about sums over finite sets and least numbers, for the proofs | |
| `PageLoader` | `loadFiles`, `call`, `showFatal`, Clear, and the session as the page sees it | `page`, `loads` |
| `NetworksView` | EXTENDS `PageLoader`: `ensureAsn`, `showNetworks`, `showPeerMode` | + `asnState`, `mapped`, `visits`, `table` |
| `PageProofs` | theorems about `PageLoader` and `NetworksView` | |

`MC...` modules hold only the constants of the instances checked. A variable
marked *history* in its declaration is no part of the program: it remembers what
the properties speak of, and no action depends on it.

How they follow the code:

* An action is one call from outside: one event handed to `ingest_event` (with
  everything it updates, in one step), one message handed to `observe_exchange`
  (with the displacement tally and, when it is due, the sweep in the same step),
  one `push` of a chunk (with detection, decoding, scanning and compaction), one
  handler of the page up to its next `await`.
* A timestamp, peer, command, file or record is a small number or a model value.
  Wire bytes are *cells*: a cell of the plain stream is the j-th part of record
  i, and a cell of a compressed block has no content of its own. This keeps what
  the decoder's control depends on (how much has arrived, where blocks and
  records end, what is withheld) and drops the arithmetic of varints and zstd.
* The components of one session are modelled where they share state. `Ingest`
  composes the kinds, peer table, relay and store, which refer to one another;
  the store is reduced there to what `EventStore` proves of it, a prefix and a
  stop. The exchanges (`ExchangeTracker`) and the timeline (`Histogram`) are fed
  by the same events but read nothing of these, and have modules of their own.
* The zstd library, `try_reserve` and the browser's event loop are external and
  modelled from how they are used. Allocations may fail at any time; a panic may
  strike any call, once.
* A definition named `X_Y` is `X` with the plausible mistake `Y` in it. Nothing
  uses it: it documents what a property notices.

## 3. Runs

| run | instance | what it shows |
|---|---|---|
| `exchange_history` | one peer and a stranger; `inv`, `getdata` and `getblocktxn` with their replies in both directions; three timestamps that lie on and past windows and step backwards; four events, `MAX_OPEN` 2, sweep every second message | no request is settled twice, so the saturating subtraction of `undetermined` never saturates; latency samples agree with answers; pairings are plausible; a reported silence is real, a real one is reported; overdue requests do not linger; the tracker implements `RequestLedger` |
| `turn_matcher` | every page of up to four out of twenty-one rows: two peers, one peerless row, requests naming none, one or two items, replies by hash and without, on and past the windows, `LOCAL_OPEN` 2 | no request absorbs more than it asked for; nothing better is overlooked; a page of several peers is the pages of each |
| `ingest` | four archives of up to four events each (connections, names, relay, traffic), two peers, timestamps in any order, retention stopping anywhere, and every cap small: two list entries, two names, two tracked items, four buckets | rows keep their meaning; names by precedence; lifecycle and lifetimes exact; percentiles close to the samples; relay conserved and duplicates counted; rasters and networks add up |
| `record_decoder` | eight archives: plain, in two and in three blocks, with a first block shorter than the longest frame header, malformed, huge, corrupt; cut off at every cell; chunks of 1 to 7 cells, under and over each threshold | the decoder implements `RecordStream`; truncation is reported when there is some; input never piles up; plain records are not delayed |
| `event_query` | five events (empty, small, larger than a chunk), three columns, a budget of two to five events, every pattern of failing allocations, four filters asked for at any time | nothing grows unasked, the budget holds, events read back, a prefix of the archive is retained, and pages are right while retention goes on |
| `histogram` | eight times from 1 to 90, three kinds, five bins of width 2: up to four events extend and coarsen in either direction | counts and charts are exact, the range is tight, only unreachable events share the first bin |
| `page` | two loads of three files (one broken in the middle, one at its end), one panic anywhere, two visits to the networks view | what is shown is whole; a poisoned session is retired; one visit fetches; rows are of the session in place; both loading states end |

The bounds are small because each hazard needs few actors: two requests that
compete for a reply, and one message more to go wrong; two loads; one failed
allocation between two columns; three coarsenings; three requests of a kind and
the reply to the one forgotten; three entries for a list of two; one item more
than the relay tracks. A run whose cap were never reached would say little, so the
caps are below the number of events. Every action is taken in its
run. `CHECK_DEADLOCK` is off where the bound on events or loads ends the
behaviour.

Fairness is assumed in `page` only: a read, a yield, a fetch or an import that
is ready is eventually run (weak fairness of each load's and each visit's step),
which is what an event loop does. Reads and fetches may fail; nothing is assumed
of what the user does.

### Where the code and its words differ

Each of these runs checks one sentence of the repository, and TLC finds it
violated:

* `exchange_oldest`. `exchange.rs` says a reply goes to the oldest unanswered
  request. The table has room for one request per peer, exchange and direction,
  and the newest replaces the one before, so it is the newest that is answered.
* `query_stale`. The cache compares filter and number of retained events. Once
  retention has stopped that number stands still, while events still change the
  addresses that a text filter matches.
* `page_overlap`. Dropping a second archive while the first loads replaces
  `S.session` under the first load, which goes on and pushes its chunks into a
  file of the second.
* `page_networks`. `S.asnState` outlives the session whose asmap it speaks of:
  after a second archive is opened, the networks view finds no asmap, loads none
  and says nothing.
* `connection_durations`. A lifetime counts from an establishment time with a
  saturating subtraction: one in the future gives zero, and one of zero the whole
  clock. The comment above it says such a connection contributes nothing.

Smaller ones were met while modelling, have no run of their own, and are modelled
as the code does it:

* A displaced `getdata` is said to be "left to the sweep" (`exchange.rs:338`); the
  insertion has overwritten it, so the sweep never sees it. It ends among the
  undetermined, as the documentation of `ExchangeStats` says it may.
* `relay.rs:60` calls `late` what "someone else" announced first; a peer's second
  announcement of its own item counts too, as does one after the delivery.
* A transaction announced under its txid only after it was delivered under its
  wtxid has two entries, and its next delivery is not known for a duplicate. Two
  transactions of the log that have a hash in common share one entry, and the
  delivery of the second is told as a duplicate of the first.
  (`DuplicatesAreCounted` names both exceptions.)
* `untracked` counts mentions of hashes past the limit, not hashes.
* `exchange.rs:421` says an exchange across the edge of a page "simply does not
  appear"; a reply that names nothing is tied to a later request on the page
  instead, if there is one.
* `LOCAL_OPEN` forgets the request registered first, which is not always the oldest
  by timestamp, the order replies are matched in.
* A filter on a peer that is not in the archive matches every event without a peer.

## 4. Proofs

The theorems assume what the modules' ASSUMEs say of the constants and no more;
TLC evaluates these on every run. They are about `Spec` without fairness. Every
one follows from an inductive invariant, which TLC checked on the instances of
section 3 before it was proved, as far as TLC can evaluate it (that samples exist
which make a distribution is beyond it). With them every invariant and action
property that a run checks is a theorem, and so are both refinements.

### The tracker

`ExchangeProofs` proves, for any table of exchanges with distinct
requests, any peers, messages and bounds:

* `TypeCorrect`: `Spec => []TypeOK`.
* `SettledOnce`: `Spec => []EveryRequestSettledOnce`.
* `LatencyAgrees`: `Spec => []LatencySamplesMatchAnswers`.

None of the last two is inductive alone. `IInv` adds that `open` is finite
(cardinalities mean nothing otherwise) and that a request of a single-reply
exchange that is still open has had no reply: were there one, its next reply
would be timed and not counted. The argument is a transfer of one request at a
time between the open requests that wait and the tallies: `ReplyStep` takes one
out of the waiting and into `answered`; `RegisterStep` puts one in and, if it
displaces one, takes that out into the unanswered; `SweepStep` takes out any
number, which `NoteUnanswered` counts by direction. `AnsweredKeyIsCandidate` is
needed first: the choice of the best candidate is well defined, because equally
old requests differ in their exchange.

It goes on to what the log makes of these tallies:

* `PairsPlausible`: a reply is paired with a request it can answer, taken up
  earlier, with no newer one of its key between them; one reply, one request.
* `SilenceProven`: `Spec => []SilenceIsProven`, what is reported silent was.
* `SilenceReported`: `Spec => []EverySilenceIsReported`, and the reverse.
* `SweptSoon`: `Spec => []OverdueIsSweptSoon`, whatever the clock does.
* `LedgerKept`: `Spec => KeepsLedger`, the refinement of `RequestLedger`.

`HInv` is `IInv` with the bridge between the program and its history: `History`
says where in the log each open request, each pair and each silence stands,
`Tallied` that the tallies count exactly those, `Fresh` that a message since the
last sweep lies within the window of whatever is open. It is kept through the
three parts of one message in turn, the reply, the registration and the sweep,
each with a lemma of its own about any state between them, because a message
may do all three in one step. For the refinement every part maps to a step of
the ledger or leaves it alone, and the initial state to the empty ledger.

### The decoder

`DecoderProofs` proves, for any set of archives, cut anywhere, with any sizes of
header, window, threshold and chunk:

* `Implements`: `Spec => ChunkingIsInvisible`, the refinement of `RecordStream`.
  However the bytes are cut into chunks, the records of the archive that can be
  recovered go out once and in order, and the end is told as it is.
* `TruncationReported`: `finish` says truncated exactly when the bytes end
  inside a frame or inside a record.
* `InputConsumed` and `PlainNotDelayed`, for compressed and for plain archives.

`IInv` says in `Between` what the decoder holds when no call is under way, as one of
three cases. It sniffs: it holds what it was fed, too short to tell. It copies: its output
is the plain stream from cell `b` to cell `fed`, and the `n` records before its
position have gone out (`Copies`, `Quiet`). Or it unzips: the same, up to the `o`
cells that the whole blocks it has taken yield, with less than `MinDecodeInput`
of input waiting (`Unzips`). `b`, what compaction has thrown away, is no
variable of the decoder: it exists for the proof. One lemma follows each part of
a call over any decoder: `Fill` for decoding, `ScanStep` for one record,
`ScanFrom` and `Rescan` for a scan of all there is, compaction last. `PushResult`
and `FinishResult` put these together, `Delivers` says which step of the stream the
outcome is.

The scan and the lengths of a stream are recursive functions over numbers, that is,
`CHOOSE`s: before anything can be said of them a function that solves their
equation must be shown to exist. `Chain` does this once, from the least number at
which a chain of partial solutions would break (`LeastNat` of `Sums`), without an
induction theorem that takes a predicate; `Gathers` and `Seeks` apply it.

The assumptions are those of the format and the library. An archive has an
`ArchiveHeader`, no shorter than the zstd magic number (`decode.rs` needs these
bytes to tell the two apart). Blocks end one after the other in the file, none
larger than `MIN_DECODE_INPUT`, which the code takes to be zstd's largest block
with its header; the last yields the rest of the stream. A header has at least the
bytes sniffed, and at most `MinHeader`.

### The store

`EventStoreProofs` proves of the store, for any budget, chunk size, column growth
and number of columns, whichever allocations fail and whatever is queried:

* `NothingGrows`: `Spec => []NothingGrowsUnasked`.
* `ReadsBack`: `Spec => []BytesReadBack`.
* `KeepsAPrefix`: `Spec => []RetainedIsAPrefix`.
* `BudgetHolds`: `Spec => []BudgetIsKept`, what the retained events cost in sum is
  within the budget.
* `PagesRight`: `Spec => []PagesAreRight`, until retention stops a page of the
  event table lists what the filter wants of the rows there are now, and counts
  all of it.

The invariant `StoreInv` adds to these that `bytes_used` is that sum
(`Accounted`) and that all columns have the same capacity:
`reserve_columns` looks at the first column only, and it is right to do so just
because a failure half-way through the columns stops retention for good and
shrinks them. The proof of a push (`PushStep`) splits into stopping (`StopStep`)
and retaining (`RetainStep`); the latter needs only that the columns and the last
chunk have room (`HasRoom`, `Fits`), which `GrowingMakesRoom` and `SomeChunkFits`
supply for each way push can get there.

For the pages `QueryInv` adds that the peers of the rows are known and that the
cache is true to its key: it was computed at an earlier length of the table, or is
what a scan of the rows would list now. `QueryStep` shows that an answer is right
whether it is scanned or taken from the cache, `IngestStep` that a new row leaves
the cache at an earlier length. The scan is a recursive function, shown to exist
(`FindsExist`) and to list the rows wanted, each once and in order (`FindsLists`).

### The histogram

`HistogramProofs` proves, for any times, kinds, number and least width of bins:

* `CountsExact`: `Spec => []CountsAreExact`, every event is counted once and in its
  bin, however the range was extended and coarsened since.
* `FirstBinHonest`: `Spec => []FirstBinIsHonest`.
* `RangeTight`: `Spec => []RangeIsTight`.
* `ChartsExact`: `Spec => []ChartsAreExact`, the charts hold every event once, in
  a column that its bin is part of, and no more columns than asked for.

`HInv` says of the histogram and the log of the events what `Good` says of any
histogram: it has a row for each kind met, of as many numbers as there are bins
(`Shaped`), each the sum of the log over its cell (`Exact`); every logged event lies
before the end (`Covers`), and the last bin starts no later than some logged time
(`Tight`). Each helper keeps `Good` by a lemma of its own: `CoarsenKeeps` (a new
cell is the union of two old ones, or of one and of nothing), `PrependKeeps`
(bins are put in front only when no event is before the start, so no event
changes its cell), `GrownKeeps`, `KindKeeps`, `CountKeeps`; `AddKeeps` follows the
code through them. That coarsening ends is part of it: `CoarsenedKeeps` and
`OneBinInTheEnd` show by `Tight` that a histogram coarsened as often as `Halvings`
allows has one bin, so the least number of coarsenings asked for exists.
`Halvings` bounds the model and not the theorems' meaning: it is any number large
enough for the times, as `HistogramAssumption` says.

`ChartsExact` needs nothing more of the histogram than `HInv`. A column of a chart
is a run of bins, whose cells together are one band of time (`CellsMakeBand`), so
that what a column counts of a kind is what the log holds of it in that band
(`CountIs`, with `SumOfParts`); that the columns are no more than asked for is
`CeilBounds`. The chart of a group gives a slot each to the busiest kinds and one
to the rest: `BusiestOnce` shows that ranking names each kind at most once,
`SlotsShareOut` that the slots share the kinds out, and a kind left out has no
event at all (`SlotsHoldAll`).

### Sums

`SumFunctionOnSet` of the community modules is a recursive function over the subsets
of a set that takes out a *chosen* element at each step. `Sums` shows that this
function exists (`SumsExist`) and is one (`SumsAgree`), hence `SumStep`; then that any
element may be the one taken (`SumRemove`), and from that what a sum of a disjoint
union, of zeroes, of equal numbers, and of one number raised by one is; that a set
parted by a function is counted part by part (`CountedByValue`, `SumOfParts`); and
that no summand is more than the sum (`SumAtLeast`). The
induction is over cardinalities, from the least one at which a set of good
subsets would fail (`SmallerFirst`).

### The turns of a page

`TurnMatcherProofs` proves of a page of events, for any table of exchanges with
distinct requests, any rows, any limit and any length:

* `TypeCorrect`: `Spec => []TypeOK`, the order and the bounds of the lists and ties.
* `NotOverfilled`: `Spec => []RequestsAreNotOverfilled`.
* `NothingOverlooked`: `Spec => []NothingBetterIsOverlooked`.
* `PeersIndependent`: `Spec => []PeersAreIndependent`, a page of several peers is
  the pages of each.

`NotOverfilled` speaks of the page and its ties alone; what makes it inductive is the
bridge to the lists. `IInv` says that every pending request *stands*: it is a turn
of the page, of the peer, direction and command its list is for, it lacks exactly
what the replies tied to it have not brought (`Lacks`), and has had none if one
would have closed it. `ReplyStep` then has all it needs for the new tie, and must
show that no other request lacks anything less for it: that is `PositionsDiffer`, a
request stands in one list and one slot, which holds because requests are
distinct in the table and positions rise along a list. `BestIsCandidate` shows
that the choice is well defined (rank is a strict order on the candidates), and
`RequestStep` that a new request stands at the end, with room made for it.

`NothingOverlooked` needs the reverse of that bridge: a request that still lacks
something is in its list, or `LOCAL_OPEN` later ones of its list pushed it out
(`Remembered`), and every reply tied so far was tied to the best there was
(`WellTied`). `MInv` is `IInv` with both.

`PeersIndependent` compares two runs of one algorithm: over the page, and over the
rows of one peer alone. `PeersInv` says that after every turn the second run, over
the rows of that peer so far, has the same lists and the same ties as the first
one has for that peer, up to the positions, which count other rows (`Echoes`). A turn of
the peer finds the same candidates with the same ranks in both, since positions are
renumbered in order (`SameBest`, `OwnReply`, `OwnRequest`); a turn of another peer
touches none of its lists (`OtherTurn`). That `match_turns` over those rows ends where
`PeersInv` says is `MatchTurnsIs`: matching a page is a recursive function, shown to
have one course only.

### The page

`PageProofs` proves of the web page, for any files and lists of files, and any
number of loads, visits and panics, in any interleaving:

* `TypeCorrect`: `Spec => []TypeOK`, every variable keeps its type.
* `PoisonedStaysRetired`: `Spec => []PoisonedIsRetired`.
* `ShownWhole`: `Spec => []ArchiveShownIsWhole`.
* `OneFetch`: `Spec => []OneVisitFetches`.
* `RowsOfSession`: `Spec => []RowsAreOfTheSession`.

`ArchiveShownIsWhole` speaks only of what is shown; `IInv` says of every load that
no other crowded how far its session must be while it reads (`Undisturbed`), and
that a load under way belongs to a session that is open (`Opened`). The other
three are inductive with the type.

### The session

`SessionProofs` proves of a session, for any archive, any peers, commands, names and
connection types, any of the caps, and retention stopping anywhere:

* `TablesHoldTogether`: `Spec => []TableInv`, the invariant the others start from.
* `RowsMeanTheirEvents`: `Spec => []RowsKeepTheirMeaning`.
* `LivesAreExact`: `Spec => []LifecycleIsExact`.
* `EndsAreTimed`: `Spec => []EveryEndIsTimedOnce`.
* `NamesAreFirstHand`: `Spec => []FirstHandAgentWins`.
* `PercentilesClose`: `Spec => []PercentilesAreClose`.
* `RelayAddsUp`: `Spec => []RelayIsConserved`.
* `TransactionsCounted`: `Spec => []DuplicatesAreCounted`.
* `NetworksHoldEveryPeer`: `Spec => []NetworksAddUp`.
* `RastersAreWhole`: `Spec => []RastersAgree`.

It starts with what each operation on the peer table does to its parts: what
`entry`, `record_message`, `record_connection` and `record_user_agent` write, and
that they leave alone everything else (`HasEntry`, `KeepsLives`, `KeepsNames`,
`OnlyRenames`). `TableEntered` puts these together for one event.

* `TableInv` joins the tables with the log: every kind and every peer of the log is
  in its table once, at an index that never changes (`IndexFits`), and `RowMeans`
  says of a row what the table of *now* makes of it. A row stays right because the
  tables only grow at their ends.
* `LivesInv` says of each entry of a capped list which event of the log it is: the
  one with as many later ones of that peer as there are entries behind it
  (`IsLifeEvent`). When the list drops its first entry every other moves down by
  one and every count rises by one (`ListMovesOn`, `LaterGrows`).
* `DurationsInv` says of a distribution that it `Describes` the lifetimes of the
  log: the count of each bucket, the sum and the extremes. `AddDescribes` adds a
  sample, `MergeDescribes` joins two disjoint sets of samples; `DescribedIs` shows
  that what describes the samples is `DistributionOf` them. Here sums come from
  `Sums`. For this what a bucket's bounds are plays no part.
* The percentiles need nothing more of the state (`DurationsHold`), but all of the
  bounds. Powers of two are a recursive function, shown to exist (`PowersExist`) and
  to rise, so that buckets meet at their edges and ascend with the samples
  (`EdgesMeet`, `BucketsAscend`). The bucket in which the estimate is sought is then
  that of the sample it estimates (`BucketFound`), because the samples up to a bucket
  are those below its upper edge (`UpToCounts`); the position within the bucket is a
  part of its width (`PartOfWidth`), and cutting the estimate off at the extremes
  takes it no further from the sample (`EstimateIsClose`).
* `NamesInv` says that every peer's name is the right one as long as there is an id
  for every name offered. `NamesSound` keeps ids distinct and in their range;
  `RoomForName` finds an id for a name if there are enough; `PollNames` follows a
  poll one peer at a time, since the first info that names a peer in a poll wins;
  `NameStaysRight` goes through the cases of one event and one peer. A poll that
  comes before a peer is known leaves no trace (`PolledGrows`), which is why `Polled`
  counts from a peer's first event.
* `RelayInv` says of the relay that its totals are the sums over the scorecards
  (`Totalling`), and of each of its distributions that the samples in it can be dealt
  out to the peers so that each has just the distribution on its card (`Shared`): that
  is why merging the cards gives the total. The parts of an announcement and of a
  delivery each keep `RelayFits` (`FirstFits`, `LateFits`, `KnownFits`,
  `UnannouncedFits`, `UntrackedFits`), whatever the table holds. An inventory is a
  fold over its items: a recursive function again, followed item by item
  (`AnnounceInSteps`).
* `TransactionsInv` is about single transactions, of which the scorecards say nothing.
  As long as nothing went untracked and no transaction is one of the exceptions, the
  entries are those of the hashes announced and one for each transaction held: the
  hash that was announced when it was first delivered, or else its txid (`KeyOf`).
  It never changes after that (`TransactionStays`), `deliver` finds it by looking
  for entries only (`KeyFound`), and no other transaction has it. So a delivery meets
  an entry already delivered exactly when it is not the first (`DeliverStep`). Without
  either exception it is false, in the run's instance too.
* `SeenInv` says of each peer that its span is that of its events (`SpanFits`) and that
  its messages are counted (`MessagesFit`). The rows of the networks view are folds over
  peers, which `GroupFits` follows: a network absorbs one peer's span and counts after
  another (`AbsorbFits`); every peer is in one network, so their sums are those of all.
* `CommandsInv` says that a peer's tallies are one for each command it exchanged, each
  the number of those messages. With `IndexInv`, the row of a peer in the table and the
  index in the store's rows mean the same peer. Each retained message is then drawn in
  one cell (`ColumnInRange`, `RowDrawn`), what the cells of a row add up to is counted
  by column (`CellsAddUp`, `CountedByValue`), and if everything was retained that is the
  tally (`RowsAreTheTally`).

### What the proofs found in the models

Some lemmas failed because a model was wrong, and were proved after it was corrected:

* The decoder's refinement promised too much. `decode.rs:254` does not start the
  zstd decoder before a whole frame header can be there; an archive whose first block
  ends earlier, cut off there, gives nothing, where `Available` counted that block.
  TLC shows the refinement false of an archive like that; it is one of the run's now.
* Files of `RecordDecoder` could have blocks that end before the one they follow, or
  no record at all.
* `PageLoader` let a list of no files be loaded, by a slip in the precedence of
  `SUBSET`, and files break after their end.
* `ExchangeTracker` allowed a sweep every 0 messages, which is none.
* `DuplicatesAreCounted` was false of transactions that have a hash in common, which
  no archive of the run held. One does now, and the property names the exception.

### What is only model-checked

* The two liveness properties of the page: fairness, and that a step is enabled, are
  beyond these provers.

Every other property of a run is a theorem as well. What TLC alone shows is
that the models can reach what they are about: the mistakes that are written down
beside a definition are found in these runs, and each sentence of section 3 that the
code does not keep is refuted by a behaviour.

## 5. What is not modelled, and what comes next

Not modelled for good: stripping and inspection, which keep no state; generated
code; drawing; and the build. Of the views, `peers`, `peer_detail` and `exchanges`
sort and format state that is modelled, `describe` and the labels of payloads are
wording, and the rows of `peer_activity` are modelled without their order and cut.

Simplified:

* Kinds and groups filter alike and are one set in `EventQuery`; a filter on a peer
  the archive has not seen is left out of `PagesAreRight`; texts match as a whole;
  the session behind the page is reduced to what was read of each file and how
  that ended.
* `Ingest` leaves out the archive header and records that cannot be decoded, which
  only set the summary of a file; what is read of a file is in `RecordDecoder`.
* Percentiles are computed in exact arithmetic where the code uses floating point;
  counters of 16, 32 and 64 bits do not saturate in the models, except the offset
  from the relay's origin, which reaches its limit in the run.
* Kind ids and user agent ids are 16 bits wide; running out of the former panics
  in the code and is not modelled, running out of the latter is.
* Parsing an IP address and looking it up in the asmap are given functions.

Type invariants are kept for the tracker, the store and the turn matcher, where
they are proved or carry part of the proof; elsewhere the properties could not
hold of a state of another shape, and a separate one would say nothing more.

Planned, in this order:

1. `peers` and the cut of `peer_activity`: which peers a sorted, limited page drops.
2. The page's routing and selections, over the session that comes and goes.
3. `Ingest` across files: the summary of each, headers, and undecodable records.

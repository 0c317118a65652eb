----------------------------- MODULE PageLoader -----------------------------
(***************************************************************************)
(* Opening archives in the page (web/index.html): loadFiles is an async    *)
(* function, so several of it can be under way, all of them feeding        *)
(* whatever session S.session is at the time.                              *)
(*                                                                         *)
(* A handler runs to its next await in one step.  Its calls into the wasm  *)
(* module take the page to a page, one after the other; one of them may    *)
(* panic, which poisons the module's session for good.                     *)
(*                                                                         *)
(* A definition named X_Y is X with the mistake Y in it.                   *)
(***************************************************************************)
EXTENDS Integers, Sequences, FiniteSets, SequencesExt

CONSTANTS
  Files,      \* the files at hand
  Lists,      \* the sets of them that may be picked or dropped together
  MaxLoads,   \* bound of the model: archives opened
  MaxPanics   \* bound of the model: calls that panic

(* stamp: the capture time in the name, 0 if it has none; name: its place in
   the order of names; chunks: what its stream gives out; bad: the chunk at
   which the decoder finds it broken (chunks + 1: at its end), 0 for none. *)
File == [stamp : Nat, name : Nat, chunks : Nat, bad : Nat]

ASSUME FilesAssumption ==
  /\ Files \subseteq File
  /\ \A f, g \in Files : f.name = g.name => f = g
  /\ \A f \in Files : f.bad <= f.chunks + 1
  /\ Lists \subseteq (SUBSET Files) \ {{}}
  /\ \A list \in Lists : IsFiniteSet(list)
ASSUME BoundsAssumption == MaxLoads \in Nat /\ MaxPanics \in Nat

VARIABLES
  page,     \* S.dead, S.session (0 for null), the sessions, the elements shown
  loads,    \* the calls of loadFiles, by the session each of them made
  panics,   \* calls that panicked
  crowded   \* history: the loads that were not alone while they ran

loaderVars == <<page, loads, panics, crowded>>

Loads == 1 .. MaxLoads
Active(l) == loads[l].pc \in {"reading", "yielding"}
-----------------------------------------------------------------------------
(* The comparison is no order when only some names carry a time: sort may then
   return the files in any order. *)
Before_NameOnly(f, g) == f.name < g.name
Before(f, g) ==
  IF f.stamp # 0 /\ g.stamp # 0 /\ f.stamp # g.stamp THEN f.stamp < g.stamp
  ELSE f.name < g.name
byCaptureTime(list) ==
  LET sorted == {s \in SetToSeqs(list) : \A i, j \in DOMAIN s : i < j => Before(s[i], s[j])}
  IN  IF sorted = {} THEN SetToSeqs(list) ELSE sorted

-----------------------------------------------------------------------------
(***************************************************************************)
(* The session's methods (Analysis behind the wasm boundary).              *)
(***************************************************************************)
NewSession == [files |-> <<>>, decoding |-> FALSE, health |-> "ok"]

WithLast(s, entry) == [s.files EXCEPT ![Len(s.files)] = entry]

(* Whether the decoder can call the n-th read of an entry broken.  Chunks that
   are not the file's own in order may or may not make sense to it. *)
Breaks(entry, n) ==
  IF \A i \in DOMAIN entry.chunks : entry.chunks[i] = [file |-> entry.file, n |-> i]
  THEN {n = entry.file.bad}
  ELSE BOOLEAN

endFile(s, breaks) ==
  IF ~s.decoding THEN s
  ELSE [s EXCEPT !.decoding = FALSE,
                 !.files = WithLast(s, [Last(@) EXCEPT !.state = IF breaks THEN "failed" ELSE "ended"])]
(* No file is open any more when the page begins the next. *)
beginFile(s, f) ==
  [s EXCEPT !.files = Append(@, [file |-> f, chunks |-> <<>>, state |-> "open"]),
            !.decoding = TRUE]
Received(s, c) == [Last(s.files) EXCEPT !.chunks = Append(@, c)]
push(s, c, breaks) ==
  IF ~s.decoding THEN s
  ELSE IF breaks
       THEN [s EXCEPT !.files = WithLast(s, [Received(s, c) EXCEPT !.state = "failed"]),
                      !.decoding = FALSE]
       ELSE [s EXCEPT !.files = WithLast(s, Received(s, c))]

(* call: a method of the session in place, and what it makes of it. *)
showFatal_KeepsLoad(p) == [p EXCEPT !.shown = (@ \ {"app", "tabs"}) \cup {"fatal"}]
showFatal(p) == [p EXCEPT !.shown = (@ \ {"load", "app", "tabs"}) \cup {"fatal"}]
Throws(p) == ~p.dead /\ p.session = 0
Session(p) == p.sessions[p.session]
call(p, panic, after) ==
  IF p.dead \/ p.session = 0 THEN p
  ELSE IF Session(p).health = "ok" /\ ~panic
       THEN [p EXCEPT !.sessions[p.session] = after]
       ELSE showFatal([p EXCEPT !.dead = TRUE,
              !.sessions[p.session].health = IF @ = "ok" THEN "poisoned" ELSE "reused"])

(* What the decoder may make of the session's n-th read of its current file. *)
Outcomes(p) ==
  IF p.session = 0 \/ Session(p).files = <<>> THEN {FALSE}
  ELSE Breaks(Last(Session(p).files), Len(Last(Session(p).files).chunks) + 1)
OutcomesWith(p, c) ==
  IF p.session = 0 \/ Session(p).files = <<>> THEN {FALSE}
  ELSE Breaks(Received(Session(p), c), Len(Received(Session(p), c).chunks))

-----------------------------------------------------------------------------
LoaderInit ==
  /\ page = [dead |-> FALSE, session |-> 0, shown |-> {"start"},
             sessions |-> [l \in Loads |-> NewSession]]
  /\ loads = [l \in Loads |-> [pc |-> "none", list |-> {}, files |-> <<>>, chunk |-> 0]]
  /\ panics = 0
  /\ crowded = {}

(* At most one call of a step panics. *)
Panicking == {"nothing"} \cup (IF panics < MaxPanics THEN {"beginFile", "push", "endFile", "render"} ELSE {})
Panicked(p) == panics' = panics + Cardinality({l \in Loads :
                 page.sessions[l].health = "ok" /\ p.sessions[l].health # "ok"})

(* A load as it goes on after a step that left the page as p. *)
Goes(l, p, pc, files, chunk) ==
  /\ page' = p
  /\ Panicked(p)
  /\ loads' = [loads EXCEPT ![l].pc = IF p.dead THEN "dead" ELSE pc,
                            ![l].files = files, ![l].chunk = chunk]

Resetting(p, l) ==
  [p EXCEPT !.dead = FALSE, !.session = l, !.shown = {"load", "clear"}]

(* loadFiles up to its first await, from the picker or a drop. *)
loadFiles(list) ==
  \E l \in Loads, panic \in Panicking :
    /\ \A m \in Loads : m < l <=> loads[m].pc # "none"
    /\ \E order \in byCaptureTime(list) :
         LET begun == call(Resetting(page, l), panic = "beginFile",
                           beginFile(Session(Resetting(page, l)), order[1]))
         IN  /\ page' = begun
             /\ Panicked(begun)
             /\ loads' = [loads EXCEPT ![l] = [pc |-> IF begun.dead THEN "dead" ELSE "reading",
                                               list |-> list, files |-> order, chunk |-> 0]]
    /\ LET others == {m \in Loads : Active(m)}
       IN  crowded' = crowded \cup (IF others = {} THEN {} ELSE others \cup {l})

(* After the last read of a file, with the page as p: endFile, then the next
   file's beginFile or, after the last one, the archive on screen. *)
Shown(p) == [p EXCEPT !.shown = (@ \ {"load"}) \cup {"app", "tabs"}]
NextFile_NoDeadCheck(l, p, panic, breaks) ==
  LET rest == Tail(loads[l].files)
      ended == call(p, panic = "endFile", endFile(Session(p), breaks))
      begun == call(ended, panic = "beginFile", beginFile(Session(ended), rest[1]))
  IN  IF Throws(p) THEN Goes(l, p, "thrown", <<>>, 0)
      ELSE IF rest # <<>> THEN Goes(l, begun, "reading", rest, 0)
      ELSE Goes(l, call(Shown(ended), panic = "render", Session(ended)), "done", <<>>, 0)
NextFile(l, p, panic, breaks) ==
  LET rest == Tail(loads[l].files)
      ended == call(p, panic = "endFile", endFile(Session(p), breaks))
      begun == call(ended, panic = "beginFile", beginFile(Session(ended), rest[1]))
  IN  IF Throws(p) THEN Goes(l, p, "thrown", <<>>, 0)
      ELSE IF ended.dead THEN Goes(l, ended, "dead", <<>>, 0)
      ELSE IF rest # <<>> THEN Goes(l, begun, "reading", rest, 0)
      ELSE Goes(l, call(Shown(ended), panic = "render", Session(ended)), "done", <<>>, 0)

(* reader.read() gives a chunk.  An error of push ends this file; so does the
   TypeError of a session that Clear has taken away. *)
ReadChunk(l) ==
  /\ loads[l].pc = "reading"
  /\ loads[l].chunk < Head(loads[l].files).chunks
  /\ LET c == [file |-> Head(loads[l].files), n |-> loads[l].chunk + 1] IN
       \E panic \in Panicking, breaks \in OutcomesWith(page, c) :
         LET pushed == call(page, panic = "push", push(Session(page), c, breaks))
             failed == \/ Throws(page)
                       \/ ~pushed.dead /\ Session(page).decoding /\ breaks
         IN  IF failed
             THEN NextFile(l, pushed, panic, FALSE)
             ELSE \E pc \in {"reading", "yielding"} :  \* 40 ms since the last yield, or not
                    Goes(l, pushed, pc, loads[l].files, c.n)
  /\ UNCHANGED crowded

ReadEnd(l) ==
  /\ loads[l].pc = "reading"
  /\ loads[l].chunk = Head(loads[l].files).chunks
  /\ \E panic \in Panicking, breaks \in Outcomes(page) : NextFile(l, page, panic, breaks)
  /\ UNCHANGED crowded

(* reader.read() rejects, as when the file changed on disk: nothing catches it. *)
ReadFails(l) ==
  /\ loads[l].pc = "reading"
  /\ Goes(l, page, "unreadable", <<>>, 0)
  /\ UNCHANGED crowded

YieldOver(l) ==
  /\ loads[l].pc = "yielding"
  /\ loads' = [loads EXCEPT ![l].pc = "reading"]
  /\ UNCHANGED <<page, panics, crowded>>

Cleared(p) == [p EXCEPT !.session = 0, !.dead = FALSE, !.shown = {"start"}]
Clear ==
  /\ "clear" \in page.shown
  /\ page' = Cleared(page)
  /\ UNCHANGED <<loads, panics, crowded>>

LoadStep(l) == ReadChunk(l) \/ ReadEnd(l) \/ ReadFails(l) \/ YieldOver(l)

LoaderNext ==
  \/ \E list \in Lists : loadFiles(list)
  \/ \E l \in Loads : LoadStep(l)
  \/ Clear

-----------------------------------------------------------------------------
(* What a session opened for a list, and disturbed by no other load, holds once
   it is shown: each file in the order of capture, all of it or as much as it
   takes to find it broken. *)
Whole(f) ==
  LET n == IF f.bad \in 1 .. f.chunks THEN f.bad ELSE f.chunks IN
    [file |-> f, chunks |-> [i \in 1 .. n |-> [file |-> f, n |-> i]],
     state |-> IF f.bad = 0 THEN "ended" ELSE "failed"]

ArchiveShownIsWhole ==
  "app" \in page.shown /\ page.session \notin crowded =>
    LET files == Session(page).files
        list == loads[page.session].list
    IN  /\ {files[i].file : i \in DOMAIN files} = list /\ Len(files) = Cardinality(list)
        /\ \A i \in DOMAIN files : files[i] = Whole(files[i].file)
        /\ (\A f \in list : f.stamp # 0) =>
             \A i, j \in DOMAIN files : i < j => files[i].file.stamp <= files[j].file.stamp

(* Once a call has panicked nothing calls into that session again, whatever is
   still loading into it and whatever the user does; the page that replaces it
   shows the explanation and none of the archive. *)
PoisonedIsRetired ==
  /\ \A l \in Loads : page.sessions[l].health # "reused"
  /\ page.dead <=> "fatal" \in page.shown
  /\ page.dead => page.shown \cap {"start", "load", "app", "tabs"} = {}

(* The loading screen goes away, unless a file could no longer be read. *)
LoadingScreenEnds ==
  "load" \in page.shown ~> ("load" \notin page.shown \/ \E l \in Loads : loads[l].pc = "unreadable")

(* A chunk is recorded against the file it was read from. *)
RecordedAgainstItsFile ==
  \A l \in Loads : \A i \in DOMAIN page.sessions[l].files :
    \A c \in Range(page.sessions[l].files[i].chunks) : c.file = page.sessions[l].files[i].file

=============================================================================

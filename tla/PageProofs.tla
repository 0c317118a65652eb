----------------------------- MODULE PageProofs -----------------------------
(***************************************************************************)
(* For every set of files, however many archives are opened over one       *)
(* another, calls panic and times the networks view is visited: a poisoned *)
(* session is left alone, an archive that had the page to itself is shown  *)
(* whole, one visit at a time fetches, and the rows on screen are those of *)
(* the session in place.                                                   *)
(***************************************************************************)
EXTENDS NetworksView, FiniteSetTheorems, SequenceTheorems, WellFoundedInduction, TLAPS

Elements == {"start", "load", "clear", "app", "tabs", "fatal"}
Chunk == [file : Files, n : Nat]
Entry == [file : Files, chunks : Seq(Chunk), state : {"open", "ended", "failed"}]
SessionType == [files : Seq(Entry), decoding : BOOLEAN, health : {"ok", "poisoned"}]
PageType == [dead : BOOLEAN, session : 0 .. MaxLoads, shown : SUBSET Elements,
             sessions : [Loads -> SessionType]]
LoadType == [pc : {"none", "reading", "yielding", "done", "dead", "thrown", "unreadable"},
             list : SUBSET Files, files : Seq(Files), chunk : Nat]

(* A session decodes a file only when it has one. *)
Sound(s) == s \in SessionType /\ (s.decoding => s.files # <<>>)

(* A page is dead exactly when it shows the explanation, and one that is not
   has a session that can be called. *)
Retired(p) ==
  /\ p \in PageType
  /\ \A l \in Loads : Sound(p.sessions[l])
  /\ p.dead <=> "fatal" \in p.shown
  /\ p.dead => p.shown \cap {"start", "load", "app", "tabs"} = {}
  /\ p.session # 0 /\ ~p.dead => Session(p).health = "ok"
  /\ p.session # 0 => "start" \notin p.shown
  /\ "app" \in p.shown => p.session # 0

(* A load that has not begun has a session nobody has used; one under way has a
   file to read; the session in place is the last one made. *)
Opened(p, ls) ==
  /\ ls \in [Loads -> LoadType]
  /\ \A l \in Loads : ls[l].pc = "none" => p.sessions[l] = NewSession
  /\ \A l \in Loads : ls[l].pc \in {"reading", "yielding"} => ls[l].files # <<>>
  /\ p.session # 0 => ls[p.session].pc # "none"
  /\ \A l \in Loads : p.session # 0 /\ ls[l].pc # "none" => l <= p.session

(* The page is where a step that calls only into the session in place may leave
   it, having begun as p. *)
Follows(p, q) ==
  /\ Retired(q)
  /\ q.session = p.session
  /\ p.dead => q = p
  /\ \A l \in Loads : l # p.session => q.sessions[l] = p.sessions[l]

(* The first n chunks of a file in their order. *)
Numbered(f, n) == [i \in 1 .. n |-> [file |-> f, n |-> i]]

(* Session s of a load under way: its files up to the current one are whole,
   and of that one it holds the chunks read so far, in their order. *)
Reading(load, s) ==
  \E order \in byCaptureTime(load.list) :
    LET k == Len(s.files) IN
      /\ k \in 1 .. Len(order)
      /\ load.files = SubSeq(order, k, Len(order))
      /\ \A i \in 1 .. (k - 1) : s.files[i] = Whole(order[i])
      /\ s.files[k] = [file |-> order[k], chunks |-> Numbered(order[k], load.chunk),
                       state |-> "open"]
      /\ s.decoding
      /\ load.chunk <= order[k].chunks
      /\ order[k].bad = 0 \/ order[k].bad > load.chunk
Finished(load, s) ==
  \E order \in byCaptureTime(load.list) :
    /\ Len(s.files) = Len(order)
    /\ \A i \in 1 .. Len(order) : s.files[i] = Whole(order[i])

(* The session in place, if no other load ran beside its own and no call has
   panicked. *)
Undisturbed(p, ls, others) ==
  p.session # 0 /\ p.session \notin others /\ ~p.dead =>
    LET load == ls[p.session] IN
      /\ \A l \in Loads : ls[l].pc \in {"reading", "yielding"} => l = p.session
      /\ load.list \in Lists
      /\ load.pc \in {"reading", "yielding", "done", "unreadable"}
      /\ load.pc \in {"reading", "yielding"} => Reading(load, Session(p))
      /\ load.pc = "done" => Finished(load, Session(p))
      /\ "app" \in p.shown => load.pc = "done"

TypeOK ==
  /\ page \in PageType
  /\ loads \in [Loads -> LoadType]
  /\ panics \in Nat
  /\ crowded \subseteq Loads
  /\ asnState \in {"idle", "loading", "ready", "error"}
  /\ asinfo \in BOOLEAN
  /\ mapped \subseteq Loads
  /\ visits \in [Visits -> {"none", "fetching", "importing", "over"}]
  /\ peerMode \in {"peers", "networks"}
  /\ table \in [rows : {"none", "peers", "networks"}, session : 0 .. MaxLoads]

IInv ==
  /\ TypeOK
  /\ Retired(page)
  /\ Opened(page, loads)
  /\ Undisturbed(page, loads, crowded)
  /\ OneVisitFetches
  /\ RowsAreOfTheSession

-----------------------------------------------------------------------------
(* The last file of a session that has one, and the files with that one
   replaced. *)
LEMMA LastFile ==
  ASSUME NEW s \in SessionType, s.files # <<>>
  PROVE  /\ Len(s.files) \in Nat \ {0}
         /\ Last(s.files) = s.files[Len(s.files)]
         /\ Last(s.files) \in Entry
         /\ \A entry \in Entry :
              /\ WithLast(s, entry) \in Seq(Entry)
              /\ Len(WithLast(s, entry)) = Len(s.files)
              /\ WithLast(s, entry) # <<>>
              /\ WithLast(s, entry)[Len(s.files)] = entry
              /\ \A i \in 1 .. (Len(s.files) - 1) : WithLast(s, entry)[i] = s.files[i]
<1>1. s.files \in Seq(Entry)
  BY DEF SessionType
<1>2. Len(s.files) \in Nat \ {0} /\ DOMAIN s.files = 1 .. Len(s.files)
  BY <1>1, LenProperties, EmptySeq
<1>3. Last(s.files) = s.files[Len(s.files)]
  BY DEF Last
<1>4. Last(s.files) \in Entry
  BY <1>1, <1>2, <1>3, ElementOfSeq
<1>5. ASSUME NEW entry \in Entry
      PROVE  /\ WithLast(s, entry) \in Seq(Entry)
             /\ Len(WithLast(s, entry)) = Len(s.files)
             /\ WithLast(s, entry) # <<>>
             /\ WithLast(s, entry)[Len(s.files)] = entry
             /\ \A i \in 1 .. (Len(s.files) - 1) : WithLast(s, entry)[i] = s.files[i]
  <2>1. Len(s.files) \in 1 .. Len(s.files)
    BY <1>2
  <2>2. WithLast(s, entry) \in Seq(Entry) /\ Len(WithLast(s, entry)) = Len(s.files)
    BY <1>1, <2>1, ExceptSeq DEF WithLast
  <2>3. WithLast(s, entry) # <<>>
    BY <1>2, <2>2, EmptySeq
  <2> QED BY <1>2, <2>1, <2>2, <2>3 DEF WithLast
<1> QED BY <1>2, <1>3, <1>4, <1>5

(* The methods of a session leave it sound and do not change its health. *)
LEMMA EndFileType ==
  ASSUME NEW s, Sound(s), NEW breaks \in BOOLEAN
  PROVE  Sound(endFile(s, breaks)) /\ endFile(s, breaks).health = s.health
<1>1. CASE ~s.decoding
  BY <1>1 DEF endFile
<1>2. CASE s.decoding
  <2> DEFINE entry == [Last(s.files) EXCEPT !.state = IF breaks THEN "failed" ELSE "ended"]
  <2>1. s \in SessionType /\ s.files # <<>>
    BY <1>2 DEF Sound
  <2>2. entry \in Entry
    BY <2>1, LastFile DEF Entry
  <2>3. WithLast(s, entry) \in Seq(Entry) /\ WithLast(s, entry) # <<>>
    BY <2>1, <2>2, LastFile
  <2>4. endFile(s, breaks) = [s EXCEPT !.decoding = FALSE, !.files = WithLast(s, entry)]
    BY <1>2 DEF endFile
  <2> HIDE DEF entry
  <2> QED BY <2>1, <2>3, <2>4 DEF Sound, SessionType
<1> QED BY <1>1, <1>2 DEF Sound, SessionType

LEMMA BeginFileType ==
  ASSUME NEW s, Sound(s), NEW f \in Files
  PROVE  Sound(beginFile(s, f)) /\ beginFile(s, f).health = s.health
<1> DEFINE entry == [file |-> f, chunks |-> <<>>, state |-> "open"]
<1>1. entry \in Entry
  BY EmptySeq DEF Entry
<1>2. s.files \in Seq(Entry)
  BY DEF Sound, SessionType
<1>3. Append(s.files, entry) \in Seq(Entry) /\ Append(s.files, entry) # <<>>
  BY <1>1, <1>2, AppendProperties
<1>4. beginFile(s, f) = [s EXCEPT !.files = Append(s.files, entry), !.decoding = TRUE]
  BY DEF beginFile
<1> HIDE DEF entry
<1> QED BY <1>3, <1>4 DEF Sound, SessionType

LEMMA PushType ==
  ASSUME NEW s, Sound(s), NEW c \in Chunk, NEW breaks \in BOOLEAN
  PROVE  Sound(push(s, c, breaks)) /\ push(s, c, breaks).health = s.health
<1>1. CASE ~s.decoding
  BY <1>1 DEF push
<1>2. CASE s.decoding
  <2> DEFINE failed == [Received(s, c) EXCEPT !.state = "failed"]
  <2>1. s \in SessionType /\ s.files # <<>>
    BY <1>2 DEF Sound
  <2>2. Last(s.files) \in Entry
    BY <2>1, LastFile
  <2>3. Append(Last(s.files).chunks, c) \in Seq(Chunk)
    BY <2>2, AppendProperties DEF Entry
  <2>4. Received(s, c) \in Entry
    BY <2>2, <2>3 DEF Received, Entry
  <2>5. failed \in Entry
    BY <2>4 DEF Entry
  <2>6. push(s, c, breaks) = IF breaks
                             THEN [s EXCEPT !.files = WithLast(s, failed), !.decoding = FALSE]
                             ELSE [s EXCEPT !.files = WithLast(s, Received(s, c))]
    BY <1>2 DEF push
  <2>7. /\ WithLast(s, failed) \in Seq(Entry) /\ WithLast(s, failed) # <<>>
        /\ WithLast(s, Received(s, c)) \in Seq(Entry) /\ WithLast(s, Received(s, c)) # <<>>
    BY <2>1, <2>4, <2>5, LastFile
  <2> HIDE DEF failed
  <2> QED BY <2>1, <2>6, <2>7 DEF Sound, SessionType
<1> QED BY <1>1, <1>2 DEF Sound, SessionType

-----------------------------------------------------------------------------
(* A call into the session in place, by whatever method, leaves the page
   retired if it is dead, and otherwise with what the method made of it. *)
LEMMA CallStep ==
  ASSUME NEW p, Retired(p), NEW panic \in BOOLEAN, NEW after,
         p.session # 0 /\ ~p.dead => Sound(after) /\ after.health = Session(p).health
  PROVE  LET q == call(p, panic, after)
         IN /\ Follows(p, q)
            /\ ~q.dead => q.shown = p.shown
            /\ ~q.dead /\ p.session # 0 => Session(q) = after
            /\ ~panic /\ ~p.dead => ~q.dead
<1> DEFINE q == call(p, panic, after)
           n == p.session
<1>0. p \in PageType /\ n \in 0 .. MaxLoads /\ (n # 0 => n \in Loads)
  BY BoundsAssumption DEF Retired, PageType, Loads
<1>1. CASE p.dead \/ n = 0
  <2>1. q = p
    BY <1>1 DEF call
  <2> QED BY <1>0, <1>1, <2>1 DEF Follows
<1>2. CASE ~p.dead /\ n # 0 /\ ~panic
  <2>1. Session(p).health = "ok" /\ Sound(after) /\ after.health = "ok"
    BY <1>2 DEF Retired
  <2>2. q = [p EXCEPT !.sessions[n] = after]
    BY <1>2, <2>1 DEF call
  <2>3. q = [p EXCEPT !.sessions = [p.sessions EXCEPT ![n] = after]]
    BY <2>2
  <2>4. p.sessions \in [Loads -> SessionType] /\ after \in SessionType /\ n \in Loads
    BY <1>0, <1>2, <2>1 DEF PageType, Sound
  <2>5. [p.sessions EXCEPT ![n] = after] \in [Loads -> SessionType]
    BY <2>4
  <2>6. /\ q \in PageType /\ q.dead = p.dead /\ q.session = n /\ q.shown = p.shown
        /\ q.sessions = [p.sessions EXCEPT ![n] = after]
    BY <1>0, <2>3, <2>5 DEF PageType
  <2>7. Session(q) = after
    BY <2>4, <2>6 DEF Session
  <2>8. \A l \in Loads : Sound(q.sessions[l])
    BY <2>1, <2>4, <2>6 DEF Retired
  <2>9. Retired(q)
    BY <1>2, <2>1, <2>6, <2>7, <2>8 DEF Retired
  <2> QED BY <1>2, <2>4, <2>6, <2>7, <2>9 DEF Follows
<1>3. CASE ~p.dead /\ n # 0 /\ panic
  <2>1. Session(p).health = "ok"
    BY <1>3 DEF Retired
  <2> DEFINE poisoned == [p.sessions EXCEPT ![n] = [p.sessions[n] EXCEPT !.health = "poisoned"]]
             shown == (p.shown \ {"load", "app", "tabs"}) \cup {"fatal"}
  <2>2. q = showFatal([p EXCEPT !.dead = TRUE,
              !.sessions[p.session].health = IF @ = "ok" THEN "poisoned" ELSE "reused"])
    BY <1>3, <2>1 DEF call
  <2>3. p.sessions \in [Loads -> SessionType] /\ n \in Loads /\ p.sessions[n].health = "ok"
    BY <1>0, <1>3, <2>1 DEF PageType, Session
  <2>4. [p EXCEPT !.dead = TRUE,
              !.sessions[p.session].health = IF @ = "ok" THEN "poisoned" ELSE "reused"]
        = [p EXCEPT !.dead = TRUE, !.sessions = poisoned]
    BY <1>0, <2>3 DEF PageType
  <2>5. poisoned \in [Loads -> SessionType]
    BY <2>3 DEF SessionType
  <2>6. \A l \in Loads : Sound(poisoned[l])
    <3>1. Sound(p.sessions[n])
      BY <2>3 DEF Retired
    <3>2. Sound([p.sessions[n] EXCEPT !.health = "poisoned"])
      BY <3>1 DEF Sound, SessionType
    <3> QED BY <2>3, <3>2 DEF Retired
  <2>7. shown \subseteq Elements
    BY <1>0 DEF PageType, Elements
  <2>8. /\ q = [p EXCEPT !.dead = TRUE, !.sessions = poisoned, !.shown = shown]
    BY <1>0, <2>2, <2>4 DEF showFatal, PageType
  <2>9. \A l \in Loads : l # n => poisoned[l] = p.sessions[l]
    BY <2>3
  <2> HIDE DEF poisoned
  <2>10. /\ q \in PageType /\ q.dead = TRUE /\ q.session = n /\ q.shown = shown
         /\ q.sessions = poisoned
    BY <1>0, <2>5, <2>7, <2>8 DEF PageType
  <2>11. "start" \notin p.shown
    BY <1>3 DEF Retired
  <2>12. Retired(q)
    BY <2>6, <2>10, <2>11 DEF Retired
  <2> QED BY <1>3, <2>9, <2>10, <2>12 DEF Follows
<1> QED BY <1>1, <1>2, <1>3

LEMMA FollowsTwice ==
  ASSUME NEW p, NEW q, NEW r, Follows(p, q), Follows(q, r)
  PROVE  Follows(p, r)
BY DEF Follows

LEMMA FollowsItself ==
  ASSUME NEW p, Retired(p)
  PROVE  Follows(p, p)
BY DEF Follows

(* The archive on screen instead of the loading screen. *)
LEMMA ShownStep ==
  ASSUME NEW p, Retired(p), ~p.dead, p.session # 0
  PROVE  /\ Follows(p, Shown(p))
         /\ ~Shown(p).dead
         /\ Session(Shown(p)) = Session(p)
         /\ Shown(p).shown = (p.shown \ {"load"}) \cup {"app", "tabs"}
<1>1. p \in PageType
  BY DEF Retired
<1> DEFINE shown == (p.shown \ {"load"}) \cup {"app", "tabs"}
<1>2. shown \subseteq Elements
  BY <1>1 DEF PageType, Elements
<1>3. Shown(p) = [p EXCEPT !.shown = shown]
  BY <1>1 DEF Shown, PageType
<1>4. /\ Shown(p) \in PageType /\ Shown(p).dead = p.dead /\ Shown(p).session = p.session
      /\ Shown(p).shown = shown /\ Shown(p).sessions = p.sessions
  BY <1>1, <1>2, <1>3 DEF PageType
<1>5. Retired(Shown(p)) /\ Session(Shown(p)) = Session(p)
  BY <1>4 DEF Retired, Session
<1> QED BY <1>4, <1>5 DEF Follows

(* The session in place is sound and, if the page lives, can be called. *)
LEMMA SessionInPlace ==
  ASSUME NEW p, Retired(p), p.session # 0
  PROVE  /\ p.session \in Loads
         /\ Sound(Session(p))
         /\ ~p.dead => Session(p).health = "ok"
BY BoundsAssumption DEF Retired, PageType, Loads, Session

(* After the last read of a file, four things may happen. *)
LEMMA NextFileStep ==
  ASSUME NEW l \in Loads, loads[l] \in LoadType, loads[l].files # <<>>,
         NEW p, Follows(page, p), ~p.dead => p.shown = page.shown,
         NEW panic, NEW breaks \in BOOLEAN,
         NextFile(l, p, panic, breaks)
  PROVE  \E pc, files, chunk :
           /\ Goes(l, page', pc, files, chunk)
           /\ Follows(page, page') /\ Follows(p, page')
           /\ \/ pc = "thrown" /\ page'.session = 0 /\ ~page'.dead /\ page'.shown = page.shown
                 /\ files = <<>> /\ chunk = 0
              \/ pc \in {"dead", "reading", "done"} /\ page'.dead /\ files \in Seq(Files) /\ chunk = 0
              \/ /\ pc = "reading" /\ page'.session # 0 /\ ~page'.dead /\ page'.shown = page.shown
                 /\ files = Tail(loads[l].files) /\ files # <<>> /\ chunk = 0
                 /\ Session(page') = beginFile(endFile(Session(p), breaks), files[1])
              \/ /\ pc = "done" /\ page'.session # 0 /\ ~page'.dead
                 /\ page'.shown = (page.shown \ {"load"}) \cup {"app", "tabs"}
                 /\ Tail(loads[l].files) = <<>> /\ files = <<>> /\ chunk = 0
                 /\ Session(page') = endFile(Session(p), breaks)
<1> DEFINE rest == Tail(loads[l].files)
           ended == call(p, panic = "endFile", endFile(Session(p), breaks))
           begun == call(ended, panic = "beginFile", beginFile(Session(ended), rest[1]))
           over == call(Shown(ended), panic = "render", Session(ended))
<1>0. NextFile(l, p, panic, breaks)
      <=> IF Throws(p) THEN Goes(l, p, "thrown", <<>>, 0)
          ELSE IF ended.dead THEN Goes(l, ended, "dead", <<>>, 0)
          ELSE IF rest # <<>> THEN Goes(l, begun, "reading", rest, 0)
          ELSE Goes(l, over, "done", <<>>, 0)
  BY DEF NextFile
<1>1. Retired(p) /\ p.session = page.session
  BY DEF Follows
<1>2. p.session # 0 /\ ~p.dead =>
        /\ Sound(endFile(Session(p), breaks))
        /\ endFile(Session(p), breaks).health = Session(p).health
  BY <1>1, SessionInPlace, EndFileType
<1>3. /\ Follows(p, ended)
      /\ ~ended.dead => ended.shown = p.shown
      /\ ~ended.dead /\ p.session # 0 => Session(ended) = endFile(Session(p), breaks)
  BY <1>1, <1>2, CallStep
<1> HIDE DEF ended
<1>4. CASE Throws(p)
  <2>1. Goes(l, p, "thrown", <<>>, 0)
    BY <1>0, <1>4
  <2>2. page' = p
    BY <2>1 DEF Goes
  <2>3. p.session = 0 /\ ~p.dead /\ Follows(p, p)
    BY <1>1, <1>4, FollowsItself DEF Throws
  <2> QED BY <2>1, <2>2, <2>3
<1>5. CASE ~Throws(p) /\ ended.dead
  <2>1. Goes(l, ended, "dead", <<>>, 0)
    BY <1>0, <1>5
  <2>2. page' = ended
    BY <2>1 DEF Goes
  <2>3. Follows(page, ended)
    BY <1>3, FollowsTwice
  <2>4. <<>> \in Seq(Files)
    BY EmptySeq
  <2> QED BY <1>3, <1>5, <2>1, <2>2, <2>3, <2>4
<1>6. CASE ~Throws(p) /\ ~ended.dead
  <2>1. ~p.dead /\ p.session # 0
    BY <1>3, <1>6 DEF Throws, Follows
  <2>2. Retired(ended) /\ ended.session = p.session
    BY <1>3 DEF Follows
  <2>3. Sound(Session(ended)) /\ Session(ended).health = "ok"
    BY <1>6, <2>1, <2>2, SessionInPlace
  <2>4. Follows(page, ended) /\ ended.shown = page.shown
    BY <1>3, <1>6, <2>1, FollowsTwice
  <2>5. CASE rest # <<>>
    <3>1. rest \in Seq(Files) /\ rest[1] \in Files
      <4>1. loads[l].files \in Seq(Files)
        BY DEF LoadType
      <4>2. rest \in Seq(Files)
        BY <4>1, HeadTailProperties
      <4>3. Len(rest) \in Nat \ {0}
        BY <2>5, <4>2, EmptySeq, LenProperties
      <4> HIDE DEF rest
      <4>4. 1 \in 1 .. Len(rest)
        BY <4>3
      <4> QED BY <4>2, <4>4, ElementOfSeq
    <3>2. Sound(beginFile(Session(ended), rest[1])) /\ beginFile(Session(ended), rest[1]).health = "ok"
      BY <2>3, <3>1, BeginFileType
    <3>3. /\ Follows(ended, begun)
          /\ ~begun.dead => begun.shown = ended.shown
          /\ ~begun.dead /\ ended.session # 0 => Session(begun) = beginFile(Session(ended), rest[1])
      <4>1. /\ Retired(ended)
            /\ ended.session # 0 /\ ~ended.dead =>
                 /\ Sound(beginFile(Session(ended), rest[1]))
                 /\ beginFile(Session(ended), rest[1]).health = Session(ended).health
        BY <2>2, <2>3, <3>2
      <4> HIDE DEF rest
      <4> QED BY <4>1, CallStep
    <3>4. Goes(l, begun, "reading", rest, 0)
      BY <1>0, <1>6, <2>5
    <3> HIDE DEF begun
    <3>5. page' = begun
      BY <3>4 DEF Goes
    <3>6. Follows(page, begun) /\ Follows(p, begun)
      BY <1>3, <2>4, <3>3, FollowsTwice
    <3>7. begun.session # 0
      BY <2>1, <2>2, <3>3 DEF Follows
    <3>8. CASE begun.dead
      BY <3>1, <3>4, <3>5, <3>6, <3>8
    <3>9. CASE ~begun.dead
      <4>1. begun.shown = page.shown
        BY <2>4, <3>3, <3>9
      <4>2. Session(begun) = beginFile(endFile(Session(p), breaks), rest[1])
        BY <1>3, <1>6, <2>1, <2>2, <3>3, <3>9
      <4> QED BY <2>5, <3>4, <3>5, <3>6, <3>7, <3>9, <4>1, <4>2
    <3> QED BY <3>8, <3>9
  <2>6. CASE rest = <<>>
    <3>1. /\ Follows(ended, Shown(ended)) /\ ~Shown(ended).dead
          /\ Session(Shown(ended)) = Session(ended)
          /\ Shown(ended).shown = (ended.shown \ {"load"}) \cup {"app", "tabs"}
      BY <1>6, <2>1, <2>2, ShownStep
    <3>2. Retired(Shown(ended)) /\ Shown(ended).session = p.session
      BY <2>2, <3>1 DEF Follows
    <3>3. /\ Follows(Shown(ended), over)
          /\ ~over.dead => over.shown = Shown(ended).shown
          /\ ~over.dead /\ Shown(ended).session # 0 => Session(over) = Session(ended)
      BY <2>3, <3>1, <3>2, CallStep
    <3>4. Goes(l, over, "done", <<>>, 0)
      BY <1>0, <1>6, <2>6
    <3> HIDE DEF over
    <3>5. page' = over
      BY <3>4 DEF Goes
    <3>6. Follows(page, over) /\ Follows(p, over)
      BY <1>3, <2>4, <3>1, <3>3, FollowsTwice
    <3>7. over.session # 0
      BY <2>1, <3>2, <3>3 DEF Follows
    <3>8. CASE over.dead
      <4>1. <<>> \in Seq(Files)
        BY EmptySeq
      <4> QED BY <3>4, <3>5, <3>6, <3>8, <4>1
    <3>9. CASE ~over.dead
      <4>1. over.shown = (page.shown \ {"load"}) \cup {"app", "tabs"}
        BY <2>4, <3>1, <3>3, <3>9
      <4>2. Session(over) = endFile(Session(p), breaks)
        BY <1>3, <1>6, <2>1, <3>2, <3>3, <3>9
      <4> QED BY <2>6, <3>4, <3>5, <3>6, <3>7, <3>9, <4>1, <4>2
    <3> QED BY <3>8, <3>9
  <2> QED BY <2>5, <2>6
<1> QED BY <1>4, <1>5, <1>6

-----------------------------------------------------------------------------
(* Session s has the files of a load up to the current one whole. *)
Through(load, s) ==
  \E order \in byCaptureTime(load.list) :
    LET k == Len(s.files) IN
      /\ k \in 1 .. Len(order)
      /\ load.files = SubSeq(order, k, Len(order))
      /\ \A i \in 1 .. k : s.files[i] = Whole(order[i])

(* The order of a list names each of its files once. *)
LEMMA OrderType ==
  ASSUME NEW list \in Lists, NEW order \in byCaptureTime(list)
  PROVE  /\ order \in Seq(Files)
         /\ Len(order) = Cardinality(list)
         /\ Len(order) \in Nat \ {0}
         /\ order \in [1 .. Len(order) -> list]
         /\ \A i, j \in 1 .. Len(order) : i # j => order[i] # order[j]
         /\ Range(order) = list
<1>1. list \subseteq Files /\ IsFiniteSet(list) /\ list # {}
  BY FilesAssumption
<1>2. Cardinality(list) \in Nat \ {0}
  BY <1>1, FS_CardinalityType, FS_EmptySet
<1>3. order \in SetToSeqs(list)
  BY DEF byCaptureTime
<1> DEFINE D == 1 .. Cardinality(list)
<1>4. order \in [D -> list] /\ \A i, j \in D : i # j => order[i] # order[j]
  BY <1>3 DEF SetToSeqs
<1>5. order \in Seq(list) /\ Len(order) = Cardinality(list)
  BY <1>2, <1>4, LenProperties, IsASeq
<1>6. order \in Seq(Files)
  BY <1>1, <1>5, SeqMonotonic
<1>7. IsFiniteSet(D) /\ Cardinality(D) = Cardinality(list)
  BY <1>2, FS_Interval
<1>8. order \in Injection(D, list)
  BY <1>4 DEF Injection, IsInjective
<1>9. Range(order) = list
  <2>1. order \in Surjection(D, list)
    BY <1>1, <1>7, <1>8, FS_Injection
  <2> QED BY <1>4, <2>1 DEF Surjection, Range
<1> QED BY <1>2, <1>4, <1>5, <1>6, <1>9

(* The chunks of a file in their order, and one more. *)
LEMMA NumberedType ==
  ASSUME NEW f \in Files, NEW n \in Nat
  PROVE  /\ Numbered(f, n) \in Seq(Chunk)
         /\ Len(Numbered(f, n)) = n
         /\ \A i \in 1 .. n : Numbered(f, n)[i] = [file |-> f, n |-> i]
<1>1. \A i \in 1 .. n : [file |-> f, n |-> i] \in Chunk
  BY DEF Chunk
<1>2. Numbered(f, n) \in [1 .. n -> Chunk]
  BY <1>1 DEF Numbered
<1> QED BY <1>2, IsASeq, LenProperties DEF Numbered

LEMMA OneMoreChunk ==
  ASSUME NEW f \in Files, NEW n \in Nat
  PROVE  Append(Numbered(f, n), [file |-> f, n |-> n + 1]) = Numbered(f, n + 1)
<1> DEFINE c == [file |-> f, n |-> n + 1]
           more == Append(Numbered(f, n), c)
<1>1. c \in Chunk
  BY DEF Chunk
<1>2. /\ more \in Seq(Chunk)
      /\ Len(more) = n + 1
      /\ \A i \in 1 .. n : more[i] = Numbered(f, n)[i]
      /\ more[n + 1] = c
  BY <1>1, NumberedType, AppendProperties
<1>3. Numbered(f, n + 1) \in Seq(Chunk) /\ Len(Numbered(f, n + 1)) = n + 1
  BY NumberedType
<1>4. \A i \in 1 .. (n + 1) : Numbered(f, n + 1)[i] = [file |-> f, n |-> i]
  BY DEF Numbered
<1> HIDE DEF more
<1>5. ASSUME NEW i \in 1 .. (n + 1)
      PROVE  more[i] = [file |-> f, n |-> i]
  <2>1. CASE i \in 1 .. n
    BY <1>2, <2>1, NumberedType
  <2>2. CASE i = n + 1
    BY <1>2, <2>2
  <2> QED BY <2>1, <2>2
<1> HIDE DEF c
<1>6. more = Numbered(f, n + 1)
  BY <1>2, <1>3, <1>4, <1>5, SeqEqual
<1> QED BY <1>6 DEF more, c

(* Reading a chunk in its turn: the session takes it, or finds the file broken
   and has what there is of it. *)
LEMMA ReadingChunk ==
  ASSUME NEW load \in LoadType, load.list \in Lists, NEW s, Sound(s), Reading(load, s),
         load.chunk < Head(load.files).chunks,
         NEW c, c = [file |-> Head(load.files), n |-> load.chunk + 1],
         NEW breaks \in Breaks(Received(s, c), Len(Received(s, c).chunks)),
         NEW later \in LoadType, later.list = load.list, later.files = load.files
  PROVE  /\ s.decoding
         /\ ~breaks /\ later.chunk = c.n => Reading(later, push(s, c, breaks))
         /\ breaks => /\ ~push(s, c, breaks).decoding
                      /\ Through(load, push(s, c, breaks))
<1>1. PICK order \in byCaptureTime(load.list) :
        LET k == Len(s.files) IN
          /\ k \in 1 .. Len(order)
          /\ load.files = SubSeq(order, k, Len(order))
          /\ \A i \in 1 .. (k - 1) : s.files[i] = Whole(order[i])
          /\ s.files[k] = [file |-> order[k], chunks |-> Numbered(order[k], load.chunk),
                           state |-> "open"]
          /\ s.decoding
          /\ load.chunk <= order[k].chunks
          /\ order[k].bad = 0 \/ order[k].bad > load.chunk
  BY DEF Reading
<1>2. order \in Seq(Files) /\ Len(order) \in Nat \ {0}
  BY OrderType
<1>3. PICK k \in 1 .. Len(order) : k = Len(s.files)
  BY <1>1
<1>4. PICK f \in Files : f = order[k]
  BY <1>2, ElementOfSeq
<1>5. PICK n \in Nat : n = load.chunk
  BY DEF LoadType
<1>6. Head(load.files) = f
  BY <1>1, <1>2, <1>3, <1>4, SubSeqProperties, LenProperties
<1>7. s \in SessionType /\ s.files # <<>> /\ s.decoding
  BY <1>1 DEF Sound
<1>8. Last(s.files) = [file |-> f, chunks |-> Numbered(f, n), state |-> "open"]
  BY <1>1, <1>3, <1>4, <1>5, <1>7, LastFile
<1>9. c = [file |-> f, n |-> n + 1] /\ c.n = n + 1
  BY <1>5, <1>6
<1>10. Received(s, c) = [file |-> f, chunks |-> Numbered(f, n + 1), state |-> "open"]
  <2>1. Append(Numbered(f, n), c) = Numbered(f, n + 1)
    BY <1>9, OneMoreChunk
  <2> DEFINE last == Last(s.files)
  <2>2. Received(s, c) = [last EXCEPT !.chunks = Append(last.chunks, c)]
    BY DEF Received
  <2> HIDE DEF last
  <2>3. last = [file |-> f, chunks |-> Numbered(f, n), state |-> "open"]
    BY <1>8 DEF last
  <2>4. Append(last.chunks, c) = Numbered(f, n + 1)
    BY <2>1, <2>3
  <2> QED BY <2>2, <2>3, <2>4
<1>11. Received(s, c) \in Entry /\ Len(Received(s, c).chunks) = n + 1
  BY <1>10, NumberedType DEF Entry
<1>12. breaks <=> n + 1 = f.bad
  <2>1. \A i \in 1 .. (n + 1) : Numbered(f, n + 1)[i] = [file |-> f, n |-> i]
    BY NumberedType
  <2>2. DOMAIN Numbered(f, n + 1) = 1 .. (n + 1)
    BY DEF Numbered
  <2>3. Breaks(Received(s, c), n + 1) = {n + 1 = f.bad}
    BY <1>10, <2>1, <2>2 DEF Breaks
  <2>4. breaks = (n + 1 = f.bad)
    BY <1>11, <2>3
  <2> QED BY <2>4
<1>13. n + 1 <= f.chunks /\ f.chunks \in Nat /\ f.bad \in Nat /\ (f.bad = 0 \/ f.bad > n)
  BY <1>1, <1>3, <1>4, <1>5, <1>6, FilesAssumption DEF File
<1>14. ASSUME ~breaks, later.chunk = c.n
       PROVE  Reading(later, push(s, c, breaks))
  <2> DEFINE t == push(s, c, breaks)
  <2>1. t = [s EXCEPT !.files = WithLast(s, Received(s, c))]
    BY <1>7, <1>14 DEF push
  <2>2. t.files = WithLast(s, Received(s, c)) /\ t.decoding
    BY <1>7, <2>1 DEF SessionType
  <2> HIDE DEF t
  <2>3. /\ Len(t.files) = k
        /\ t.files[k] = Received(s, c)
        /\ \A i \in 1 .. (k - 1) : t.files[i] = s.files[i]
    <3>1. \A entry \in Entry :
            /\ Len(WithLast(s, entry)) = Len(s.files)
            /\ WithLast(s, entry)[Len(s.files)] = entry
            /\ \A i \in 1 .. (Len(s.files) - 1) : WithLast(s, entry)[i] = s.files[i]
      BY <1>7, LastFile
    <3> QED BY <1>3, <1>11, <2>2, <3>1
  <2>4. t.files[k] = [file |-> order[k], chunks |-> Numbered(order[k], later.chunk),
                      state |-> "open"]
    BY <1>4, <1>9, <1>10, <1>14, <2>3
  <2>5. later.chunk <= order[k].chunks /\ (order[k].bad = 0 \/ order[k].bad > later.chunk)
    BY <1>4, <1>9, <1>12, <1>13, <1>14
  <2>6. later.files = SubSeq(order, k, Len(order))
    BY <1>1, <1>3
  <2>7. \A i \in 1 .. (k - 1) : t.files[i] = Whole(order[i])
    BY <1>1, <1>3, <2>3
  <2>8. Reading(later, t)
    BY <2>2, <2>3, <2>4, <2>5, <2>6, <2>7 DEF Reading
  <2> QED BY <2>8 DEF t
<1>15. ASSUME breaks
       PROVE  ~push(s, c, breaks).decoding /\ Through(load, push(s, c, breaks))
  <2> DEFINE t == push(s, c, breaks)
             failed == [Received(s, c) EXCEPT !.state = "failed"]
  <2>1. t = [s EXCEPT !.files = WithLast(s, failed), !.decoding = FALSE]
    BY <1>7, <1>15 DEF push
  <2>2. t.files = WithLast(s, failed) /\ ~t.decoding
    BY <1>7, <2>1 DEF SessionType
  <2>3. failed \in Entry
    BY <1>11 DEF Entry
  <2>4. /\ Len(t.files) = k
        /\ t.files[k] = failed
        /\ \A i \in 1 .. (k - 1) : t.files[i] = s.files[i]
    BY <1>3, <1>7, <2>2, <2>3, LastFile
  <2>5. failed = Whole(f)
    <3>1. f.bad \in 1 .. f.chunks /\ f.bad = n + 1 /\ f.bad # 0
      BY <1>12, <1>13, <1>15
    <3>2. Whole(f) = [file |-> f, chunks |-> Numbered(f, n + 1), state |-> "failed"]
      BY <3>1 DEF Whole, Numbered
    <3> QED BY <1>10, <3>2
  <2> HIDE DEF t, failed
  <2>6. \A i \in 1 .. k : t.files[i] = Whole(order[i])
    BY <1>1, <1>3, <1>4, <2>4, <2>5
  <2>7. load.files = SubSeq(order, k, Len(order))
    BY <1>1, <1>3
  <2>8. Through(load, t)
    BY <2>4, <2>6, <2>7 DEF Through
  <2> QED BY <2>2, <2>8 DEF t
<1> QED BY <1>7, <1>14, <1>15

(* The end of a file in its turn, whole or found broken only then. *)
LEMMA ReadingEnd ==
  ASSUME NEW load \in LoadType, load.list \in Lists, NEW s, Sound(s), Reading(load, s),
         load.chunk = Head(load.files).chunks,
         NEW breaks \in Breaks(Last(s.files), Len(Last(s.files).chunks) + 1)
  PROVE  Through(load, endFile(s, breaks)) /\ breaks \in BOOLEAN
<1>1. PICK order \in byCaptureTime(load.list) :
        LET k == Len(s.files) IN
          /\ k \in 1 .. Len(order)
          /\ load.files = SubSeq(order, k, Len(order))
          /\ \A i \in 1 .. (k - 1) : s.files[i] = Whole(order[i])
          /\ s.files[k] = [file |-> order[k], chunks |-> Numbered(order[k], load.chunk),
                           state |-> "open"]
          /\ s.decoding
          /\ load.chunk <= order[k].chunks
          /\ order[k].bad = 0 \/ order[k].bad > load.chunk
  BY DEF Reading
<1>2. order \in Seq(Files) /\ Len(order) \in Nat \ {0}
  BY OrderType
<1>3. PICK k \in 1 .. Len(order) : k = Len(s.files)
  BY <1>1
<1>4. PICK f \in Files : f = order[k]
  BY <1>2, ElementOfSeq
<1>5. PICK n \in Nat : n = load.chunk
  BY DEF LoadType
<1>6. Head(load.files) = f
  BY <1>1, <1>2, <1>3, <1>4, SubSeqProperties, LenProperties
<1>7. s \in SessionType /\ s.files # <<>> /\ s.decoding
  BY <1>1 DEF Sound
<1>8. Last(s.files) = [file |-> f, chunks |-> Numbered(f, n), state |-> "open"]
  BY <1>1, <1>3, <1>4, <1>5, <1>7, LastFile
<1>9. n = f.chunks /\ f.bad \in Nat /\ (f.bad = 0 \/ f.bad = n + 1)
  <2>1. f \in File /\ f.bad <= f.chunks + 1
    BY FilesAssumption
  <2>2. n = f.chunks /\ (f.bad = 0 \/ f.bad > n)
    BY <1>1, <1>3, <1>4, <1>5, <1>6
  <2> QED BY <2>1, <2>2 DEF File
<1>10. breaks = (n + 1 = f.bad)
  <2>1. \A i \in 1 .. n : Numbered(f, n)[i] = [file |-> f, n |-> i]
    BY NumberedType
  <2>2. DOMAIN Numbered(f, n) = 1 .. n
    BY DEF Numbered
  <2>3. Len(Last(s.files).chunks) = n
    BY <1>8, NumberedType
  <2>4. Breaks(Last(s.files), n + 1) = {n + 1 = f.bad}
    BY <1>8, <2>1, <2>2 DEF Breaks
  <2> QED BY <2>3, <2>4
<1> DEFINE t == endFile(s, breaks)
           entry == [Last(s.files) EXCEPT !.state = IF breaks THEN "failed" ELSE "ended"]
<1>11. t = [s EXCEPT !.decoding = FALSE, !.files = WithLast(s, entry)]
  BY <1>7 DEF endFile
<1>12. t.files = WithLast(s, entry)
  BY <1>7, <1>11 DEF SessionType
<1>13. entry \in Entry
  BY <1>7, LastFile DEF Entry
<1>14. entry = Whole(f)
  <2>1. breaks <=> f.bad # 0
    <3>1. breaks <=> n + 1 = f.bad
      BY <1>10
    <3> QED BY <1>9, <3>1
  <2>2. entry = [file |-> f, chunks |-> Numbered(f, n),
                 state |-> IF f.bad = 0 THEN "ended" ELSE "failed"]
    BY <1>8, <2>1
  <2>3. (IF f.bad \in 1 .. f.chunks THEN f.bad ELSE f.chunks) = n
    BY <1>9
  <2>4. Whole(f) = [file |-> f, chunks |-> Numbered(f, n),
                    state |-> IF f.bad = 0 THEN "ended" ELSE "failed"]
    BY <2>3 DEF Whole, Numbered
  <2> QED BY <2>2, <2>4
<1> HIDE DEF t, entry
<1>15. /\ Len(t.files) = k
       /\ t.files[k] = entry
       /\ \A i \in 1 .. (k - 1) : t.files[i] = s.files[i]
  <2>1. /\ Len(WithLast(s, entry)) = Len(s.files)
        /\ WithLast(s, entry)[Len(s.files)] = entry
        /\ \A i \in 1 .. (Len(s.files) - 1) : WithLast(s, entry)[i] = s.files[i]
    BY <1>7, <1>13, LastFile
  <2> QED BY <1>3, <1>12, <2>1
<1>16. \A i \in 1 .. k : t.files[i] = Whole(order[i])
  BY <1>1, <1>3, <1>4, <1>14, <1>15
<1>17. load.files = SubSeq(order, k, Len(order))
  BY <1>1, <1>3
<1>18. Through(load, t)
  BY <1>15, <1>16, <1>17 DEF Through
<1> QED BY <1>10, <1>18 DEF t

(* With a file behind it the load goes on to the next, or is finished. *)
LEMMA PassesOn ==
  ASSUME NEW load \in LoadType, load.list \in Lists, NEW s, Sound(s), Through(load, s),
         NEW later \in LoadType, later.list = load.list, later.files = Tail(load.files)
  PROVE  /\ later.files # <<>> /\ later.chunk = 0
              => Reading(later, beginFile(s, later.files[1]))
         /\ later.files = <<>> => Finished(later, s)
<1>1. PICK order \in byCaptureTime(load.list) :
        LET k == Len(s.files) IN
          /\ k \in 1 .. Len(order)
          /\ load.files = SubSeq(order, k, Len(order))
          /\ \A i \in 1 .. k : s.files[i] = Whole(order[i])
  BY DEF Through
<1>2. order \in Seq(Files) /\ Len(order) \in Nat \ {0}
  BY OrderType
<1>3. PICK k \in 1 .. Len(order) : k = Len(s.files)
  BY <1>1
<1>4. PICK n \in Nat \ {0} : n = Len(order)
  BY <1>2
<1>5. k \in 1 .. n
  BY <1>3, <1>4
<1>6. later.files = SubSeq(order, k + 1, Len(order))
  <2>1. Len(order) \in k .. Len(order)
    BY <1>2
  <2>2. load.files = SubSeq(order, k, Len(order))
    BY <1>1, <1>3
  <2> QED BY <1>2, <2>1, <2>2, HeadTailOfSubSeq
<1>7. /\ Len(later.files) = Len(order) - k
      /\ k < Len(order) => later.files[1] = order[k + 1]
  <2>1. \A i \in (k + 1) .. Len(order) : order[i] \in Files
    BY <1>2, ElementOfSeq
  <2>2. k + 1 \in Int /\ Len(order) \in Int
    BY <1>2
  <2>3. /\ Len(SubSeq(order, k + 1, Len(order)))
             = IF k + 1 <= Len(order) THEN Len(order) - (k + 1) + 1 ELSE 0
        /\ \A i \in 1 .. (Len(order) - (k + 1) + 1) :
             SubSeq(order, k + 1, Len(order))[i] = order[(k + 1) + i - 1]
    BY <2>1, <2>2, SubSeqProperties
  <2>4. Len(later.files) = IF k + 1 <= n THEN n - (k + 1) + 1 ELSE 0
    BY <1>6, <1>4, <2>3
  <2>5. Len(later.files) = Len(order) - k
    BY <1>4, <1>5, <2>4
  <2>6. ASSUME k < Len(order)
        PROVE  later.files[1] = order[k + 1]
    <3>1. 1 \in 1 .. (Len(order) - (k + 1) + 1) /\ (k + 1) + 1 - 1 = k + 1
      BY <1>2, <2>6
    <3> QED BY <1>6, <2>3, <3>1
  <2> QED BY <2>5, <2>6
<1>8. s.files \in Seq(Entry)
  BY DEF Sound, SessionType
<1>9. ASSUME later.files # <<>>, later.chunk = 0
      PROVE  Reading(later, beginFile(s, later.files[1]))
  <2> DEFINE t == beginFile(s, later.files[1])
  <2>1. k + 1 \in 1 .. Len(order)
    <3>1. Len(later.files) \in Nat \ {0}
      BY <1>9, EmptySeq DEF LoadType
    <3>2. n - k \in Nat \ {0}
      BY <1>7, <1>4, <3>1
    <3>3. k + 1 \in 1 .. n
      BY <1>5, <3>2
    <3> QED BY <1>4, <3>3
  <2>2. PICK f \in Files : f = order[k + 1]
    BY <1>2, <2>1, ElementOfSeq
  <2>3. later.files[1] = f
    BY <1>2, <1>7, <2>1, <2>2
  <2> DEFINE entry == [file |-> f, chunks |-> <<>>, state |-> "open"]
  <2>4. entry \in Entry
    BY EmptySeq DEF Entry
  <2>5. t = [s EXCEPT !.files = Append(s.files, entry), !.decoding = TRUE]
    BY <2>3 DEF beginFile
  <2>6. t.files = Append(s.files, entry) /\ t.decoding
    BY <2>5 DEF Sound, SessionType
  <2>7. Numbered(f, 0) = <<>>
    BY NumberedType, EmptySeq
  <2> HIDE DEF t, entry
  <2>8. /\ Len(t.files) = k + 1
        /\ t.files[k + 1] = entry
        /\ \A i \in 1 .. k : t.files[i] = s.files[i]
    BY <1>3, <1>8, <2>4, <2>6, AppendProperties
  <2>9. t.files[k + 1] = [file |-> order[k + 1], chunks |-> Numbered(order[k + 1], later.chunk),
                          state |-> "open"]
    BY <1>9, <2>2, <2>7, <2>8 DEF entry
  <2>10. \A i \in 1 .. ((k + 1) - 1) : t.files[i] = Whole(order[i])
    BY <1>1, <1>3, <2>8
  <2>11. later.chunk <= order[k + 1].chunks
         /\ (order[k + 1].bad = 0 \/ order[k + 1].bad > later.chunk)
    BY <1>9, <2>2, FilesAssumption DEF File
  <2>12. Reading(later, t)
    BY <1>6, <2>1, <2>6, <2>8, <2>9, <2>10, <2>11 DEF Reading
  <2> QED BY <2>12 DEF t
<1>10. ASSUME later.files = <<>>
      PROVE  Finished(later, s)
  <2>1. Len(s.files) = Len(order)
    <3>1. Len(later.files) = 0
      BY <1>10, EmptySeq
    <3>2. n - k = 0
      BY <1>7, <1>4, <3>1
    <3>3. k = n
      BY <1>5, <3>2
    <3> QED BY <1>3, <1>4, <3>3
  <2> QED BY <1>1, <2>1 DEF Finished
<1> QED BY <1>9, <1>10

-----------------------------------------------------------------------------
(* A nonempty set of finite sets has one that none of the others is part of. *)
LEMMA LeastSet ==
  ASSUME NEW S, NEW T \in SUBSET FiniteSubsetsOf(S), T # {}
  PROVE  \E L \in T : \A K \in T : K \subseteq L => K = L
<1>1. PICK L \in T : \A K \in T : ~(<<K, L>> \in StrictSubsetOrdering(S))
  BY FS_StrictSubsetOrderingWellFounded, WFMin
<1>2. \A K \in T : K \subseteq L => K = L
  BY <1>1 DEF StrictSubsetOrdering, FiniteSubsetsOf
<1> QED BY <1>2

Stamped(list) == list \in FiniteSubsetsOf(Files) /\ \A f \in list : f.stamp # 0

(* Among files that all carry a time the comparison is a total order. *)
LEMMA StampedOrder ==
  ASSUME NEW list, Stamped(list), NEW f \in list, NEW g \in list
  PROVE  /\ f # g => Before(f, g) \/ Before(g, f)
         /\ \A h \in list : Before(f, g) /\ Before(g, h) => Before(f, h)
         /\ Before(f, g) => f.stamp <= g.stamp
<1>1. \A h \in list : h \in Files /\ h.stamp \in Nat /\ h.name \in Nat /\ h.stamp # 0
  BY FilesAssumption DEF Stamped, FiniteSubsetsOf, File
<1>2. f # g => f.name # g.name
  BY <1>1, FilesAssumption
<1> QED BY <1>1, <1>2 DEF Before

(* One of them comes last. *)
LEMMA LastFileOfList ==
  ASSUME NEW list, Stamped(list), list # {}
  PROVE  \E m \in list : \A f \in list \ {m} : Before(f, m)
<1> DEFINE HasLast(K) == \E m \in K : \A f \in K \ {m} : Before(f, m)
           T == {K \in FiniteSubsetsOf(Files) : Stamped(K) /\ K # {} /\ ~HasLast(K)}
<1>1. SUFFICES T = {}
  BY DEF Stamped
<1>2. SUFFICES ASSUME T # {} PROVE FALSE
  OBVIOUS
<1>3. PICK L \in T : \A K \in T : K \subseteq L => K = L
  <2>1. T \in SUBSET FiniteSubsetsOf(Files)
    OBVIOUS
  <2> HIDE DEF T
  <2> QED BY <1>2, <2>1, LeastSet
<1>4. PICK x : x \in L
  BY DEF T
<1> DEFINE K == L \ {x}
<1>5. Stamped(L) /\ L \in FiniteSubsetsOf(Files) /\ ~HasLast(L)
  BY DEF T
<1>6. K \in FiniteSubsetsOf(Files) /\ Stamped(K)
  <2>1. IsFiniteSet(K)
    BY <1>5, FS_RemoveElement DEF FiniteSubsetsOf
  <2> QED BY <1>5, <2>1 DEF FiniteSubsetsOf, Stamped
<1>7. CASE K = {}
  <2>1. \A f \in L \ {x} : Before(f, x)
    BY <1>7
  <2> QED BY <1>4, <1>5, <2>1
<1>8. CASE K # {}
  <2>1. K \notin T
    BY <1>3, <1>4
  <2>2. HasLast(K)
    BY <1>6, <1>8, <2>1
  <2>3. PICK m \in K : \A f \in K \ {m} : Before(f, m)
    BY <2>2
  <2>4. CASE Before(x, m)
    <3>1. \A f \in L \ {m} : Before(f, m)
      BY <2>3, <2>4
    <3> QED BY <1>5, <2>3, <3>1
  <2>5. CASE Before(m, x)
    <3>1. ASSUME NEW f \in L \ {x} PROVE Before(f, x)
      <4>1. CASE f = m
        BY <2>5, <4>1
      <4>2. CASE f # m
        <5>1. Before(f, m)
          BY <2>3, <4>2
        <5>2. f \in L /\ m \in L
          BY <2>3
        <5> QED BY <1>4, <1>5, <2>5, <5>1, <5>2, StampedOrder
      <4> QED BY <4>1, <4>2
    <3> QED BY <1>4, <1>5, <3>1
  <2>6. x # m /\ m \in L
    BY <2>3
  <2> QED BY <1>4, <1>5, <2>4, <2>5, <2>6, StampedOrder
<1> QED BY <1>7, <1>8

(* So they can be sorted. *)
Sorts(list, s) ==
  s \in SetToSeqs(list) /\ \A i, j \in DOMAIN s : i < j => Before(s[i], s[j])

LEMMA SortedOrderExists ==
  ASSUME NEW list, Stamped(list)
  PROVE  \E s : Sorts(list, s)
<1> DEFINE T == {K \in FiniteSubsetsOf(Files) : Stamped(K) /\ ~\E s : Sorts(K, s)}
<1>1. SUFFICES T = {}
  BY DEF Stamped
<1>2. SUFFICES ASSUME T # {} PROVE FALSE
  OBVIOUS
<1>3. PICK L \in T : \A K \in T : K \subseteq L => K = L
  <2>1. T \in SUBSET FiniteSubsetsOf(Files)
    OBVIOUS
  <2> HIDE DEF T
  <2> QED BY <1>2, <2>1, LeastSet
<1>4. Stamped(L) /\ IsFiniteSet(L) /\ L \subseteq Files /\ ~\E s : Sorts(L, s)
  BY DEF FiniteSubsetsOf
<1>5. L # {}
  <2>1. ASSUME L = {} PROVE FALSE
    <3>1. Cardinality(L) = 0
      BY <2>1, FS_EmptySet
    <3>2. <<>> \in SetToSeqs(L)
      BY <3>1 DEF SetToSeqs
    <3>3. Sorts(L, <<>>)
      BY <3>2 DEF Sorts
    <3> QED BY <1>4, <3>3
  <2> QED BY <2>1
<1>6. PICK m \in L : \A f \in L \ {m} : Before(f, m)
  BY <1>4, <1>5, LastFileOfList
<1> DEFINE K == L \ {m}
<1>7. IsFiniteSet(K) /\ Cardinality(K) = Cardinality(L) - 1 /\ Cardinality(L) \in Nat \ {0}
  BY <1>4, <1>5, FS_RemoveElement, FS_CardinalityType, FS_EmptySet
<1>8. K \in FiniteSubsetsOf(Files) /\ Stamped(K)
  BY <1>4, <1>7 DEF FiniteSubsetsOf, Stamped
<1>9. PICK t : Sorts(K, t)
  <2>1. K \notin T
    BY <1>3, <1>6
  <2> QED BY <1>8, <2>1
<1> HIDE DEF T, K
<1>10. PICK n \in Nat : n = Cardinality(K)
  BY <1>7
<1>11. /\ t \in [1 .. n -> K]
       /\ \A i, j \in 1 .. n : i # j => t[i] # t[j]
       /\ \A i, j \in 1 .. n : i < j => Before(t[i], t[j])
  BY <1>9, <1>10 DEF Sorts, SetToSeqs
<1>12. t \in Seq(K) /\ Len(t) = n
  BY <1>11, IsASeq, LenProperties
<1> DEFINE s == [i \in 1 .. (n + 1) |-> IF i <= n THEN t[i] ELSE m]
<1>13. K \subseteq L /\ m \in L /\ m \notin K
  BY <1>6 DEF K
<1>14. s \in [1 .. (n + 1) -> L]
  BY <1>11, <1>13
<1>15. \A i, j \in 1 .. (n + 1) : i # j => s[i] # s[j]
  BY <1>11, <1>13
<1>16. ASSUME NEW i \in 1 .. (n + 1), NEW j \in 1 .. (n + 1), i < j
       PROVE  Before(s[i], s[j])
  <2>1. i \in 1 .. n /\ t[i] \in K /\ s[i] = t[i]
    BY <1>11, <1>16
  <2>2. CASE j <= n
    BY <1>11, <1>16, <2>1, <2>2
  <2>3. CASE j = n + 1
    <3>1. s[j] = m
      BY <2>3
    <3> QED BY <1>6, <2>1, <3>1 DEF K
  <2> QED BY <2>2, <2>3
<1>17. Cardinality(L) = n + 1
  BY <1>7, <1>10
<1> HIDE DEF s
<1>18. Sorts(L, s)
  <2>1. DOMAIN s = 1 .. (n + 1)
    BY <1>14
  <2> QED BY <1>14, <1>15, <1>16, <1>17, <2>1 DEF Sorts, SetToSeqs
<1> QED BY <1>4, <1>18

(* What a finished session holds is what ArchiveShownIsWhole says. *)
LEMMA FinishedIsWhole ==
  ASSUME NEW load \in LoadType, load.list \in Lists, NEW s, Sound(s), Finished(load, s)
  PROVE  LET files == s.files
             list == load.list
         IN /\ {files[i].file : i \in DOMAIN files} = list /\ Len(files) = Cardinality(list)
            /\ \A i \in DOMAIN files : files[i] = Whole(files[i].file)
            /\ (\A f \in list : f.stamp # 0) =>
                 \A i, j \in DOMAIN files : i < j => files[i].file.stamp <= files[j].file.stamp
<1> DEFINE files == s.files
           list == load.list
<1>1. PICK order \in byCaptureTime(list) :
        /\ Len(files) = Len(order)
        /\ \A i \in 1 .. Len(order) : files[i] = Whole(order[i])
  BY DEF Finished
<1>2. /\ order \in [1 .. Len(order) -> list]
      /\ Len(order) = Cardinality(list)
      /\ Range(order) = list
  BY OrderType
<1>3. DOMAIN files = 1 .. Len(order)
  BY <1>1, LenProperties DEF Sound, SessionType
<1>4. \A f : Whole(f).file = f
  BY DEF Whole
<1>5. \A i \in DOMAIN files : files[i].file = order[i]
  BY <1>1, <1>3, <1>4
<1>6. {files[i].file : i \in DOMAIN files} = list
  <2>1. DOMAIN order = DOMAIN files
    BY <1>2, <1>3
  <2>2. {files[i].file : i \in DOMAIN files} = {order[i] : i \in DOMAIN order}
    BY <1>5, <2>1
  <2> QED BY <1>2, <2>2 DEF Range
<1>7. \A i \in DOMAIN files : files[i] = Whole(files[i].file)
  BY <1>1, <1>3, <1>5
<1>8. ASSUME \A f \in list : f.stamp # 0,
             NEW i \in DOMAIN files, NEW j \in DOMAIN files, i < j
      PROVE  files[i].file.stamp <= files[j].file.stamp
  <2>1. Stamped(list)
    BY <1>8, FilesAssumption DEF Stamped, FiniteSubsetsOf
  <2>2. PICK t : Sorts(list, t)
    BY <2>1, SortedOrderExists
  <2>3. t \in {u \in SetToSeqs(list) : \A a, b \in DOMAIN u : a < b => Before(u[a], u[b])}
    BY <2>2 DEF Sorts
  <2>4. \A a, b \in DOMAIN order : a < b => Before(order[a], order[b])
    BY <2>3 DEF byCaptureTime
  <2>5. Before(order[i], order[j]) /\ order[i] \in list /\ order[j] \in list
    BY <1>2, <1>3, <1>8, <2>4
  <2> QED BY <1>5, <2>1, <2>5, StampedOrder
<1> QED BY <1>1, <1>2, <1>6, <1>7, <1>8

-----------------------------------------------------------------------------
(* The loader's part of the invariant, and what a step of the loader does to
   the archive on screen. *)
LoaderInv ==
  /\ page \in PageType
  /\ loads \in [Loads -> LoadType]
  /\ panics \in Nat
  /\ crowded \subseteq Loads
  /\ Retired(page)
  /\ Opened(page, loads)
  /\ Undisturbed(page, loads, crowded)

Painted ==
  "app" \in page'.shown =>
    /\ page'.session = page.session
    /\ \/ "app" \in page.shown
       \/ \E l \in Loads : loads[l].pc # "done" /\ loads'[l].pc = "done"

LEMMA PanicsCounted ==
  ASSUME panics \in Nat, NEW p, Panicked(p)
  PROVE  panics' \in Nat
<1> DEFINE hit == {l \in Loads : page.sessions[l].health = "ok" /\ p.sessions[l].health # "ok"}
<1>1. IsFiniteSet(Loads)
  BY BoundsAssumption, FS_Interval DEF Loads
<1>2. Cardinality(hit) \in Nat
  BY <1>1, FS_Subset, FS_CardinalityType
<1> QED BY <1>2 DEF Panicked

(* A load that goes on, the page having followed. *)
LEMMA GoesStep ==
  ASSUME LoaderInv, NEW l \in Loads, loads[l].pc = "reading",
         NEW pc \in {"reading", "yielding", "done", "dead", "thrown", "unreadable"},
         NEW files \in Seq(Files), NEW chunk \in Nat,
         Goes(l, page', pc, files, chunk), UNCHANGED crowded,
         Follows(page, page'),
         pc \in {"reading", "yielding"} /\ ~page'.dead => files # <<>>,
         page.session = l /\ l \notin crowded /\ ~page'.dead =>
           /\ pc \in {"reading", "yielding", "done", "unreadable"}
           /\ pc \in {"reading", "yielding"} => Reading(loads'[l], Session(page'))
           /\ pc = "done" => Finished(loads'[l], Session(page'))
           /\ "app" \in page'.shown => pc = "done"
  PROVE  /\ LoaderInv'
         /\ loads'[l] = [loads[l] EXCEPT !.pc = IF page'.dead THEN "dead" ELSE pc,
                                         !.files = files, !.chunk = chunk]
<1> DEFINE load == [loads[l] EXCEPT !.pc = IF page'.dead THEN "dead" ELSE pc,
                                    !.files = files, !.chunk = chunk]
<1>1. loads \in [Loads -> LoadType] /\ Retired(page) /\ Opened(page, loads)
      /\ Undisturbed(page, loads, crowded)
  BY DEF LoaderInv
<1>2. loads' = [loads EXCEPT ![l] = load]
  BY <1>1 DEF Goes, LoadType
<1>3. /\ load \in LoadType /\ load.list = loads[l].list /\ load.files = files
      /\ load.pc = IF page'.dead THEN "dead" ELSE pc
  BY <1>1 DEF LoadType
<1> HIDE DEF load
<1>4. /\ loads' \in [Loads -> LoadType] /\ loads'[l] = load
      /\ \A m \in Loads : m # l => loads'[m] = loads[m]
  BY <1>1, <1>2, <1>3
<1>5. panics' \in Nat
  BY PanicsCounted DEF Goes, LoaderInv
<1>6. Retired(page') /\ page' \in PageType /\ page'.session = page.session
  BY DEF Follows, Retired
<1>7. Opened(page', loads')
  <2>1. \A m \in Loads : loads'[m].pc = "none" => loads[m].pc = "none" /\ m # l /\ m # page.session
    BY <1>1, <1>3, <1>4, BoundsAssumption DEF Opened, Loads
  <2>2. \A m \in Loads : loads'[m].pc = "none" => page'.sessions[m] = NewSession
    BY <1>1, <2>1 DEF Follows, Opened
  <2>3. \A m \in Loads : loads'[m].pc \in {"reading", "yielding"} => loads'[m].files # <<>>
    BY <1>1, <1>3, <1>4 DEF Opened
  <2>4. page.session # 0 => page.session \in Loads
    BY <1>1, SessionInPlace
  <2>5. page'.session # 0 => loads'[page'.session].pc # "none"
    BY <1>1, <1>3, <1>4, <1>6, <2>4 DEF Opened
  <2>6. \A m \in Loads : page'.session # 0 /\ loads'[m].pc # "none" => m <= page'.session
    BY <1>1, <1>4, <1>6 DEF Opened
  <2> QED BY <1>4, <2>2, <2>3, <2>5, <2>6 DEF Opened
<1>8. Undisturbed(page', loads', crowded)
  <2> SUFFICES ASSUME page.session # 0, page.session \notin crowded, ~page'.dead
               PROVE  LET later == loads'[page.session] IN
                        /\ \A m \in Loads : loads'[m].pc \in {"reading", "yielding"} => m = page.session
                        /\ later.list \in Lists
                        /\ later.pc \in {"reading", "yielding", "done", "unreadable"}
                        /\ later.pc \in {"reading", "yielding"} => Reading(later, Session(page'))
                        /\ later.pc = "done" => Finished(later, Session(page'))
                        /\ "app" \in page'.shown => later.pc = "done"
    BY <1>6 DEF Undisturbed
  <2>1. ~page.dead
    BY DEF Follows
  <2>2. /\ \A m \in Loads : loads[m].pc \in {"reading", "yielding"} => m = page.session
        /\ loads[page.session].list \in Lists
    BY <1>1, <2>1 DEF Undisturbed
  <2>3. page.session = l
    BY <2>2
  <2>4. \A m \in Loads : loads'[m].pc \in {"reading", "yielding"} => m = page.session
    BY <1>4, <2>2, <2>3
  <2>5. loads'[l].pc = pc /\ loads'[l].list \in Lists
    BY <1>3, <1>4, <2>2, <2>3
  <2> QED BY <2>3, <2>4, <2>5
<1>9. crowded' \subseteq Loads
  BY DEF LoaderInv
<1> QED BY <1>4, <1>5, <1>6, <1>7, <1>8, <1>9 DEF LoaderInv, load

(* The two ways a file comes to its end agree on what the load makes of it. *)
LEMMA FileOverStep ==
  ASSUME LoaderInv, NEW l \in Loads, loads[l].pc = "reading",
         NEW p, Follows(page, p), ~p.dead => p.shown = page.shown,
         NEW panic, NEW breaks \in BOOLEAN,
         NextFile(l, p, panic, breaks), UNCHANGED crowded,
         page.session = l /\ l \notin crowded /\ ~p.dead =>
           Through(loads[l], endFile(Session(p), breaks))
  PROVE  LoaderInv' /\ Painted
<1>1. /\ loads \in [Loads -> LoadType] /\ Retired(page) /\ Opened(page, loads)
      /\ Undisturbed(page, loads, crowded)
  BY DEF LoaderInv
<1>2. loads[l] \in LoadType /\ loads[l].files # <<>>
  BY <1>1 DEF Opened
<1>3. PICK pc, files, chunk :
        /\ Goes(l, page', pc, files, chunk)
        /\ Follows(page, page') /\ Follows(p, page')
        /\ \/ pc = "thrown" /\ page'.session = 0 /\ ~page'.dead /\ page'.shown = page.shown
              /\ files = <<>> /\ chunk = 0
           \/ pc \in {"dead", "reading", "done"} /\ page'.dead /\ files \in Seq(Files) /\ chunk = 0
           \/ /\ pc = "reading" /\ page'.session # 0 /\ ~page'.dead /\ page'.shown = page.shown
              /\ files = Tail(loads[l].files) /\ files # <<>> /\ chunk = 0
              /\ Session(page') = beginFile(endFile(Session(p), breaks), files[1])
           \/ /\ pc = "done" /\ page'.session # 0 /\ ~page'.dead
              /\ page'.shown = (page.shown \ {"load"}) \cup {"app", "tabs"}
              /\ Tail(loads[l].files) = <<>> /\ files = <<>> /\ chunk = 0
              /\ Session(page') = endFile(Session(p), breaks)
  BY <1>1, <1>2, NextFileStep
<1>4. /\ pc \in {"reading", "yielding", "done", "dead", "thrown", "unreadable"}
      /\ files \in Seq(Files) /\ chunk \in Nat
      /\ pc \in {"reading", "yielding"} /\ ~page'.dead => files # <<>>
  <2>1. <<>> \in Seq(Files) /\ Tail(loads[l].files) \in Seq(Files)
    BY <1>2, EmptySeq, HeadTailProperties DEF LoadType
  <2>2. files \in Seq(Files) /\ chunk = 0
    BY <1>3, <2>1
  <2>3. pc \in {"reading", "done", "dead", "thrown"}
    BY <1>3
  <2>4. pc = "reading" /\ ~page'.dead => files # <<>>
    BY <1>3
  <2>5. pc # "yielding"
    BY <2>3
  <2> QED BY <2>2, <2>3, <2>4, <2>5
<1> DEFINE later == [loads[l] EXCEPT !.pc = IF page'.dead THEN "dead" ELSE pc,
                                     !.files = files, !.chunk = chunk]
<1>5. loads'[l] = later
  BY <1>1, <1>3 DEF Goes, LoadType
<1>6. ASSUME page.session = l, l \notin crowded, ~page'.dead
      PROVE  /\ pc \in {"reading", "yielding", "done", "unreadable"}
             /\ pc \in {"reading", "yielding"} => Reading(later, Session(page'))
             /\ pc = "done" => Finished(later, Session(page'))
             /\ "app" \in page'.shown => pc = "done"
  <2>1. l # 0 /\ p.session = l /\ page'.session = l /\ ~p.dead /\ ~page.dead
    BY <1>3, <1>6, BoundsAssumption DEF Follows, Loads
  <2>2. Through(loads[l], endFile(Session(p), breaks)) /\ loads[l].list \in Lists
        /\ "app" \notin page.shown
    BY <1>1, <1>6, <2>1 DEF Undisturbed
  <2>3. Sound(endFile(Session(p), breaks))
    BY <2>1, SessionInPlace, EndFileType DEF Follows
  <2>4. later \in LoadType /\ later.list = loads[l].list /\ later.files = files /\ later.chunk = chunk
    BY <1>2, <1>4 DEF LoadType
  <2> HIDE DEF later
  <2>5. CASE pc = "reading"
    <3>1. /\ page'.shown = page.shown /\ files = Tail(loads[l].files) /\ files # <<>> /\ chunk = 0
          /\ Session(page') = beginFile(endFile(Session(p), breaks), files[1])
      BY <1>3, <1>6, <2>5
    <3>2. Reading(later, beginFile(endFile(Session(p), breaks), later.files[1]))
      BY <1>2, <2>2, <2>3, <2>4, <3>1, PassesOn
    <3> QED BY <2>2, <2>4, <2>5, <3>1, <3>2
  <2>6. CASE pc = "done"
    <3>1. /\ Tail(loads[l].files) = <<>> /\ files = <<>>
          /\ Session(page') = endFile(Session(p), breaks)
      BY <1>3, <1>6, <2>6
    <3>2. Finished(later, endFile(Session(p), breaks))
      BY <1>2, <2>2, <2>3, <2>4, <3>1, PassesOn
    <3> QED BY <2>6, <3>1, <3>2
  <2> QED BY <1>3, <1>6, <2>1, <2>5, <2>6
<1> HIDE DEF later
<1>7. page.session = l /\ l \notin crowded /\ ~page'.dead =>
        /\ pc \in {"reading", "yielding", "done", "unreadable"}
        /\ pc \in {"reading", "yielding"} => Reading(loads'[l], Session(page'))
        /\ pc = "done" => Finished(loads'[l], Session(page'))
        /\ "app" \in page'.shown => pc = "done"
  BY <1>5, <1>6
<1>8. LoaderInv'
  <2>1. Goes(l, page', pc, files, chunk) /\ Follows(page, page')
    BY <1>3
  <2> QED BY <1>4, <1>7, <2>1, GoesStep
<1>9. Painted
  <2> SUFFICES ASSUME "app" \in page'.shown, "app" \notin page.shown
               PROVE  loads[l].pc # "done" /\ loads'[l].pc = "done"
    BY <1>3 DEF Painted, Follows
  <2>1. ~page'.dead
    BY <1>8 DEF LoaderInv, Retired
  <2>2. pc = "done"
    BY <1>3, <2>1
  <2> QED BY <1>2, <1>5, <2>1, <2>2 DEF LoadType, later
<1> QED BY <1>8, <1>9

LEMMA ReadEndStep ==
  ASSUME LoaderInv, NEW l \in Loads, ReadEnd(l)
  PROVE  LoaderInv' /\ Painted
<1>1. loads[l].pc = "reading" /\ loads[l].chunk = Head(loads[l].files).chunks
      /\ UNCHANGED crowded
  BY DEF ReadEnd
<1>2. PICK panic \in Panicking, breaks \in Outcomes(page) : NextFile(l, page, panic, breaks)
  BY DEF ReadEnd
<1>3. breaks \in BOOLEAN
  BY DEF Outcomes, Breaks
<1>4. Retired(page) /\ Follows(page, page)
  BY FollowsItself DEF LoaderInv
<1>5. ASSUME page.session = l, l \notin crowded, ~page.dead
      PROVE  Through(loads[l], endFile(Session(page), breaks))
  <2>1. page.session # 0
    BY <1>5, BoundsAssumption DEF Loads
  <2>2. loads[l].list \in Lists /\ Reading(loads[l], Session(page)) /\ loads[l] \in LoadType
    BY <1>1, <1>5, <2>1 DEF LoaderInv, Undisturbed
  <2>3. Sound(Session(page))
    BY <1>4, <2>1, SessionInPlace
  <2>4. Session(page).files # <<>>
    BY <2>2, <2>3 DEF Reading, Sound
  <2>5. breaks \in Breaks(Last(Session(page).files), Len(Last(Session(page).files).chunks) + 1)
    BY <2>1, <2>4 DEF Outcomes
  <2> QED BY <1>1, <2>2, <2>3, <2>5, ReadingEnd
<1> QED BY <1>1, <1>2, <1>3, <1>4, <1>5, FileOverStep

LEMMA ReadChunkStep ==
  ASSUME LoaderInv, NEW l \in Loads, ReadChunk(l)
  PROVE  LoaderInv' /\ Painted
<1> DEFINE c == [file |-> Head(loads[l].files), n |-> loads[l].chunk + 1]
<1>1. loads[l].pc = "reading" /\ loads[l].chunk < Head(loads[l].files).chunks
      /\ UNCHANGED crowded
  BY DEF ReadChunk
<1>2. PICK panic \in Panicking, breaks \in OutcomesWith(page, c) :
        LET pushed == call(page, panic = "push", push(Session(page), c, breaks))
            failed == \/ Throws(page)
                      \/ ~pushed.dead /\ Session(page).decoding /\ breaks
        IN  IF failed
            THEN NextFile(l, pushed, panic, FALSE)
            ELSE \E pc \in {"reading", "yielding"} : Goes(l, pushed, pc, loads[l].files, c.n)
  BY DEF ReadChunk
<1> DEFINE pushed == call(page, panic = "push", push(Session(page), c, breaks))
           failed == \/ Throws(page)
                     \/ ~pushed.dead /\ Session(page).decoding /\ breaks
<1>3. breaks \in BOOLEAN
  BY DEF OutcomesWith, Breaks
<1>4. Retired(page) /\ loads[l] \in LoadType /\ loads[l].files # <<>>
  BY <1>1 DEF LoaderInv, Opened
<1>5. c \in Chunk
  BY <1>4, HeadTailProperties DEF LoadType, Chunk
<1>6. page.session # 0 /\ ~page.dead =>
        /\ Sound(push(Session(page), c, breaks))
        /\ push(Session(page), c, breaks).health = Session(page).health
  BY <1>3, <1>4, <1>5, SessionInPlace, PushType
<1>7. /\ Follows(page, pushed)
      /\ ~pushed.dead => pushed.shown = page.shown
      /\ ~pushed.dead /\ page.session # 0 => Session(pushed) = push(Session(page), c, breaks)
  BY <1>4, <1>6, CallStep
<1> HIDE DEF pushed
<1>8. ASSUME page.session = l, l \notin crowded, ~pushed.dead,
             NEW later \in LoadType, later.list = loads[l].list, later.files = loads[l].files
      PROVE  /\ Session(pushed) = push(Session(page), c, breaks)
             /\ Session(page).decoding /\ "app" \notin page.shown
             /\ ~breaks /\ later.chunk = c.n => Reading(later, push(Session(page), c, breaks))
             /\ breaks => /\ ~push(Session(page), c, breaks).decoding
                          /\ Through(loads[l], push(Session(page), c, breaks))
  <2>1. page.session # 0 /\ ~page.dead
    BY <1>7, <1>8, BoundsAssumption DEF Loads, Follows
  <2>2. loads[l].list \in Lists /\ Reading(loads[l], Session(page)) /\ "app" \notin page.shown
    BY <1>1, <1>8, <2>1 DEF LoaderInv, Undisturbed
  <2>3. Sound(Session(page))
    BY <1>4, <2>1, SessionInPlace
  <2>4. Session(page).files # <<>>
    BY <2>2, <2>3 DEF Reading, Sound
  <2>5. breaks \in Breaks(Received(Session(page), c), Len(Received(Session(page), c).chunks))
    BY <2>1, <2>4 DEF OutcomesWith
  <2>6. Session(pushed) = push(Session(page), c, breaks)
    BY <1>7, <1>8, <2>1
  <2> HIDE DEF c
  <2>7. c = [file |-> Head(loads[l].files), n |-> loads[l].chunk + 1]
    BY DEF c
  <2> QED BY <1>1, <1>4, <1>8, <2>2, <2>3, <2>5, <2>6, <2>7, ReadingChunk
<1>9. CASE failed
  <2>1. NextFile(l, pushed, panic, FALSE)
    BY <1>2, <1>9 DEF pushed
  <2>2. ASSUME page.session = l, l \notin crowded, ~pushed.dead
        PROVE  Through(loads[l], endFile(Session(pushed), FALSE))
    <3>1. ~Throws(page) /\ breaks
      BY <1>9, <2>2, BoundsAssumption DEF Throws, Loads
    <3>2. /\ Session(pushed) = push(Session(page), c, breaks)
          /\ ~push(Session(page), c, breaks).decoding
          /\ Through(loads[l], push(Session(page), c, breaks))
      BY <1>4, <1>8, <2>2, <3>1
    <3>3. endFile(Session(pushed), FALSE) = Session(pushed)
      BY <3>2 DEF endFile
    <3> QED BY <3>2, <3>3
  <2> QED BY <1>1, <1>7, <2>1, <2>2, FileOverStep
<1>10. CASE ~failed
  <2>1. PICK pc \in {"reading", "yielding"} : Goes(l, pushed, pc, loads[l].files, c.n)
    BY <1>2, <1>10 DEF pushed
  <2>2. page' = pushed
    BY <2>1 DEF Goes
  <2>3. loads[l].files \in Seq(Files) /\ c.n \in Nat
    BY <1>4 DEF LoadType
  <2> DEFINE later == [loads[l] EXCEPT !.pc = IF page'.dead THEN "dead" ELSE pc,
                                       !.files = loads[l].files, !.chunk = c.n]
  <2>4. loads'[l] = later
    BY <2>1, <2>2 DEF Goes, LoaderInv, LoadType
  <2>5. later \in LoadType /\ later.list = loads[l].list /\ later.files = loads[l].files
        /\ later.chunk = c.n
    BY <1>4, <2>3 DEF LoadType
  <2> HIDE DEF later, c
  <2>6. ASSUME page.session = l, l \notin crowded, ~page'.dead
        PROVE  Reading(later, Session(page')) /\ "app" \notin page'.shown
    <3>1. page.session # 0
      BY <2>6, BoundsAssumption DEF Loads
    <3>2. /\ Session(pushed) = push(Session(page), c, breaks)
          /\ Session(page).decoding /\ "app" \notin page.shown
          /\ ~breaks => Reading(later, push(Session(page), c, breaks))
      BY <1>8, <2>2, <2>5, <2>6
    <3>3. ~breaks
      BY <1>10, <2>2, <2>6, <3>2
    <3> QED BY <1>7, <2>2, <2>6, <3>2, <3>3
  <2>7. LoaderInv'
    BY <1>1, <1>4, <1>7, <2>1, <2>2, <2>3, <2>4, <2>6, GoesStep
  <2>8. Painted
    <3>1. "app" \in page'.shown => ~page'.dead
      BY <2>7 DEF LoaderInv, Retired
    <3> QED BY <1>7, <2>2, <3>1 DEF Painted, Follows
  <2> QED BY <2>7, <2>8
<1> QED BY <1>9, <1>10

LEMMA ReadFailsStep ==
  ASSUME LoaderInv, NEW l \in Loads, ReadFails(l)
  PROVE  LoaderInv' /\ Painted
<1>1. loads[l].pc = "reading" /\ Goes(l, page, "unreadable", <<>>, 0) /\ UNCHANGED crowded
  BY DEF ReadFails
<1>2. page' = page
  BY <1>1 DEF Goes
<1>3. Retired(page) /\ Follows(page, page) /\ <<>> \in Seq(Files)
  BY FollowsItself, EmptySeq DEF LoaderInv
<1>4. page.session = l /\ l \notin crowded /\ ~page.dead => "app" \notin page.shown
  BY <1>1, BoundsAssumption DEF LoaderInv, Undisturbed, Loads
<1>5. LoaderInv'
  BY <1>1, <1>2, <1>3, <1>4, GoesStep
<1> QED BY <1>2, <1>5 DEF Painted

LEMMA YieldOverStep ==
  ASSUME LoaderInv, NEW l \in Loads, YieldOver(l)
  PROVE  LoaderInv' /\ Painted
<1>1. /\ loads \in [Loads -> LoadType] /\ Opened(page, loads)
      /\ Undisturbed(page, loads, crowded)
  BY DEF LoaderInv
<1>2. /\ loads[l].pc = "yielding" /\ page' = page /\ UNCHANGED <<panics, crowded>>
      /\ loads' = [loads EXCEPT ![l] = [loads[l] EXCEPT !.pc = "reading"]]
  BY DEF YieldOver
<1> DEFINE later == [loads[l] EXCEPT !.pc = "reading"]
<1>3. /\ later \in LoadType /\ later.list = loads[l].list /\ later.files = loads[l].files
      /\ later.chunk = loads[l].chunk /\ later.pc = "reading"
  BY <1>1 DEF LoadType
<1>4. loads' = [loads EXCEPT ![l] = later]
  BY <1>2
<1> HIDE DEF later
<1>5. /\ loads' \in [Loads -> LoadType] /\ loads'[l] = later
      /\ \A m \in Loads : m # l => loads'[m] = loads[m]
  BY <1>1, <1>3, <1>4
<1>6. Opened(page, loads')
  <2>1. page.session # 0 => page.session \in Loads
    BY SessionInPlace DEF LoaderInv
  <2>2. \A m \in Loads : loads'[m].pc = "none" <=> loads[m].pc = "none"
    BY <1>2, <1>3, <1>5
  <2>3. \A m \in Loads : loads'[m].pc \in {"reading", "yielding"} => loads'[m].files # <<>>
    BY <1>1, <1>2, <1>3, <1>5 DEF Opened
  <2> QED BY <1>1, <1>5, <2>1, <2>2, <2>3 DEF Opened
<1>7. Undisturbed(page, loads', crowded)
  <2> SUFFICES ASSUME page.session # 0, page.session \notin crowded, ~page.dead
               PROVE  LET load == loads'[page.session] IN
                        /\ \A m \in Loads : loads'[m].pc \in {"reading", "yielding"} => m = page.session
                        /\ load.list \in Lists
                        /\ load.pc \in {"reading", "yielding", "done", "unreadable"}
                        /\ load.pc \in {"reading", "yielding"} => Reading(load, Session(page))
                        /\ load.pc = "done" => Finished(load, Session(page))
                        /\ "app" \in page.shown => load.pc = "done"
    BY DEF Undisturbed
  <2>1. /\ page.session = l /\ Reading(loads[l], Session(page)) /\ loads[l].list \in Lists
        /\ \A m \in Loads : loads[m].pc \in {"reading", "yielding"} => m = page.session
        /\ "app" \notin page.shown
    BY <1>1, <1>2 DEF Undisturbed
  <2>2. Reading(later, Session(page))
    BY <1>3, <2>1 DEF Reading
  <2> QED BY <1>3, <1>5, <2>1, <2>2
<1>8. LoaderInv'
  BY <1>2, <1>5, <1>6, <1>7 DEF LoaderInv
<1> QED BY <1>2, <1>8 DEF Painted

LEMMA ClearStep ==
  ASSUME LoaderInv, Clear
  PROVE  LoaderInv' /\ Painted
<1>1. page' = Cleared(page) /\ UNCHANGED <<loads, panics, crowded>>
  BY DEF Clear
<1>2. page \in PageType /\ Retired(page) /\ Opened(page, loads)
  BY DEF LoaderInv
<1>3. /\ page'.session = 0 /\ page'.dead = FALSE /\ page'.shown = {"start"}
      /\ page'.sessions = page.sessions /\ page' \in PageType
  <2>1. 0 \in 0 .. MaxLoads /\ {"start"} \in SUBSET Elements
    BY BoundsAssumption DEF Elements
  <2> QED BY <1>1, <1>2, <2>1 DEF Cleared, PageType
<1>4. Retired(page')
  BY <1>2, <1>3 DEF Retired
<1>5. Opened(page', loads) /\ Undisturbed(page', loads, crowded)
  BY <1>2, <1>3 DEF Opened, Undisturbed
<1> QED BY <1>1, <1>3, <1>4, <1>5 DEF LoaderInv, Painted

LEMMA loadFilesStep ==
  ASSUME LoaderInv, NEW list \in Lists, loadFiles(list)
  PROVE  LoaderInv' /\ Painted
<1>1. PICK l \in Loads, panic \in Panicking :
        /\ \A m \in Loads : m < l <=> loads[m].pc # "none"
        /\ \E order \in byCaptureTime(list) :
             LET begun == call(Resetting(page, l), panic = "beginFile",
                               beginFile(Session(Resetting(page, l)), order[1]))
             IN  /\ page' = begun
                 /\ Panicked(begun)
                 /\ loads' = [loads EXCEPT ![l] = [pc |-> IF begun.dead THEN "dead" ELSE "reading",
                                                   list |-> list, files |-> order, chunk |-> 0]]
  BY DEF loadFiles
<1>2. PICK order \in byCaptureTime(list) :
        LET begun == call(Resetting(page, l), panic = "beginFile",
                          beginFile(Session(Resetting(page, l)), order[1]))
        IN  /\ page' = begun
            /\ Panicked(begun)
            /\ loads' = [loads EXCEPT ![l] = [pc |-> IF begun.dead THEN "dead" ELSE "reading",
                                              list |-> list, files |-> order, chunk |-> 0]]
  BY <1>1
<1>3. crowded' = crowded \cup (IF {m \in Loads : Active(m)} = {} THEN {}
                               ELSE {m \in Loads : Active(m)} \cup {l})
  <2>1. \A k \in Loads : (\A m \in Loads : m < k <=> loads[m].pc # "none") => k = l
    BY <1>1, BoundsAssumption DEF Loads
  <2> QED BY <2>1 DEF loadFiles
<1>4. page \in PageType /\ loads \in [Loads -> LoadType] /\ Retired(page) /\ Opened(page, loads)
  BY DEF LoaderInv
<1>5. l # 0 /\ l \in Int /\ l \in 0 .. MaxLoads /\ loads[l].pc = "none"
  BY <1>1, <1>4, BoundsAssumption DEF Loads
<1> DEFINE reset == Resetting(page, l)
<1>6. /\ reset \in PageType /\ reset.session = l /\ reset.dead = FALSE
      /\ reset.shown = {"load", "clear"} /\ reset.sessions = page.sessions
  BY <1>4, <1>5 DEF Resetting, PageType, Elements
<1>7. Session(reset) = NewSession
  BY <1>4, <1>5, <1>6 DEF Session, Opened
<1>8. Retired(reset)
  BY <1>4, <1>6, <1>7 DEF Retired, NewSession
<1>9. /\ order \in Seq(Files) /\ Len(order) \in Nat \ {0} /\ order[1] \in Files
      /\ SubSeq(order, 1, Len(order)) = order /\ order # <<>>
  <2>1. order \in Seq(Files) /\ Len(order) \in Nat \ {0}
    BY OrderType
  <2> QED BY <2>1, ElementOfSeq, SubSeqFull, EmptySeq
<1>10. Sound(NewSession)
  BY EmptySeq DEF NewSession, Sound, SessionType
<1>11. /\ Sound(beginFile(NewSession, order[1]))
       /\ beginFile(NewSession, order[1]).health = NewSession.health
  BY <1>9, <1>10, BeginFileType
<1>12. page' = call(reset, panic = "beginFile", beginFile(NewSession, order[1]))
  BY <1>2, <1>7
<1> HIDE DEF reset
<1>13. /\ Follows(reset, page')
       /\ ~page'.dead => page'.shown = reset.shown
       /\ ~page'.dead => Session(page') = beginFile(NewSession, order[1])
  BY <1>5, <1>6, <1>7, <1>8, <1>11, <1>12, CallStep
<1>14. page'.session = l /\ Retired(page') /\ page' \in PageType
  BY <1>6, <1>13 DEF Follows, Retired
<1> DEFINE load == [pc |-> IF page'.dead THEN "dead" ELSE "reading",
                    list |-> list, files |-> order, chunk |-> 0]
<1>15. load \in LoadType
  BY <1>9, FilesAssumption DEF LoadType
<1>16. loads' = [loads EXCEPT ![l] = load] /\ Panicked(page')
  BY <1>2
<1>17. /\ load.list = list /\ load.files = order /\ load.chunk = 0
       /\ load.pc = IF page'.dead THEN "dead" ELSE "reading"
  OBVIOUS
<1> HIDE DEF load
<1>18. /\ loads' \in [Loads -> LoadType] /\ loads'[l] = load
       /\ \A m \in Loads : m # l => loads'[m] = loads[m]
  BY <1>4, <1>15, <1>16
<1>19. Opened(page', loads')
  <2>1. \A m \in Loads : loads'[m].pc = "none" => page'.sessions[m] = NewSession
    BY <1>4, <1>6, <1>13, <1>17, <1>18 DEF Opened, Follows
  <2>2. \A m \in Loads : loads'[m].pc \in {"reading", "yielding"} => loads'[m].files # <<>>
    BY <1>4, <1>9, <1>17, <1>18 DEF Opened
  <2>3. loads'[l].pc # "none"
    BY <1>17, <1>18
  <2>4. \A m \in Loads : loads'[m].pc # "none" => m <= l
    BY <1>1, <1>5, <1>18 DEF Loads
  <2> QED BY <1>14, <1>18, <2>1, <2>2, <2>3, <2>4 DEF Opened
<1>20. "app" \notin page'.shown
  BY <1>6, <1>13, <1>14 DEF Retired
<1>21. Undisturbed(page', loads', crowded')
  <2> SUFFICES ASSUME l \notin crowded', ~page'.dead
               PROVE  /\ \A m \in Loads : loads'[m].pc \in {"reading", "yielding"} => m = l
                      /\ load.list \in Lists
                      /\ load.pc = "reading"
                      /\ Reading(load, Session(page'))
    BY <1>14, <1>18, <1>20 DEF Undisturbed
  <2>1. \A m \in Loads : ~Active(m)
    BY <1>3
  <2>2. \A m \in Loads : loads'[m].pc \in {"reading", "yielding"} => m = l
    BY <1>18, <2>1 DEF Active
  <2> DEFINE s == beginFile(NewSession, order[1])
             entry == [file |-> order[1], chunks |-> <<>>, state |-> "open"]
  <2>3. s.files = Append(<<>>, entry) /\ s.decoding
    BY DEF beginFile, NewSession
  <2>4. Append(<<>>, entry) = <<entry>>
    OBVIOUS
  <2> HIDE DEF entry
  <2>5. Len(s.files) = 1 /\ s.files[1] = entry
    BY <2>3, <2>4
  <2> HIDE DEF s
  <2>6. Numbered(order[1], 0) = <<>>
    BY <1>9, NumberedType, EmptySeq
  <2>7. s.files[1] = [file |-> order[1], chunks |-> Numbered(order[1], load.chunk), state |-> "open"]
    BY <1>17, <2>5, <2>6 DEF entry
  <2>8. load.chunk <= order[1].chunks /\ (order[1].bad = 0 \/ order[1].bad > load.chunk)
    BY <1>9, <1>17, FilesAssumption DEF File
  <2>9. 1 \in 1 .. Len(order) /\ load.files = SubSeq(order, 1, Len(order))
        /\ \A i \in 1 .. (1 - 1) : s.files[i] = Whole(order[i])
    BY <1>9, <1>17
  <2>10. order \in byCaptureTime(load.list)
    BY <1>17
  <2>11. Reading(load, s)
    BY <2>3, <2>5, <2>7, <2>8, <2>9, <2>10 DEF Reading
  <2> QED BY <1>13, <1>17, <2>2, <2>11 DEF s
<1>22. crowded' \subseteq Loads
  BY <1>3 DEF LoaderInv
<1>23. panics' \in Nat
  BY <1>16, PanicsCounted DEF LoaderInv
<1> QED BY <1>14, <1>18, <1>19, <1>20, <1>21, <1>22, <1>23 DEF LoaderInv, Painted

LEMMA LoaderStep ==
  ASSUME LoaderInv, LoaderNext
  PROVE  LoaderInv' /\ Painted
<1>1. CASE \E list \in Lists : loadFiles(list)
  BY <1>1, loadFilesStep
<1>2. ASSUME NEW l \in Loads, LoadStep(l)
      PROVE  LoaderInv' /\ Painted
  BY <1>2, ReadChunkStep, ReadEndStep, ReadFailsStep, YieldOverStep DEF LoadStep
<1>3. CASE Clear
  BY <1>3, ClearStep
<1> QED BY <1>1, <1>2, <1>3 DEF LoaderNext

-----------------------------------------------------------------------------
(***************************************************************************)
(* The networks view.                                                      *)
(***************************************************************************)
ViewInv ==
  /\ asnState \in {"idle", "loading", "ready", "error"}
  /\ asinfo \in BOOLEAN
  /\ mapped \subseteq Loads
  /\ visits \in [Visits -> {"none", "fetching", "importing", "over"}]
  /\ peerMode \in {"peers", "networks"}
  /\ table \in [rows : {"none", "peers", "networks"}, session : 0 .. MaxLoads]
  /\ OneVisitFetches
  /\ RowsAreOfTheSession

LEMMA IInvParts == IInv <=> LoaderInv /\ ViewInv
BY DEF IInv, TypeOK, LoaderInv, ViewInv

(* A visit that moves, alone in waiting before and after. *)
LEMMA VisitMoves ==
  ASSUME ViewInv, NEW v \in Visits, NEW at \in {"fetching", "importing", "over"},
         NEW state \in {"idle", "loading", "ready", "error"},
         VisitAt(v, at, state),
         \/ Waiting(v)
         \/ \A u \in Visits : ~Waiting(u)
         \/ at = "over" /\ state = asnState,
         at # "over" => state = "loading"
  PROVE  /\ visits' \in [Visits -> {"none", "fetching", "importing", "over"}]
         /\ asnState' \in {"idle", "loading", "ready", "error"}
         /\ OneVisitFetches'
<1>1. visits \in [Visits -> {"none", "fetching", "importing", "over"}] /\ OneVisitFetches
  BY DEF ViewInv
<1>2. visits' = [visits EXCEPT ![v] = at] /\ asnState' = state
  BY DEF VisitAt
<1>3. /\ visits' \in [Visits -> {"none", "fetching", "importing", "over"}]
      /\ visits'[v] = at /\ \A u \in Visits : u # v => visits'[u] = visits[u]
  BY <1>1, <1>2
<1>4. CASE Waiting(v)
  BY <1>1, <1>2, <1>3, <1>4 DEF OneVisitFetches, Waiting
<1>5. CASE \A u \in Visits : ~Waiting(u)
  BY <1>1, <1>2, <1>3, <1>5 DEF OneVisitFetches, Waiting
<1>6. CASE at = "over" /\ state = asnState
  BY <1>1, <1>2, <1>3, <1>6 DEF OneVisitFetches, Waiting
<1> QED BY <1>2, <1>3, <1>4, <1>5, <1>6

(* The table after a paint of the networks is the page's own or as it was. *)
LEMMA NetworksType ==
  ASSUME LoaderInv, ViewInv, NEW maps
  PROVE  /\ Networks(maps) \in [rows : {"none", "peers", "networks"}, session : 0 .. MaxLoads]
         /\ NoRows \in [rows : {"none", "peers", "networks"}, session : 0 .. MaxLoads]
         /\ "app" \in page.shown /\ Networks(maps).rows # "none"
              => Networks(maps).session = page.session
         /\ NoRows.rows = "none"
<1>1. page.session \in 0 .. MaxLoads
  BY DEF LoaderInv, PageType
<1>2. NoRows \in [rows : {"none", "peers", "networks"}, session : 0 .. MaxLoads]
  BY BoundsAssumption DEF NoRows
<1>3. /\ Networks(maps) \in [rows : {"none", "peers", "networks"}, session : 0 .. MaxLoads]
      /\ "app" \in page.shown /\ Networks(maps).rows # "none"
           => Networks(maps).session = page.session
  BY <1>1 DEF Networks, ViewInv, RowsAreOfTheSession
<1> QED BY <1>2, <1>3 DEF NoRows

LEMMA ImportStep ==
  ASSUME LoaderInv, ViewInv, NEW v \in Visits, NEW maps \in SUBSET Loads, Import(v, maps),
         peerMode' \in {"peers", "networks"}, "app" \in page'.shown => "app" \in page.shown,
         page'.session = page.session,
         \/ Waiting(v)
         \/ \A u \in Visits : ~Waiting(u)
  PROVE  ViewInv'
<1>1. mapped' = maps /\ asinfo' = asinfo
  BY DEF Import
<1>2. CASE asinfo
  <2>1. VisitAt(v, "over", "ready") /\ table' = Networks(maps)
    BY <1>2 DEF Import
  <2>2. /\ visits' \in [Visits -> {"none", "fetching", "importing", "over"}]
        /\ asnState' \in {"idle", "loading", "ready", "error"} /\ OneVisitFetches'
    BY <2>1, VisitMoves
  <2>3. /\ table' \in [rows : {"none", "peers", "networks"}, session : 0 .. MaxLoads]
        /\ RowsAreOfTheSession'
    BY <2>1, NetworksType DEF RowsAreOfTheSession
  <2> QED BY <1>1, <2>2, <2>3 DEF ViewInv
<1>3. CASE ~asinfo
  <2>1. VisitAt(v, "importing", "loading") /\ table' = table
    BY <1>3 DEF Import
  <2>2. /\ visits' \in [Visits -> {"none", "fetching", "importing", "over"}]
        /\ asnState' \in {"idle", "loading", "ready", "error"} /\ OneVisitFetches'
    BY <2>1, VisitMoves
  <2>3. RowsAreOfTheSession'
    BY <2>1 DEF ViewInv, RowsAreOfTheSession
  <2> QED BY <1>1, <2>1, <2>2, <2>3 DEF ViewInv
<1> QED BY <1>2, <1>3

LEMMA FailsStep ==
  ASSUME LoaderInv, ViewInv, NEW v \in Visits, Waiting(v), Fails(v), UNCHANGED peerMode
  PROVE  ViewInv'
<1>1. VisitAt(v, "over", "error") /\ table' = NoRows /\ mapped' = mapped /\ asinfo' = asinfo
  BY DEF Fails
<1> QED BY <1>1, VisitMoves, NetworksType DEF ViewInv, RowsAreOfTheSession

LEMMA ShowNetworksStep ==
  ASSUME LoaderInv, ViewInv, ShowNetworks
  PROVE  LoaderInv' /\ ViewInv'
<1>1. /\ UNCHANGED loaderVars /\ peerMode' = "networks"
  BY DEF ShowNetworks
<1>2. page' = page /\ LoaderInv'
  BY <1>1 DEF LoaderInv, loaderVars
<1>3. PICK v \in Visits :
       CASE asnState = "ready" ->
              /\ VisitAt(v, "over", asnState)
              /\ table' = Networks(mapped)
              /\ UNCHANGED <<asinfo, mapped>>
         [] asnState = "loading" ->
              /\ VisitAt(v, "over", asnState)
              /\ table' = NoRows
              /\ UNCHANGED <<asinfo, mapped>>
         [] asnState \notin {"ready", "loading"} /\ page.session \in mapped -> Import(v, mapped)
         [] OTHER ->
              /\ VisitAt(v, "fetching", "loading")
              /\ UNCHANGED <<asinfo, mapped, table>>
  BY DEF ShowNetworks
<1>4. asnState \in {"idle", "loading", "ready", "error"}
  BY DEF ViewInv
<1>5. CASE asnState = "ready" \/ asnState = "loading"
  <2>1. VisitAt(v, "over", asnState) /\ UNCHANGED <<asinfo, mapped>>
        /\ (table' = Networks(mapped) \/ table' = NoRows)
    BY <1>3, <1>5
  <2>2. /\ visits' \in [Visits -> {"none", "fetching", "importing", "over"}]
        /\ asnState' \in {"idle", "loading", "ready", "error"} /\ OneVisitFetches'
    BY <1>4, <2>1, VisitMoves
  <2>3. /\ table' \in [rows : {"none", "peers", "networks"}, session : 0 .. MaxLoads]
        /\ RowsAreOfTheSession'
    BY <1>2, <2>1, NetworksType DEF RowsAreOfTheSession
  <2> QED BY <1>1, <1>2, <2>1, <2>2, <2>3 DEF ViewInv
<1>6. CASE asnState \notin {"ready", "loading"} /\ page.session \in mapped
  <2>1. Import(v, mapped)
    BY <1>3, <1>6
  <2>2. \A u \in Visits : ~Waiting(u)
    BY <1>6 DEF ViewInv, OneVisitFetches
  <2>3. mapped \in SUBSET Loads
    BY DEF ViewInv
  <2> QED BY <1>1, <1>2, <2>1, <2>2, <2>3, ImportStep
<1>7. CASE asnState \notin {"ready", "loading"} /\ page.session \notin mapped
  <2>1. VisitAt(v, "fetching", "loading") /\ UNCHANGED <<asinfo, mapped, table>>
    BY <1>3, <1>7
  <2>2. \A u \in Visits : ~Waiting(u)
    BY <1>7 DEF ViewInv, OneVisitFetches
  <2>3. /\ visits' \in [Visits -> {"none", "fetching", "importing", "over"}]
        /\ asnState' \in {"idle", "loading", "ready", "error"} /\ OneVisitFetches'
    BY <2>1, <2>2, VisitMoves
  <2>4. RowsAreOfTheSession'
    BY <1>2, <2>1 DEF ViewInv, RowsAreOfTheSession
  <2> QED BY <1>1, <1>2, <2>1, <2>3, <2>4 DEF ViewInv
<1> QED BY <1>5, <1>6, <1>7

LEMMA ShowPeersStep ==
  ASSUME LoaderInv, ViewInv, ShowPeers
  PROVE  LoaderInv' /\ ViewInv'
<1>1. /\ UNCHANGED <<loaderVars, asnState, asinfo, mapped, visits>> /\ peerMode' = "peers"
      /\ table' = [rows |-> "peers", session |-> page.session]
  BY DEF ShowPeers
<1>2. page' = page /\ LoaderInv'
  BY <1>1 DEF LoaderInv, loaderVars
<1>3. page.session \in 0 .. MaxLoads
  BY DEF LoaderInv, PageType
<1>4. /\ table' \in [rows : {"none", "peers", "networks"}, session : 0 .. MaxLoads]
      /\ table'.session = page.session
  BY <1>1, <1>3
<1>5. RowsAreOfTheSession'
  BY <1>2, <1>4 DEF RowsAreOfTheSession
<1>6. OneVisitFetches'
  BY <1>1 DEF ViewInv, OneVisitFetches, Waiting
<1> QED BY <1>1, <1>2, <1>4, <1>5, <1>6 DEF ViewInv

LEMMA FetchedStep ==
  ASSUME LoaderInv, ViewInv, NEW v \in Visits, Fetched(v)
  PROVE  LoaderInv' /\ ViewInv'
<1>1. Waiting(v) /\ UNCHANGED <<loads, crowded, peerMode>>
  BY DEF Fetched, Waiting
<1>2. PICK panic \in {FALSE, panics < MaxPanics} :
        LET loaded == call(page, panic, Session(page)) IN
          /\ page' = loaded
          /\ Panicked(loaded)
          /\ CASE Throws(page) -> Fails(v)
               [] loaded.dead ->
                    /\ VisitAt(v, "over", asnState)
                    /\ table' = NoRows
                    /\ UNCHANGED <<mapped, asinfo>>
               [] OTHER -> Import(v, mapped \cup {page.session})
  BY DEF Fetched
<1>3. panic \in BOOLEAN
  <2>1. panic = FALSE \/ panic = (panics < MaxPanics)
    BY <1>2
  <2>2. (panics < MaxPanics) \in BOOLEAN
    OBVIOUS
  <2> QED BY <2>1, <2>2, Zenon
<1>4. Retired(page) /\ (page.session # 0 => Sound(Session(page)))
  BY SessionInPlace DEF LoaderInv
<1>5. /\ Follows(page, page')
      /\ ~page'.dead => page'.shown = page.shown
      /\ ~page'.dead /\ page.session # 0 => Session(page') = Session(page)
  BY <1>2, <1>3, <1>4, CallStep
<1>6. page'.session = page.session /\ Retired(page') /\ page' \in PageType
  BY <1>5 DEF Follows, Retired
<1>7. LoaderInv'
  <2>1. Opened(page', loads)
    <3>1. Opened(page, loads)
      BY DEF LoaderInv
    <3>2. \A m \in Loads : loads[m].pc = "none" => m # page.session
      BY <3>1, BoundsAssumption DEF Opened, Loads
    <3>3. \A m \in Loads : loads[m].pc = "none" => page'.sessions[m] = NewSession
      BY <1>5, <3>1, <3>2 DEF Follows, Opened
    <3> QED BY <1>6, <3>1, <3>3 DEF Opened
  <2>2. Undisturbed(page', loads, crowded)
    <3> SUFFICES ASSUME page'.session # 0, page'.session \notin crowded, ~page'.dead
                 PROVE  /\ ~page.dead /\ page'.session = page.session
                        /\ Session(page') = Session(page) /\ page'.shown = page.shown
      BY DEF LoaderInv, Undisturbed
    <3> QED BY <1>5, <1>6 DEF Follows
  <2>3. panics' \in Nat
    BY <1>2, PanicsCounted DEF LoaderInv
  <2> QED BY <1>1, <1>6, <2>1, <2>2, <2>3 DEF LoaderInv
<1>8. "app" \in page'.shown => "app" \in page.shown
  BY <1>5, <1>6 DEF Retired
<1>9. CASE Throws(page)
  <2>1. ~page'.dead
    BY <1>2, <1>9 DEF Throws, call
  <2>2. Fails(v)
    BY <1>2, <1>9, <2>1
  <2> QED BY <1>1, <1>7, <2>2, FailsStep
<1>10. CASE ~Throws(page) /\ page'.dead
  <2>1. VisitAt(v, "over", asnState) /\ table' = NoRows /\ UNCHANGED <<mapped, asinfo>>
    BY <1>2, <1>10
  <2>2. asnState \in {"idle", "loading", "ready", "error"}
    BY DEF ViewInv
  <2>3. /\ visits' \in [Visits -> {"none", "fetching", "importing", "over"}]
        /\ asnState' \in {"idle", "loading", "ready", "error"} /\ OneVisitFetches'
    BY <1>1, <2>1, <2>2, VisitMoves
  <2>4. /\ table' \in [rows : {"none", "peers", "networks"}, session : 0 .. MaxLoads]
        /\ RowsAreOfTheSession'
    BY <2>1, NetworksType DEF RowsAreOfTheSession
  <2> QED BY <1>1, <1>7, <2>1, <2>3, <2>4 DEF ViewInv
<1>11. CASE ~Throws(page) /\ ~page'.dead
  <2>1. Import(v, mapped \cup {page.session})
    BY <1>2, <1>11
  <2>2. page.session \in Loads
    BY <1>4, <1>5, <1>11, SessionInPlace DEF Throws, Follows
  <2>3. mapped \cup {page.session} \in SUBSET Loads
    BY <2>2 DEF ViewInv
  <2>4. peerMode' \in {"peers", "networks"}
    BY <1>1 DEF ViewInv
  <2> QED BY <1>1, <1>6, <1>7, <1>8, <2>1, <2>3, <2>4, ImportStep
<1> QED BY <1>9, <1>10, <1>11

LEMMA ImportedStep ==
  ASSUME LoaderInv, ViewInv, NEW v \in Visits, Imported(v)
  PROVE  LoaderInv' /\ ViewInv'
<1>1. /\ Waiting(v) /\ asinfo' = TRUE /\ VisitAt(v, "over", "ready") /\ table' = Networks(mapped)
      /\ UNCHANGED <<loaderVars, mapped, peerMode>>
  BY DEF Imported, Waiting
<1>2. page' = page /\ LoaderInv'
  BY <1>1 DEF LoaderInv, loaderVars
<1>3. /\ visits' \in [Visits -> {"none", "fetching", "importing", "over"}]
      /\ asnState' \in {"idle", "loading", "ready", "error"} /\ OneVisitFetches'
  BY <1>1, VisitMoves
<1>4. /\ table' \in [rows : {"none", "peers", "networks"}, session : 0 .. MaxLoads]
      /\ RowsAreOfTheSession'
  BY <1>1, <1>2, NetworksType DEF RowsAreOfTheSession
<1> QED BY <1>1, <1>2, <1>3, <1>4 DEF ViewInv

(* What the loader does to the view. *)
LEMMA ViewFollowsStep ==
  ASSUME LoaderInv, ViewInv, LoaderNext, ViewFollows
  PROVE  LoaderInv' /\ ViewInv'
<1>1. LoaderInv' /\ Painted
  BY LoaderStep
<1>2. /\ UNCHANGED <<asnState, asinfo, mapped, visits>>
      /\ peerMode' \in {"peers", "networks"}
  BY DEF ViewFollows, ViewInv
<1> DEFINE over == \E l \in Loads : loads[l].pc # "done" /\ loads'[l].pc = "done"
<1>3. table' = IF over /\ ~page'.dead THEN [rows |-> "peers", session |-> page'.session] ELSE table
  BY DEF ViewFollows
<1>4. page'.session \in 0 .. MaxLoads /\ ("app" \in page'.shown => ~page'.dead)
  BY <1>1 DEF LoaderInv, PageType, Retired
<1>5. OneVisitFetches'
  BY <1>2 DEF ViewInv, OneVisitFetches, Waiting
<1>6. table' \in [rows : {"none", "peers", "networks"}, session : 0 .. MaxLoads]
  BY <1>3, <1>4 DEF ViewInv
<1>7. "app" \in page'.shown => page'.session = page.session /\ ("app" \in page.shown \/ over)
  BY <1>1 DEF Painted
<1> HIDE DEF over
<1>8. RowsAreOfTheSession'
  BY <1>3, <1>4, <1>7 DEF ViewInv, RowsAreOfTheSession
<1> QED BY <1>1, <1>2, <1>5, <1>6, <1>8 DEF ViewInv

-----------------------------------------------------------------------------
LEMMA InitInv == Init => IInv
<1> SUFFICES ASSUME Init PROVE LoaderInv /\ ViewInv
  BY IInvParts
<1>1. /\ page = [dead |-> FALSE, session |-> 0, shown |-> {"start"},
                 sessions |-> [l \in Loads |-> NewSession]]
      /\ loads = [l \in Loads |-> [pc |-> "none", list |-> {}, files |-> <<>>, chunk |-> 0]]
      /\ panics = 0 /\ crowded = {}
  BY DEF Init, LoaderInit
<1>2. Sound(NewSession)
  BY EmptySeq DEF NewSession, Sound, SessionType
<1>3. 0 \in 0 .. MaxLoads /\ {"start"} \in SUBSET Elements
  BY BoundsAssumption DEF Elements
<1>4. page \in PageType
  BY <1>1, <1>2, <1>3 DEF PageType, Sound
<1>5. Retired(page)
  BY <1>1, <1>2, <1>4 DEF Retired
<1>6. <<>> \in Seq(Files)
  BY EmptySeq
<1>7. loads \in [Loads -> LoadType]
  BY <1>1, <1>6 DEF LoadType
<1>8. Opened(page, loads) /\ Undisturbed(page, loads, crowded)
  BY <1>1, <1>7 DEF Opened, Undisturbed
<1>9. LoaderInv
  BY <1>1, <1>4, <1>5, <1>7, <1>8 DEF LoaderInv
<1>10. ViewInv
  BY <1>1, <1>3 DEF Init, ViewInv, OneVisitFetches, Waiting, RowsAreOfTheSession
<1> QED BY <1>9, <1>10

LEMMA NextInv == IInv /\ [Next]_vars => IInv'
<1> SUFFICES ASSUME LoaderInv, ViewInv, [Next]_vars
             PROVE  LoaderInv' /\ ViewInv'
  BY IInvParts DEF IInv, TypeOK, LoaderInv, ViewInv
<1>1. CASE LoaderNext /\ ViewFollows
  BY <1>1, ViewFollowsStep
<1>2. CASE ShowNetworks
  BY <1>2, ShowNetworksStep
<1>3. CASE ShowPeers
  BY <1>3, ShowPeersStep
<1>4. ASSUME NEW v \in Visits, VisitStep(v)
      PROVE  LoaderInv' /\ ViewInv'
  <2>1. CASE Fetched(v)
    BY <2>1, FetchedStep
  <2>2. CASE Imported(v)
    BY <2>2, ImportedStep
  <2>3. CASE FetchFails(v) \/ ImportFails(v)
    <3>1. Waiting(v) /\ Fails(v) /\ UNCHANGED <<loaderVars, peerMode>>
      BY <2>3 DEF FetchFails, ImportFails, Waiting
    <3>2. LoaderInv'
      BY <3>1 DEF LoaderInv, loaderVars
    <3> QED BY <3>1, <3>2, FailsStep
  <2> QED BY <1>4, <2>1, <2>2, <2>3 DEF VisitStep
<1>5. CASE UNCHANGED vars
  <2>1. LoaderInv'
    BY <1>5 DEF LoaderInv, vars, loaderVars
  <2>2. ViewInv'
    BY <1>5 DEF ViewInv, vars, loaderVars, viewVars, OneVisitFetches, Waiting, RowsAreOfTheSession
  <2> QED BY <2>1, <2>2
<1> QED BY <1>1, <1>2, <1>3, <1>4, <1>5 DEF Next, ViewStep

THEOREM Invariant == Spec => []IInv
<1>1. Init => IInv
  BY InitInv
<1>2. IInv /\ [Next]_vars => IInv'
  BY NextInv
<1> QED BY <1>1, <1>2, PTL DEF Spec

(* The page, its loads and the view keep their types. *)
THEOREM TypeCorrect == Spec => []TypeOK
<1>1. IInv => TypeOK
  BY DEF IInv
<1> QED BY <1>1, Invariant, PTL

(* However archives are opened over one another, cleared and broken by panics,
   nothing calls into a session again once a call into it has panicked, and a
   dead page shows the explanation instead of the archive. *)
THEOREM PoisonedStaysRetired == Spec => []PoisonedIsRetired
<1>1. IInv => PoisonedIsRetired
  <2> SUFFICES ASSUME IInv PROVE PoisonedIsRetired
    OBVIOUS
  <2>1. Retired(page) /\ page \in PageType
    BY DEF IInv, TypeOK
  <2>2. \A l \in Loads : page.sessions[l].health # "reused"
    BY <2>1 DEF PageType, SessionType
  <2> QED BY <2>1, <2>2 DEF Retired, PoisonedIsRetired
<1> QED BY <1>1, Invariant, PTL

(* An archive that had the page to itself while it was opened is shown whole:
   every file it was opened with, once, in the order of capture if the names
   tell it, each with all its chunks or those up to the one found broken. *)
THEOREM ShownWhole == Spec => []ArchiveShownIsWhole
<1>1. IInv => ArchiveShownIsWhole
  <2> SUFFICES ASSUME IInv, "app" \in page.shown, page.session \notin crowded
               PROVE  LET files == Session(page).files
                          list == loads[page.session].list
                      IN  /\ {files[i].file : i \in DOMAIN files} = list /\ Len(files) = Cardinality(list)
                          /\ \A i \in DOMAIN files : files[i] = Whole(files[i].file)
                          /\ (\A f \in list : f.stamp # 0) =>
                               \A i, j \in DOMAIN files : i < j => files[i].file.stamp <= files[j].file.stamp
    BY DEF ArchiveShownIsWhole
  <2>1. /\ loads \in [Loads -> LoadType] /\ Retired(page)
        /\ Undisturbed(page, loads, crowded)
    BY DEF IInv, TypeOK
  <2>2. ~page.dead
    BY <2>1 DEF Retired
  <2>3. page.session # 0
    BY <2>1 DEF Retired
  <2>4. page.session \in Loads /\ Sound(Session(page))
    BY <2>1, <2>3, SessionInPlace
  <2>5. /\ loads[page.session] \in LoadType
        /\ loads[page.session].list \in Lists
        /\ Finished(loads[page.session], Session(page))
    BY <2>1, <2>2, <2>3, <2>4 DEF Undisturbed
  <2> QED BY <2>4, <2>5, FinishedIsWhole
<1> QED BY <1>1, Invariant, PTL

(* However often the networks view is opened while it loads, one visit at a
   time fetches and imports, and only while the page says so. *)
THEOREM OneFetch == Spec => []OneVisitFetches
<1>1. IInv => OneVisitFetches
  BY DEF IInv
<1> QED BY <1>1, Invariant, PTL

(* The rows on screen are those of the session in place, whichever of two loads
   ends first and whenever an answer comes. *)
THEOREM RowsOfSession == Spec => []RowsAreOfTheSession
<1>1. IInv => RowsAreOfTheSession
  BY DEF IInv
<1> QED BY <1>1, Invariant, PTL

=============================================================================

-------------------------- MODULE EventHandlerProofs --------------------------
(***************************************************************************)
(* Theorems about the event handler (EventHandler), for every value of its *)
(* constants.                                                              *)
(*                                                                         *)
(* The record of a request has 19 fields and each step writes a few, so    *)
(* the proofs start from effect lemmas: what a step does to the record it  *)
(* owns, as one of a few shapes (Moved, Ended, Answered, LoopGoesOn), and  *)
(* that it leaves the other records alone (Only). Each property then has   *)
(* an inductive invariant of its own:                                      *)
(*   AdmitInv    the gate's sample and the age a request was admitted with *)
(*   PrivacyInv  the basis of identifiers and the opt-outs of a request    *)
(*   ReplyInv    position, outcomes and answer of a request                *)
(*   SiteInv     the registry and the row a request holds                  *)
(*   NewInv      hashes, marks and rows of visitors                        *)
(*   AccountInv  what became of each mark                                  *)
(*   BurstInv    the guard's entries against the passes they count         *)
(***************************************************************************)
EXTENDS EventHandler, FiniteSetTheorems, WellFoundedInduction, TLAPS

Fields == {"pc", "in", "i", "row", "cookie", "chash", "uid", "enforce", "hash",
           "prev", "isNew", "out", "status", "basis", "from", "optedOut", "lag",
           "took", "misread"}

Shape == DOMAIN req = Reqs /\ \A r \in Reqs : DOMAIN req[r] = Fields

(* The initial record of a request has the fields of Shape. *)
LEMMA IdleShape == DOMAIN Idle = Fields
  BY DEF Idle, Fields


(* A step of r leaves the other requests alone. *)
Only(r) == \A q \in Reqs : q # r => req'[q] = req[q]

(* r goes on to pc and keeps every field outside F. *)
Moved(r, pc, F) ==
    /\ Shape' /\ Only(r)
    /\ req'[r].pc = pc
    /\ \A f \in Fields \ F : f # "pc" => req'[r][f] = req[r][f]

(* r ends in pc, with the initial value in every field outside F. *)
Ended(r, pc, F) ==
    /\ Shape' /\ Only(r)
    /\ req'[r].pc = pc
    /\ \A f \in Fields \ F : f # "pc" => req'[r][f] = Idle[f]

Answered(r, status, out) ==
    /\ Ended(r, "done", {"in", "status", "out", "lag", "took", "misread"})
    /\ req'[r].in = req[r].in /\ req'[r].status = status /\ req'[r].out = out
    /\ req'[r].lag = req[r].lag /\ req'[r].took = req[r].took
    /\ req'[r].misread = req[r].misread

Continued(r, out) ==
    /\ Moved(r, "exact", {"i", "row", "chash", "uid", "enforce", "hash", "prev",
                          "isNew", "out"})
    /\ req'[r].i = req[r].i + 1 /\ req'[r].out = out
    /\ req'[r].chash = <<>> /\ req'[r].uid = FALSE /\ req'[r].isNew = FALSE

LoopGoesOn(r, outcome) ==
    LET out == Append(req[r].out, outcome) IN
    \/ req[r].i = Len(req[r].in.events) /\ Answered(r, 202, out)
    \/ req[r].i # Len(req[r].in.events) /\ Continued(r, out)

(* Put replaces the record of r and nothing else. *)
LEMMA PutEffect ==
  ASSUME Shape, NEW r \in Reqs, NEW x, DOMAIN x = Fields, Put(r, x)
  PROVE  Shape' /\ Only(r) /\ req'[r] = x
BY DEF Shape, Only, Put

(* Answer ends a request with a status and the outcomes of its events; the *)
(* rest of its record is reset.                                            *)
LEMMA AnswerEffect ==
  ASSUME Shape, NEW r \in Reqs, NEW status, NEW out, Answer(r, status, out)
  PROVE  Answered(r, status, out)
<1>. DEFINE x == [Idle EXCEPT !.pc = "done", !.in = req[r].in, !.status = status,
                        !.out = out, !.lag = req[r].lag, !.took = req[r].took,
                        !.misread = req[r].misread]
<1>1. DOMAIN x = Fields
  BY DEF Idle, Fields
<1>2. Put(r, x)
  BY Zenon DEF Answer
<1>3. /\ x.pc = "done" /\ x.in = req[r].in /\ x.status = status /\ x.out = out
      /\ x.lag = req[r].lag /\ x.took = req[r].took /\ x.misread = req[r].misread
      /\ \A f \in Fields \ {"pc", "in", "status", "out", "lag", "took", "misread"} : x[f] = Idle[f]
  BY DEF Idle, Fields
<1>. HIDE DEF x
<1>. QED  BY <1>1, <1>2, <1>3, PutEffect DEF Answered, Ended

(* The end of the handler's loop body: answer 202 after the last event, go *)
(* on with the next one before it.                                         *)
LEMMA NextEventEffect ==
  ASSUME Shape, NEW r \in Reqs, NEW outcome, NextEvent(r, outcome)
  PROVE  LoopGoesOn(r, outcome)
<1>. DEFINE out == Append(req[r].out, outcome)
            k == req[r].i + 1
            x == [req[r] EXCEPT !.pc = "exact", !.i = k, !.row = NoSite,
                   !.chash = <<>>, !.uid = FALSE, !.enforce = FALSE,
                   !.hash = <<>>, !.prev = <<>>, !.isNew = FALSE, !.out = out]
<1>1. \/ req[r].i = Len(req[r].in.events) /\ Answer(r, 202, out)
      \/ req[r].i # Len(req[r].in.events) /\ Put(r, x)
  BY Zenon DEF NextEvent
<1>. HIDE DEF out, k
<1>2. DOMAIN x = Fields
  BY DEF Shape, Fields
<1>3. /\ x.pc = "exact" /\ x.i = k /\ x.chash = <<>> /\ x.uid = FALSE
      /\ x.isNew = FALSE /\ x.out = out
      /\ \A f \in Fields \ {"pc", "i", "row", "chash", "uid", "enforce", "hash", "prev",
                             "isNew", "out"} : x[f] = req[r][f]
  BY DEF Shape, Fields
<1>. HIDE DEF x
<1>4. ASSUME Put(r, x) PROVE Moved(r, "exact", {"i", "row", "chash", "uid", "enforce", "hash", "prev",
                          "isNew", "out"}) /\ req'[r] = x
  BY <1>2, <1>3, <1>4, PutEffect DEF Moved
<1>. QED  BY <1>1, <1>3, <1>4, AnswerEffect DEF LoopGoesOn, Continued, out, k

(* A step that only advances the program counter keeps every other field. *)
LEMMA MoveEffect ==
  ASSUME Shape, NEW r \in Reqs, NEW pc, Put(r, [req[r] EXCEPT !.pc = pc])
  PROVE  Moved(r, pc, {})
<1>. DEFINE x == [req[r] EXCEPT !.pc = pc]
<1>1. DOMAIN x = Fields /\ x.pc = pc /\ \A f \in Fields : f # "pc" => x[f] = req[r][f]
  BY DEF Shape, Fields
<1>. HIDE DEF x
<1>2. Put(r, x)
  BY DEF x
<1>. QED  BY <1>1, <1>2, PutEffect DEF Moved

---------------------------------------------------------------------------
(* The steps. *)

Refused(r, in, status) ==
    /\ Ended(r, "done", {"in", "status"})
    /\ req'[r].in = in /\ req'[r].status = status

(* A request refused before the gate ends at once with its status. *)
LEMMA RefusedEffect ==
  ASSUME Shape, NEW r \in Reqs, NEW in, NEW status, RefusedOutright(r, in, status)
  PROVE  Refused(r, in, status)
<1>. DEFINE x == [Idle EXCEPT !.pc = "done", !.in = in, !.status = status]
<1>1. /\ DOMAIN x = Fields /\ x.pc = "done" /\ x.in = in /\ x.status = status
      /\ \A f \in Fields \ {"pc", "in", "status"} : x[f] = Idle[f]
  BY DEF Idle, Fields
<1>. HIDE DEF x
<1>2. Put(r, x)
  BY Zenon DEF RefusedOutright, x
<1>. QED  BY <1>1, <1>2, PutEffect DEF Refused, Ended

Arrived(r, in) ==
    /\ Ended(r, "gate", {"in", "from", "optedOut"})
    /\ req'[r].in = in /\ req'[r].from = Len(log) /\ req'[r].optedOut = suppressed

(* An arriving request starts from the initial record, with the length of  *)
(* the log and the opt-outs it finds.                                      *)
LEMMA ArriveEffect ==
  ASSUME Shape, NEW r \in Reqs, NEW in, Arrive(r, in)
  PROVE  Arrived(r, in)
<1>. DEFINE n == Len(log)
            x == [Idle EXCEPT !.pc = "gate", !.in = in, !.from = n, !.optedOut = suppressed]
<1>2. Put(r, x)
  BY Zenon DEF Arrive
<1>. HIDE DEF n
<1>1. /\ DOMAIN x = Fields /\ x.pc = "gate" /\ x.in = in /\ x.from = n /\ x.optedOut = suppressed
      /\ \A f \in Fields \ {"pc", "in", "from", "optedOut"} : x[f] = Idle[f]
  BY DEF Idle, Fields
<1>. HIDE DEF x
<1>. QED  BY <1>1, <1>2, PutEffect DEF Arrived, Ended, n

Admitted(r) ==
    /\ Moved(r, "serve", {"lag", "took", "misread"})
    /\ req'[r].lag = now - lastBelow /\ req'[r].took = took' /\ req'[r].misread = misread'

(* The back-pressure gate answers 503 when degraded and otherwise admits   *)
(* the request with the age, the walk and the kind of the sample it saw.   *)
LEMMA GateEffect ==
  ASSUME Shape, NEW r \in Reqs, NEW degraded, GateAnswer(r, degraded)
  PROVE  (degraded /\ Answered(r, 503, <<>>)) \/ (~degraded /\ Admitted(r))
<1>. DEFINE n == now - lastBelow
            d == took'
            m == misread'
            x == [req[r] EXCEPT !.pc = "serve", !.lag = n, !.took = d, !.misread = m]
<1>2. (degraded /\ Answer(r, 503, <<>>)) \/ (~degraded /\ Put(r, x))
  BY Zenon DEF GateAnswer
<1>. HIDE DEF n, d, m
<1>1. /\ DOMAIN x = Fields /\ x.pc = "serve" /\ x.lag = n /\ x.took = d /\ x.misread = m
      /\ \A f \in Fields \ {"pc", "lag", "took", "misread"} : x[f] = req[r][f]
  BY DEF Shape, Fields
<1>. HIDE DEF x
<1>3. ASSUME Put(r, x) PROVE Admitted(r)
  BY <1>1, <1>3, PutEffect DEF Admitted, Moved, n, d, m
<1>. QED  BY <1>2, <1>3, AnswerEffect

(* The steps of the back-pressure gate. *)
AtGate(r) == Backpressure(r) \/ BeginWalk(r) \/ EndWalk(r)

(* Each of them answers 503, starts the walk or admits the request, and    *)
(* touches nothing but the gate and the request.                           *)
LEMMA AtGateEffect ==
  ASSUME Shape, NEW r \in Reqs, AtGate(r)
  PROVE  /\ req[r].pc \in {"gate", "walk"}
         /\ UNCHANGED <<burstVars, bloomVars, rowVars>> /\ Ambient
         /\ \/ Answered(r, 503, <<>>)
            \/ \E pc \in {"walk", "serve"} : Moved(r, pc, {"lag", "took", "misread"})
<1>1. /\ req[r].pc \in {"gate", "walk"}
      /\ UNCHANGED <<burstVars, bloomVars, rowVars>> /\ Ambient
  BY Zenon DEF AtGate, Backpressure, BeginWalk, EndWalk
<1>2. CASE BeginWalk(r)
  <2>1. Moved(r, "walk", {})
    BY <1>2, MoveEffect, Zenon DEF BeginWalk
  <2>2. Moved(r, "walk", {"lag", "took", "misread"})
    BY <2>1 DEF Moved
  <2>. QED  BY <1>1, <2>2
<1>3. CASE Backpressure(r) \/ EndWalk(r)
  <2>1. PICK degraded \in BOOLEAN : GateAnswer(r, degraded)
    BY <1>3, Zenon DEF Backpressure, EndWalk
  <2>2. Answered(r, 503, <<>>) \/ Moved(r, "serve", {"lag", "took", "misread"})
    BY <2>1, GateEffect, Zenon DEF Admitted
  <2>. QED  BY <1>1, <2>2
<1>. QED  BY <1>2, <1>3, Zenon DEF AtGate

(* Parsing answers 400 or 204, or enters the loop with at least one event. *)
LEMMA ServeEffect ==
  ASSUME Shape, NEW r \in Reqs, Serve(r)
  PROVE  \/ Answered(r, 400, <<>>) \/ Answered(r, 204, <<>>)
         \/ req[r].in.events # <<>> /\ Moved(r, "exact", {})
<1>1. \/ Answer(r, 400, <<>>) \/ Answer(r, 204, <<>>)
      \/ req[r].in.events # <<>> /\ Put(r, [req[r] EXCEPT !.pc = "exact"])
  BY Zenon DEF Serve
<1>2. Answer(r, 400, <<>>) => Answered(r, 400, <<>>)
  BY AnswerEffect, Zenon
<1>3. Answer(r, 204, <<>>) => Answered(r, 204, <<>>)
  BY AnswerEffect, Zenon
<1>. QED  BY <1>1, <1>2, <1>3, MoveEffect, Zenon

Found(r, row) ==
    Moved(r, "consent", {"row"}) /\ req'[r].row = row

(* A successful lookup goes on to the consent step with the site's row. *)
LEMMA FoundEffect ==
  ASSUME Shape, NEW r \in Reqs, NEW row, Put(r, [req[r] EXCEPT !.pc = "consent", !.row = row])
  PROVE  Found(r, row)
<1>. DEFINE x == [req[r] EXCEPT !.pc = "consent", !.row = row]
<1>1. /\ DOMAIN x = Fields /\ x.pc = "consent" /\ x.row = row
      /\ \A f \in Fields \ {"pc", "row"} : x[f] = req[r][f]
  BY DEF Shape, Fields
<1>. HIDE DEF x
<1>2. Put(r, x)
  BY DEF x
<1>. QED  BY <1>1, <1>2, PutEffect DEF Found, Moved

(* The exact lookup finds the row of the event's host or goes on to the    *)
(* other form of the host.                                                 *)
LEMMA ExactEffect ==
  ASSUME Shape, NEW r \in Reqs, LookupExact(r)
  PROVE  Found(r, registry[Ev(r).host]) \/ Moved(r, "alt", {})
<1>1. \/ Put(r, [req[r] EXCEPT !.pc = "consent", !.row = registry[Ev(r).host]])
      \/ Put(r, [req[r] EXCEPT !.pc = "alt"])
  BY Zenon DEF LookupExact, Query
<1>. QED  BY <1>1, FoundEffect, MoveEffect, Zenon

(* The second lookup finds the row or ends the whole request with 204. *)
LEMMA AltEffect ==
  ASSUME Shape, NEW r \in Reqs, LookupAlt(r)
  PROVE  \/ Found(r, registry[Alt[Ev(r).host]])
         \/ Answered(r, 204, Append(req[r].out, "unknown"))
<1>1. \/ Put(r, [req[r] EXCEPT !.pc = "consent", !.row = registry[Alt[Ev(r).host]]])
      \/ Answer(r, 204, Append(req[r].out, "unknown"))
  BY Zenon DEF LookupAlt, Query
<1>. QED  BY <1>1, FoundEffect, AnswerEffect, Zenon

(* The cookie of the request after this event's consent. *)
HeldCookie(r) ==
    IF AllowIdentity(req[r].in, req[r].row) /\ req[r].cookie = NoCookie
    THEN IF req[r].in.cookie # NoCookie THEN req[r].in.cookie ELSE r
    ELSE req[r].cookie

Consented(r) ==
    /\ Moved(r, "filter", {"cookie", "chash", "uid", "enforce", "basis"})
    /\ req'[r].cookie = HeldCookie(r)
    /\ req'[r].chash = CookieHash(req[r].row, HeldCookie(r))
    /\ req'[r].uid = (AllowIdentity(req[r].in, req[r].row) /\ Ev(r).uid)
    /\ req'[r].basis = IF Permitted(req[r].in, req[r].row)
                       THEN req[r].basis \cup {req[r].i} ELSE req[r].basis

(* The consent step drops the event or keeps cookie and identifier as the  *)
(* policy of the site says.                                                *)
LEMMA ConsentEffect ==
  ASSUME Shape, NEW r \in Reqs, Consent(r)
  PROVE  LoopGoesOn(r, "dropped") \/ Consented(r)
<1>. DEFINE c == HeldCookie(r)
            h == CookieHash(req[r].row, c)
            u == AllowIdentity(req[r].in, req[r].row) /\ Ev(r).uid
            e == EnforcesEventAllowlist(PolicyToMode(req[r].in, req[r].row))
            b == IF Permitted(req[r].in, req[r].row)
                 THEN req[r].basis \cup {req[r].i} ELSE req[r].basis
            x == [req[r] EXCEPT !.pc = "filter", !.cookie = c, !.chash = h, !.uid = u,
                                !.enforce = e, !.basis = b]
<1>1. NextEvent(r, "dropped") \/ Put(r, x)
  BY Zenon DEF Consent, HeldCookie
<1>. HIDE DEF c, h, u, e, b
<1>2. /\ DOMAIN x = Fields /\ x.pc = "filter" /\ x.cookie = c /\ x.chash = h /\ x.uid = u
      /\ x.basis = b
      /\ \A f \in Fields \ {"pc", "cookie", "chash", "uid", "enforce", "basis"} : x[f] = req[r][f]
  BY DEF Shape, Fields
<1>. HIDE DEF x
<1>3. ASSUME Put(r, x)
      PROVE  Moved(r, "filter", {"cookie", "chash", "uid", "enforce", "basis"}) /\ req'[r] = x
  BY <1>2, <1>3, PutEffect DEF Moved
<1>. QED  BY <1>1, <1>2, <1>3, NextEventEffect, Zenon DEF Consented, c, h, u, b

(* The filter step drops the event or goes on to identity, in which case   *)
(* the filter did not match.                                               *)
LEMMA FilterEffect ==
  ASSUME Shape, NEW r \in Reqs, Filter(r)
  PROVE  LoopGoesOn(r, "dropped") \/ (~Filtered(r) /\ Moved(r, "identity", {}))
<1>1. NextEvent(r, "dropped") \/ (~Filtered(r) /\ Put(r, [req[r] EXCEPT !.pc = "identity"]))
  BY Zenon DEF Filter
<1>. QED  BY <1>1, NextEventEffect, MoveEffect, Zenon

Hashed(r) ==
    /\ Moved(r, "previous", {"hash"})
    /\ req'[r].hash = CurrentHash(req[r].row.id, req[r].in.visitor, req[r].row.tz)

(* The first identity step stores the hash of today. *)
LEMMA IdentityEffect ==
  ASSUME Shape, NEW r \in Reqs, Identity(r)
  PROVE  Hashed(r)
<1>. DEFINE h == CurrentHash(req[r].row.id, req[r].in.visitor, req[r].row.tz)
            x == [req[r] EXCEPT !.pc = "previous", !.hash = h]
<1>1. Put(r, x)
  BY Zenon DEF Identity
<1>. HIDE DEF h
<1>2. /\ DOMAIN x = Fields /\ x.pc = "previous" /\ x.hash = h
      /\ \A f \in Fields \ {"pc", "hash"} : x[f] = req[r][f]
  BY DEF Shape, Fields
<1>. HIDE DEF x
<1>. QED  BY <1>1, <1>2, PutEffect DEF Hashed, Moved, h

PreviousHashed(r) ==
    /\ Moved(r, "burst", {"prev"})
    /\ req'[r].prev = PreviousHash(req[r].row.id, req[r].in.visitor, req[r].row.tz)

(* The second one stores the hash of yesterday, as of its own moment. *)
LEMMA PreviousIdentityEffect ==
  ASSUME Shape, NEW r \in Reqs, PreviousIdentity(r)
  PROVE  PreviousHashed(r)
<1>. DEFINE p == PreviousHash(req[r].row.id, req[r].in.visitor, req[r].row.tz)
            x == [req[r] EXCEPT !.pc = "burst", !.prev = p]
<1>1. Put(r, x)
  BY Zenon DEF PreviousIdentity
<1>. HIDE DEF p
<1>2. /\ DOMAIN x = Fields /\ x.pc = "burst" /\ x.prev = p
      /\ \A f \in Fields \ {"pc", "prev"} : x[f] = req[r][f]
  BY DEF Shape, Fields
<1>. HIDE DEF x
<1>. QED  BY <1>1, <1>2, PutEffect DEF PreviousHashed, Moved, p

(* The burst step drops the event or goes on to the new-visitor filter. *)
LEMMA BurstEffect ==
  ASSUME Shape, NEW r \in Reqs, BurstGate(r)
  PROVE  LoopGoesOn(r, "dropped") \/ Moved(r, "bloom", {})
<1>1. NextEvent(r, "dropped") \/ Put(r, [req[r] EXCEPT !.pc = "bloom"])
  BY Zenon DEF BurstGate
<1>. QED  BY <1>1, NextEventEffect, MoveEffect, Zenon

Marked(r) ==
    Moved(r, "append", {"isNew"}) /\ req'[r].isNew = IsNew(req[r].hash, req[r].prev)

(* The new-visitor step stores the filter's answer, or drops the event and *)
(* loses the mark it has just made.                                        *)
LEMMA BloomEffect ==
  ASSUME Shape, NEW r \in Reqs, Bloom(r)
  PROVE  \/ LoopGoesOn(r, "dropped") /\ Lose(r, IsNew(req[r].hash, req[r].prev))
         \/ Marked(r) /\ lost' = lost
<1>. DEFINE n == IsNew(req[r].hash, req[r].prev)
            x == [req[r] EXCEPT !.pc = "append", !.isNew = n]
<1>1. (NextEvent(r, "dropped") /\ Lose(r, n)) \/ (Put(r, x) /\ lost' = lost)
  BY Zenon DEF Bloom
<1>. HIDE DEF n
<1>2. /\ DOMAIN x = Fields /\ x.pc = "append" /\ x.isNew = n
      /\ \A f \in Fields \ {"pc", "isNew"} : x[f] = req[r][f]
  BY DEF Shape, Fields
<1>. HIDE DEF x
<1>3. ASSUME Put(r, x) PROVE Moved(r, "append", {"isNew"}) /\ req'[r] = x
  BY <1>2, <1>3, PutEffect DEF Moved
<1>. QED  BY <1>1, <1>2, <1>3, NextEventEffect, Zenon DEF Marked, n

(* A failed append ends the whole request with 503. *)
LEMMA AppendErrEffect ==
  ASSUME Shape, NEW r \in Reqs, AppendErr(r)
  PROVE  Answered(r, 503, Append(req[r].out, "lost"))
<1>1. Answer(r, 503, Append(req[r].out, "lost"))
  BY Zenon DEF AppendErr
<1>. QED  BY <1>1, AnswerEffect, Zenon

Cut(r) ==
    /\ DOMAIN req'[r] = Fields
    /\ req[r].pc \notin Steps => req'[r] = req[r]
    /\ req[r].pc \in Steps =>
          /\ req'[r].pc = "cut" /\ req'[r].in = req[r].in /\ req'[r].out = req[r].out
          /\ \A f \in Fields \ {"pc", "in", "out"} : req'[r][f] = Idle[f]

(* The end of the process cuts every request under way and leaves the      *)
(* finished ones.                                                          *)
LEMMA CutOffEffect ==
  ASSUME Shape, CutOff
  PROVE  Shape' /\ \A r \in Reqs : Cut(r)
<1>. DEFINE x(r) == [Idle EXCEPT !.pc = "cut", !.in = req[r].in, !.out = req[r].out]
<1>1. req' = [r \in Reqs |-> IF req[r].pc \in Steps THEN x(r) ELSE req[r]]
  BY Zenon DEF CutOff
<1>2. ASSUME NEW r \in Reqs
      PROVE  /\ DOMAIN x(r) = Fields /\ x(r).pc = "cut" /\ x(r).in = req[r].in /\ x(r).out = req[r].out
             /\ \A f \in Fields \ {"pc", "in", "out"} : x(r)[f] = Idle[f]
  BY DEF Idle, Fields
<1>. HIDE DEF x
<1>3. ASSUME NEW r \in Reqs PROVE Cut(r)
  <2>1. req[r].pc \in Steps => req'[r] = x(r)
    BY <1>1
  <2>2. req[r].pc \notin Steps => req'[r] = req[r]
    BY <1>1
  <2>. QED  BY <2>1, <2>2, <1>2 DEF Cut, Shape
<1>. QED  BY <1>1, <1>3 DEF Shape, Cut
---------------------------------------------------------------------------
(* Back-pressure. *)

FlagTypes == above \in BOOLEAN /\ cachedAbove \in BOOLEAN /\ misread \in BOOLEAN

TickTypes ==
    /\ now \in Nat /\ lastBelow \in Nat /\ lastChecked \in Int /\ took \in Nat
    /\ lastBelow <= now

BelowNow == above = FALSE => lastBelow = now

(* A sample below the threshold: the log was there when its walk began, or *)
(* later.                                                                  *)
SampleOK == cachedAbove = FALSE /\ misread = FALSE => lastChecked - took <= lastBelow

(* A walk that began below the threshold. *)
WalkOK ==
    /\ walk.at \in Nat /\ walk.at <= now
    /\ walk.above \in BOOLEAN
    /\ walk.above = FALSE => walk.at <= lastBelow

FillInv == FlagTypes /\ TickTypes /\ BelowNow /\ SampleOK /\ WalkOK

Recent(r) ==
    \/ req[r].misread = TRUE
    \/ req[r].lag \in Int /\ req[r].took \in Int /\ req[r].lag < Ttl + req[r].took

AdmitInv == Shape /\ FillInv /\ \A r \in Reqs : Recent(r)

(* The gate's invariant holds at the start: the first sample is a TTL old. *)
LEMMA AdmitInit == Init => AdmitInv
<1>. SUFFICES ASSUME Init PROVE AdmitInv
  OBVIOUS
<1>1. FillInv
  <2>1. /\ now = 0 /\ above = FALSE /\ lastBelow = 0 /\ cachedAbove = FALSE /\ misread = FALSE
        /\ took = 0 /\ walk = NoWalk
    BY DEF Init, GatesInit, FillInit
  <2>2. lastChecked = -Ttl
    BY DEF Init, GatesInit, FillInit
  <2>3. lastChecked \in Int /\ lastChecked <= 0
    BY <2>2, GatesAssumption
  <2>4. FlagTypes
    BY <2>1, Zenon DEF FlagTypes
  <2>5. TickTypes
    BY <2>1, <2>3 DEF TickTypes
  <2>6. BelowNow /\ SampleOK
    BY <2>1, <2>3 DEF BelowNow, SampleOK
  <2>7. WalkOK
    BY <2>1 DEF WalkOK, NoWalk
  <2>. QED  BY <2>4, <2>5, <2>6, <2>7 DEF FillInv
<1>2. Shape
  BY IdleShape DEF Init, Shape
<1>3. Idle.lag = 0 /\ Idle.took = 0
  BY DEF Idle
<1>. QED  BY <1>1, <1>2, <1>3, GatesAssumption DEF Init, AdmitInv, Recent

(* What the walk stores keeps the gate's invariant if it is a misreading   *)
(* or an answer that the log gave since the walk began.                    *)
LEMMA StoreEffect ==
  ASSUME FillInv, NEW answer \in BOOLEAN, NEW failed \in BOOLEAN, now' = now,
         StoreSample(answer, failed),
         answer = FALSE /\ failed = FALSE => walk.at <= lastBelow
  PROVE  /\ FillInv' /\ took' \in Int
         /\ answer = FALSE /\ failed = FALSE => now - lastBelow < Ttl + took'
<1>0. FlagTypes /\ TickTypes /\ BelowNow /\ WalkOK
  BY DEF FillInv
<1>1. /\ cachedAbove' = answer /\ lastChecked' = now /\ misread' = failed
      /\ took' = now - walk.at /\ walk' = NoWalk
      /\ above' = above /\ lastBelow' = lastBelow
  BY Zenon DEF StoreSample
<1>2. took' \in Nat
  BY <1>0, <1>1 DEF WalkOK, TickTypes
<1>3. FlagTypes'
  BY <1>0, <1>1, Zenon DEF FlagTypes
<1>4. TickTypes'
  BY <1>0, <1>1, <1>2 DEF TickTypes
<1>5. BelowNow'
  BY <1>0, <1>1, Zenon DEF BelowNow
<1>6. now - (now - walk.at) = walk.at
  BY <1>0 DEF WalkOK, TickTypes
<1>7. SampleOK'
  BY <1>1, <1>6, Zenon DEF SampleOK
<1>8. WalkOK'
  BY <1>0, <1>1 DEF WalkOK, NoWalk, TickTypes
<1>9. ASSUME walk.at <= lastBelow PROVE now - lastBelow < Ttl + took'
  BY <1>0, <1>1, <1>9, GatesAssumption DEF WalkOK, TickTypes
<1>. QED  BY <1>2, <1>3, <1>4, <1>5, <1>7, <1>8, <1>9 DEF FillInv

(* Each of the three ways to answer keeps the gate's invariant, and is     *)
(* 'not degraded' only if the sample was a misreading or the log was below *)
(* the threshold less ago than a TTL and the sample's walk.                *)
LEMMA GateSteps ==
  ASSUME FillInv, NEW degraded \in BOOLEAN, now' = now,
         DegradedCached(degraded) \/ DegradedSample(degraded) \/ DegradedMisread(degraded)
  PROVE  /\ FillInv' /\ took' \in Int
         /\ degraded = FALSE => misread' = TRUE \/ now - lastBelow < Ttl + took'
<1>0. FlagTypes /\ TickTypes /\ BelowNow /\ SampleOK /\ WalkOK
  BY DEF FillInv
<1>1. CASE DegradedCached(degraded)
  <2>1. FillInv'
    BY <1>1, Zenon DEF FillInv, FlagTypes, TickTypes, BelowNow, SampleOK, WalkOK, DegradedCached, fillVars
  <2>2. ASSUME degraded = FALSE, misread = FALSE PROVE now - lastBelow < Ttl + took
    <3>1. lastChecked - took <= lastBelow
      BY <1>0, <1>1, <2>2 DEF SampleOK, DegradedCached
    <3>2. now - lastChecked < Ttl
      BY <1>1 DEF DegradedCached, SampleIsFresh
    <3>. QED  BY <1>0, <3>1, <3>2, GatesAssumption DEF TickTypes
  <2>3. misread' = misread /\ took' = took
    BY <1>1 DEF DegradedCached, fillVars
  <2>4. took' \in Int
    BY <1>0, <2>3 DEF TickTypes
  <2>. QED  BY <1>0, <2>1, <2>2, <2>3, <2>4, Zenon DEF FlagTypes
<1>2. CASE DegradedSample(degraded)
  <2>1. StoreSample(degraded, FALSE) /\ degraded \in {walk.above, above}
    BY <1>2, Zenon DEF DegradedSample
  <2>2. ASSUME degraded = FALSE PROVE walk.at <= lastBelow
    <3>1. CASE walk.above = FALSE
      BY <1>0, <3>1 DEF WalkOK
    <3>2. CASE above = FALSE
      BY <1>0, <3>2 DEF BelowNow, WalkOK
    <3>. QED  BY <2>1, <2>2, <3>1, <3>2
  <2>. QED  BY <2>1, <2>2, StoreEffect
<1>3. CASE DegradedMisread(degraded)
  <2>1. StoreSample(degraded, TRUE) /\ misread' = TRUE
    BY <1>3, Zenon DEF DegradedMisread, StoreSample
  <2>. QED  BY <2>1, StoreEffect
<1>. QED  BY <1>1, <1>2, <1>3

(* The start of a walk takes the state of the log as its own. *)
LEMMA WalkStarts ==
  ASSUME FillInv, now' = now, StartWalk
  PROVE  FillInv'
<1>0. FlagTypes /\ TickTypes /\ BelowNow /\ SampleOK
  BY DEF FillInv
<1>1. /\ walk'.above = above /\ walk'.at = now
      /\ UNCHANGED <<above, lastBelow, cachedAbove, lastChecked, misread, took>>
  BY DEF StartWalk
<1>2. FlagTypes' /\ TickTypes' /\ BelowNow' /\ SampleOK'
  BY <1>0, <1>1 DEF FlagTypes, TickTypes, BelowNow, SampleOK
<1>3. WalkOK'
  <2>1. above = FALSE => now <= lastBelow
    BY <1>0 DEF BelowNow, TickTypes
  <2>2. above \in BOOLEAN /\ now \in Nat /\ now <= now
    BY <1>0 DEF FlagTypes, TickTypes
  <2>. QED  BY <1>1, <2>1, <2>2, Zenon DEF WalkOK
<1>. QED  BY <1>2, <1>3 DEF FillInv

(* What leaves the gate alone. *)
GateKept == UNCHANGED <<now, fillVars>>

(* A step that leaves gate and clock alone keeps the gate's invariant. *)
LEMMA GateKeptEffect == ASSUME FillInv, GateKept PROVE FillInv'
BY DEF FillInv, GateKept, fillVars, FlagTypes, TickTypes, BelowNow, SampleOK, WalkOK

(* A step that keeps lag, took and misread keeps every request's recency. *)
LEMMA RecentMoved ==
  ASSUME AdmitInv, NEW r \in Reqs, NEW pc, NEW F, F \cap {"lag", "took", "misread"} = {},
         Moved(r, pc, F)
  PROVE  Shape' /\ \A q \in Reqs : Recent(q)'
<1>1. /\ req'[r].lag = req[r].lag /\ req'[r].took = req[r].took
      /\ req'[r].misread = req[r].misread
  BY DEF Moved, Fields
<1>. QED  BY <1>1 DEF AdmitInv, Recent, Moved, Only

(* An answer carries the three over. *)
LEMMA RecentAnswered ==
  ASSUME AdmitInv, NEW r \in Reqs, NEW status, NEW out, Answered(r, status, out)
  PROVE  Shape' /\ \A q \in Reqs : Recent(q)'
BY DEF AdmitInv, Recent, Answered, Ended, Only

(* So does either end of the loop body. *)
LEMMA RecentLoop ==
  ASSUME AdmitInv, NEW r \in Reqs, NEW outcome, LoopGoesOn(r, outcome)
  PROVE  Shape' /\ \A q \in Reqs : Recent(q)'
<1>. DEFINE out == Append(req[r].out, outcome)
<1>1. Answered(r, 202, out) \/ Continued(r, out)
  BY Zenon DEF LoopGoesOn
<1>. HIDE DEF out
<1>2. CASE Answered(r, 202, out)
  BY <1>2, RecentAnswered
<1>3. CASE Continued(r, out)
  BY <1>3, RecentMoved DEF Continued
<1>. QED  BY <1>1, <1>2, <1>3

(* A record reset to the initial one has lag 0, below any TTL. *)
LEMMA RecentEnded ==
  ASSUME AdmitInv, NEW r \in Reqs, NEW pc, NEW F, F \cap {"lag", "took", "misread"} = {},
         Ended(r, pc, F)
  PROVE  Shape' /\ \A q \in Reqs : Recent(q)'
<1>1. req'[r].lag = 0 /\ req'[r].took = 0
  BY DEF Ended, Fields, Idle
<1>. QED  BY <1>1, GatesAssumption DEF AdmitInv, Recent, Ended, Only
LaterStep(r) ==
    \/ Serve(r) \/ LookupExact(r) \/ LookupAlt(r) \/ Consent(r) \/ Filter(r)
    \/ Identity(r) \/ PreviousIdentity(r) \/ BurstGate(r) \/ Bloom(r)
    \/ AppendOk(r) \/ AppendErr(r)

(* Past the gate a step answers, goes on within the loop, or moves on, and *)
(* keeps the gate as it is.                                                *)
LEMMA LaterStepKinds ==
  ASSUME Shape, NEW r \in Reqs, LaterStep(r)
  PROVE  /\ GateKept
         /\ \/ \E pc \in Steps, F \in SUBSET (Fields \ {"lag", "took", "misread"}) : Moved(r, pc, F)
            \/ \E status, out : Answered(r, status, out)
            \/ \E outcome : LoopGoesOn(r, outcome)
<1>. DEFINE Kind == \/ \E pc \in Steps, F \in SUBSET (Fields \ {"lag", "took", "misread"}) : Moved(r, pc, F)
                    \/ \E status, out : Answered(r, status, out)
                    \/ \E outcome : LoopGoesOn(r, outcome)
<1>0. ASSUME NEW pc \in Steps, NEW F \in SUBSET (Fields \ {"lag", "took", "misread"}), Moved(r, pc, F) PROVE Kind
  BY <1>0
<1>31. ASSUME NEW status, NEW out, Answered(r, status, out) PROVE Kind
  BY <1>31
<1>32. ASSUME NEW outcome, LoopGoesOn(r, outcome) PROVE Kind
  BY <1>32
<1>. HIDE DEF Kind
<1>1. GateKept
  BY Zenon DEF LaterStep, Serve, LookupExact, LookupAlt, Consent, Filter, Identity,
               PreviousIdentity, BurstGate, Bloom, AppendOk, AppendErr, Ambient, GateKept
<1>33. /\ {} \in SUBSET (Fields \ {"lag", "took", "misread"})
      /\ {"row"} \in SUBSET (Fields \ {"lag", "took", "misread"})
      /\ {"cookie", "chash", "uid", "enforce", "basis"} \in SUBSET (Fields \ {"lag", "took", "misread"})
      /\ {"hash"} \in SUBSET (Fields \ {"lag", "took", "misread"})
      /\ {"prev"} \in SUBSET (Fields \ {"lag", "took", "misread"})
      /\ {"isNew"} \in SUBSET (Fields \ {"lag", "took", "misread"})
  BY DEF Fields
<1>34. {"exact", "alt", "consent", "filter", "identity", "previous", "burst", "bloom",
       "append"} \subseteq Steps
  BY DEF Steps
<1>2. Serve(r) => Kind
  BY <1>0, <1>31, <1>32, <1>33, <1>34, ServeEffect
<1>3. LookupExact(r) => Kind
  BY <1>0, <1>33, <1>34, ExactEffect DEF Found
<1>4. LookupAlt(r) => Kind
  BY <1>0, <1>31, <1>32, <1>33, <1>34, AltEffect DEF Found
<1>5. Consent(r) => Kind
  BY <1>0, <1>31, <1>32, <1>33, <1>34, ConsentEffect DEF Consented
<1>6. Filter(r) => Kind
  BY <1>0, <1>31, <1>32, <1>33, <1>34, FilterEffect
<1>7. Identity(r) => Kind
  BY <1>0, <1>33, <1>34, IdentityEffect DEF Hashed
<1>13. PreviousIdentity(r) => Kind
  BY <1>0, <1>33, <1>34, PreviousIdentityEffect DEF PreviousHashed
<1>8. BurstGate(r) => Kind
  BY <1>0, <1>31, <1>32, <1>33, <1>34, BurstEffect
<1>9. Bloom(r) => Kind
  BY <1>0, <1>31, <1>32, <1>33, <1>34, BloomEffect DEF Marked
<1>10. AppendOk(r) => Kind
  BY <1>32, NextEventEffect, Zenon DEF AppendOk
<1>11. AppendErr(r) => Kind
  BY <1>31, AppendErrEffect
<1>12. Kind
  BY <1>2, <1>3, <1>4, <1>5, <1>6, <1>7, <1>8, <1>9, <1>10, <1>11, <1>13, Zenon DEF LaterStep
<1>. QED  BY <1>1, <1>12 DEF Kind

(* What a step of the specification can be. *)
LEMMA NextCases ==
  ASSUME [Next]_vars
  PROVE  \/ \E r \in Reqs, in \in Inputs : \E status \in {204, 429} : RefusedOutright(r, in, status)
         \/ \E r \in Reqs, in \in Inputs : Arrive(r, in)
         \/ \E r \in Reqs : AtGate(r) \/ LaterStep(r)
         \/ \E s \in Sites, c \in Cookies : OptOut(s, c)
         \/ \E row \in Updates : UpdateSite(row)
         \/ Stop \/ Kill \/ Time \/ Fill \/ UNCHANGED vars
<1>1. CASE Requests
  <2>1. ASSUME NEW r \in Reqs, NEW in \in Inputs,
               ArriveRejected(r, in) \/ ArriveLimited(r, in) \/ Arrive(r, in)
        PROVE  (\E status \in {204, 429} : RefusedOutright(r, in, status)) \/ Arrive(r, in)
    BY <2>1, ZenonT(30) DEF ArriveRejected, ArriveLimited
  <2>2. ASSUME NEW r \in Reqs, Step(r) PROVE AtGate(r) \/ LaterStep(r)
    BY <2>2, Zenon DEF Step, LaterStep, AtGate
  <2>3. CASE \E r \in Reqs : Step(r)
    BY <2>2, <2>3
  <2>4. CASE \E r \in Reqs, in \in Inputs :
               ArriveRejected(r, in) \/ ArriveLimited(r, in) \/ Arrive(r, in)
    BY <2>1, <2>4
  <2>. QED  BY <1>1, <2>3, <2>4, Zenon DEF Requests
<1>. QED  BY <1>1, Zenon DEF Next, Quiet

(* The gate's invariant is inductive, over every step of the handler, the  *)
(* clock and the fill of the log.                                          *)
LEMMA AdmitNext == AdmitInv /\ [Next]_vars => AdmitInv'
<1>. SUFFICES ASSUME AdmitInv, [Next]_vars PROVE AdmitInv'
  OBVIOUS
<1>0. Shape /\ FillInv /\ \A r \in Reqs : Recent(r)
  BY DEF AdmitInv
<1>1. ASSUME NEW r \in Reqs, NEW in, NEW status, RefusedOutright(r, in, status) PROVE AdmitInv'
  <2>1. Ended(r, "done", {"in", "status"})
    BY <1>0, <1>1, RefusedEffect DEF Refused
  <2>2. GateKept
    BY <1>1, Zenon DEF RefusedOutright, Ambient, GateKept
  <2>. QED  BY <1>0, <2>1, <2>2, RecentEnded, GateKeptEffect DEF AdmitInv
<1>2. ASSUME NEW r \in Reqs, NEW in, Arrive(r, in) PROVE AdmitInv'
  <2>1. Ended(r, "gate", {"in", "from", "optedOut"})
    BY <1>0, <1>2, ArriveEffect DEF Arrived
  <2>2. GateKept
    BY <1>2, Zenon DEF Arrive, Ambient, GateKept
  <2>. QED  BY <1>0, <2>1, <2>2, RecentEnded, GateKeptEffect DEF AdmitInv
<1>3. ASSUME NEW r \in Reqs, Backpressure(r) \/ EndWalk(r) PROVE AdmitInv'
  <2>1. PICK degraded \in BOOLEAN :
          /\ DegradedCached(degraded) \/ DegradedSample(degraded) \/ DegradedMisread(degraded)
          /\ GateAnswer(r, degraded)
    BY <1>3, Zenon DEF Backpressure, EndWalk
  <2>2. now' = now
    BY <1>3, Zenon DEF Backpressure, EndWalk, Ambient
  <2>3. /\ FillInv' /\ took' \in Int
        /\ degraded = FALSE => misread' = TRUE \/ now - lastBelow < Ttl + took'
    BY <1>0, <2>1, <2>2, GateSteps
  <2>4. CASE Answered(r, 503, <<>>)
    BY <2>3, <2>4, RecentAnswered DEF AdmitInv
  <2>5. CASE ~degraded /\ Admitted(r)
    <3>1. Recent(r)'
      <4>1. misread' = TRUE \/ now - lastBelow < Ttl + took'
        BY <2>3, <2>5
      <4>2. req'[r].lag = now - lastBelow /\ req'[r].took = took' /\ req'[r].misread = misread'
        BY <2>5, Zenon DEF Admitted
      <4>3. now - lastBelow \in Int
        BY <1>0 DEF FillInv, TickTypes
      <4>. QED  BY <2>3, <4>1, <4>2, <4>3, Zenon DEF Recent
    <3>. QED  BY <1>0, <2>3, <2>5, <3>1 DEF AdmitInv, Admitted, Moved, Only, Recent
  <2>. QED  BY <1>0, <2>1, <2>4, <2>5, GateEffect, Zenon
<1>16. ASSUME NEW r \in Reqs, BeginWalk(r) PROVE AdmitInv'
  <2>1. StartWalk /\ now' = now /\ Moved(r, "walk", {})
    BY <1>0, <1>16, MoveEffect, Zenon DEF BeginWalk, Ambient
  <2>. QED  BY <1>0, <2>1, WalkStarts, RecentMoved DEF AdmitInv
<1>17. ASSUME NEW r \in Reqs, AtGate(r) PROVE AdmitInv'
  BY <1>3, <1>16, <1>17, Zenon DEF AtGate
<1>4. ASSUME NEW r \in Reqs, GateKept,
             \/ \E pc \in Steps, F \in SUBSET (Fields \ {"lag", "took", "misread"}) : Moved(r, pc, F)
             \/ \E status, out : Answered(r, status, out)
             \/ \E outcome : LoopGoesOn(r, outcome)
      PROVE AdmitInv'
  <2>1. Shape' /\ \A q \in Reqs : Recent(q)'
    <3>1. ASSUME NEW pc \in Steps, NEW F \in SUBSET (Fields \ {"lag", "took", "misread"}), Moved(r, pc, F)
          PROVE  Shape' /\ \A q \in Reqs : Recent(q)'
      BY <3>1, RecentMoved
    <3>. QED  BY <1>4, <3>1, RecentAnswered, RecentLoop
  <2>. QED  BY <1>0, <1>4, <2>1, GateKeptEffect DEF AdmitInv
<1>5. ASSUME CutOff PROVE AdmitInv'
  <2>1. FillInv'
    <3>1. /\ cachedAbove' = FALSE /\ lastChecked' = -Ttl /\ misread' = FALSE
          /\ walk' = NoWalk /\ took' = 0 /\ now' = now /\ above' = above /\ lastBelow' = lastBelow
      BY <1>5, Zenon DEF CutOff
    <3>2. FlagTypes'
      BY <1>0, <3>1, Zenon DEF FillInv, FlagTypes
    <3>3. TickTypes'
      BY <1>0, <3>1, GatesAssumption DEF FillInv, TickTypes
    <3>4. BelowNow'
      BY <1>0, <3>1, Zenon DEF FillInv, BelowNow
    <3>5. SampleOK'
      BY <1>0, <3>1, GatesAssumption DEF FillInv, TickTypes, SampleOK
    <3>6. WalkOK'
      BY <1>0, <3>1 DEF FillInv, TickTypes, WalkOK, NoWalk
    <3>. QED  BY <3>2, <3>3, <3>4, <3>5, <3>6 DEF FillInv
  <2>2. Shape' /\ \A r \in Reqs : Cut(r)
    BY <1>0, <1>5, CutOffEffect
  <2>3. ASSUME NEW r \in Reqs PROVE Recent(r)'
    <3>1. CASE req[r].pc \in Steps
      <4>1. req'[r].lag = 0 /\ req'[r].took = 0
        BY <2>2, <3>1 DEF Cut, Fields, Idle
      <4>. QED  BY <4>1, GatesAssumption DEF Recent
    <3>2. CASE req[r].pc \notin Steps
      BY <1>0, <2>2, <3>2 DEF Cut, Recent
    <3>. QED  BY <3>1, <3>2
  <2>. QED  BY <2>1, <2>2, <2>3 DEF AdmitInv
<1>6. ASSUME Tick, req' = req PROVE AdmitInv'
  <2>1. /\ now' = now + 1 /\ lastBelow' = IF above THEN lastBelow ELSE now'
        /\ above' = above /\ cachedAbove' = cachedAbove /\ lastChecked' = lastChecked
        /\ misread' = misread /\ took' = took /\ walk' = walk
    BY <1>6, Zenon DEF Tick
  <2>2. lastBelow' \in Nat /\ lastBelow' >= lastBelow /\ lastBelow' <= now' /\ (above = FALSE => lastBelow' = now')
    BY <1>0, <2>1 DEF FillInv, FlagTypes, TickTypes
  <2>3. FlagTypes'
    BY <1>0, <2>1, Zenon DEF FillInv, FlagTypes
  <2>4. TickTypes'
    BY <1>0, <2>1, <2>2 DEF FillInv, TickTypes
  <2>5. BelowNow'
    BY <2>1, <2>2, Zenon DEF BelowNow
  <2>6. SampleOK'
    <3>1. SUFFICES ASSUME cachedAbove = FALSE, misread = FALSE PROVE lastChecked - took <= lastBelow'
      BY <2>1, Zenon DEF SampleOK
    <3>2. lastChecked - took <= lastBelow
      BY <1>0, <3>1, Zenon DEF FillInv, SampleOK
    <3>. QED  BY <1>0, <2>2, <3>2 DEF FillInv, TickTypes
  <2>7. WalkOK'
    BY <1>0, <2>1, <2>2 DEF FillInv, WalkOK, TickTypes
  <2>. QED  BY <1>0, <1>6, <2>3, <2>4, <2>5, <2>6, <2>7, Zenon DEF AdmitInv, FillInv, Shape, Recent
<1>7. ASSUME FillMoves, req' = req, now' = now PROVE AdmitInv'
  <2>1. /\ above' = ~above /\ lastBelow' = now
        /\ cachedAbove' = cachedAbove /\ lastChecked' = lastChecked
        /\ misread' = misread /\ took' = took /\ walk' = walk
    BY <1>7, Zenon DEF FillMoves
  <2>2. FlagTypes'
    BY <1>0, <2>1, Zenon DEF FillInv, FlagTypes
  <2>3. TickTypes'
    BY <1>0, <1>7, <2>1 DEF FillInv, TickTypes
  <2>4. BelowNow'
    BY <1>7, <2>1, Zenon DEF BelowNow
  <2>5. SampleOK'
    <3>1. SUFFICES ASSUME cachedAbove = FALSE, misread = FALSE PROVE lastChecked - took <= now
      BY <2>1, Zenon DEF SampleOK
    <3>2. lastChecked - took <= lastBelow
      BY <1>0, <3>1, Zenon DEF FillInv, SampleOK
    <3>. QED  BY <1>0, <3>2 DEF FillInv, TickTypes
  <2>6. WalkOK'
    BY <1>0, <1>7, <2>1 DEF FillInv, WalkOK, TickTypes
  <2>. QED  BY <1>0, <1>7, <2>2, <2>3, <2>4, <2>5, <2>6, Zenon DEF AdmitInv, FillInv, Shape, Recent
<1>8. ASSUME GateKept, req' = req PROVE AdmitInv'
  BY <1>0, <1>8, GateKeptEffect, Zenon DEF AdmitInv, Shape, Recent
<1>9. ASSUME NEW r \in Reqs, LaterStep(r) PROVE AdmitInv'
  BY <1>0, <1>4, <1>9, LaterStepKinds
<1>10. CASE \E s \in Sites, c \in Cookies : OptOut(s, c)
  BY <1>8, <1>10, Zenon DEF OptOut, GateKept
<1>11. CASE \E row \in Updates : UpdateSite(row)
  BY <1>8, <1>11, Zenon DEF UpdateSite, GateKept
<1>12. CASE Stop \/ Kill
  BY <1>5, <1>12, Zenon DEF Stop, Kill
<1>13. CASE Time
  BY <1>6, <1>13, Zenon DEF Time
<1>14. CASE Fill
  BY <1>7, <1>14, Zenon DEF Fill
<1>15. CASE UNCHANGED vars
  BY <1>8, <1>15, Zenon DEF vars, GateKept, fillVars
<1>. QED  BY <1>1, <1>2, <1>17, <1>9, <1>10, <1>11, <1>12, <1>13, <1>14, <1>15, NextCases, Zenon

(* Back-pressure: whatever the TTL, however long the walks take and however *)
(* requests, clock and fill interleave, a request is admitted only if the  *)
(* log was below the threshold less ago than a TTL and the length of the   *)
(* walk behind its sample, or if that walk failed.                         *)
THEOREM AdmissionIsRecent == Spec => []AdmittedRecently
<1>1. AdmitInv => AdmittedRecently
  BY DEF AdmitInv, AdmittedRecently, Recent
<1>. QED  BY <1>1, AdmitInit, AdmitNext, PTL DEF Spec
---------------------------------------------------------------------------
(* The log. *)

IsSeq(s) == s \in Seq({s[k] : k \in DOMAIN s})

Extended(x) ==
    /\ Len(log) \in Nat /\ Len(log') = Len(log) + 1
    /\ DOMAIN log = 1..Len(log) /\ DOMAIN log' = 1..Len(log')
    /\ IsSeq(log')
    /\ \A p \in DOMAIN log : p \in DOMAIN log' /\ log'[p] = log[p]
    /\ log'[Len(log')] = x
    /\ \A p \in DOMAIN log' : p \in DOMAIN log \/ p = Len(log')

(* Appending a row keeps the others in place and adds the row at the end. *)
LEMMA AppendEffect ==
  ASSUME IsSeq(log), NEW x, log' = Append(log, x)
  PROVE  Extended(x)
<1>. DEFINE S == {log[k] : k \in DOMAIN log} \cup {x}
            t == Append(log, x)
<1>1. log \in Seq(S) /\ Len(log) \in Nat /\ DOMAIN log = 1..Len(log)
  BY DEF IsSeq
<1>2. t \in Seq(S) /\ Len(t) = Len(log) + 1 /\ DOMAIN t = 1..Len(t)
  BY <1>1
<1>3. \A p \in 1..Len(log) : t[p] = log[p]
  BY <1>1
<1>4. t[Len(log) + 1] = x
  BY <1>1
<1>. HIDE DEF t, S
<1>5. t \in Seq({t[k] : k \in DOMAIN t})
  BY <1>2
<1>6. log' = t
  BY DEF t
<1>. QED  BY <1>1, <1>2, <1>3, <1>4, <1>5, <1>6 DEF Extended, IsSeq
(* A step past the gate appends this event's row at most, and only when    *)
(* the event stands before the log.                                        *)
LEMMA LogStep ==
  ASSUME NEW r \in Reqs, LaterStep(r)
  PROVE  \/ log' = log
         \/ req[r].pc = "append" /\ log' = Append(log, LogRow(r))
BY Zenon DEF LaterStep, Serve, LookupExact, LookupAlt, Consent, Filter, Identity,
             PreviousIdentity, BurstGate, Bloom, AppendOk, AppendErr, rowVars

---------------------------------------------------------------------------
(* Identifiers and opt-outs. *)

(* The steps behind the opt-out filter. *)
Past == {"identity", "previous", "burst", "bloom", "append"}

IdentOK(r) ==
    /\ req[r].cookie # NoCookie => req[r].basis # {}
    /\ req[r].chash # <<>> => req[r].basis # {}
    /\ req[r].uid = TRUE => req[r].basis # {}

OptOutOK(r) ==
    /\ req[r].optedOut \subseteq suppressed
    /\ req[r].pc \in Past => req[r].chash \notin req[r].optedOut

PrivRow(m) ==
    /\ m.cookie # <<>> \/ m.uid = TRUE => m.basis = TRUE
    /\ m.late = FALSE

PrivacyInv ==
    /\ Shape /\ IsSeq(log)
    /\ \A r \in Reqs : IdentOK(r) /\ OptOutOK(r)
    /\ \A p \in DOMAIN log : PrivRow(log[p])

(* The other requests keep their privacy invariant: the opt-outs only      *)
(* grow.                                                                   *)
LEMMA PrivFrame ==
  ASSUME PrivacyInv, NEW r \in Reqs, Shape', Only(r), suppressed \subseteq suppressed'
  PROVE  \A q \in Reqs : q # r => IdentOK(q)' /\ OptOutOK(q)'
BY DEF PrivacyInv, Only, IdentOK, OptOutOK

(* A request whose record is reset has no identifier and no basis to       *)
(* account for.                                                            *)
LEMMA PrivEnded ==
  ASSUME PrivacyInv, NEW r \in Reqs, suppressed' = suppressed,
         NEW pc \in {"done", "gate"}, NEW F, F \cap {"cookie", "chash", "uid"} = {},
         Ended(r, pc, F), req'[r].optedOut \subseteq suppressed
  PROVE  Shape' /\ \A q \in Reqs : IdentOK(q)' /\ OptOutOK(q)'
<1>1. req'[r].cookie = NoCookie /\ req'[r].chash = <<>> /\ req'[r].uid = FALSE
  BY DEF Ended, Fields, Idle
<1>2. IdentOK(r)'
  BY <1>1 DEF IdentOK
<1>3. OptOutOK(r)'
  BY DEF OptOutOK, Ended, Past
<1>. QED  BY <1>2, <1>3, PrivFrame DEF Ended

(* An answer resets cookie, hash and identifier. *)
LEMMA PrivAnswered ==
  ASSUME PrivacyInv, NEW r \in Reqs, suppressed' = suppressed,
         NEW status, NEW out, Answered(r, status, out)
  PROVE  Shape' /\ \A q \in Reqs : IdentOK(q)' /\ OptOutOK(q)'
<1>1. req'[r].optedOut = {}
  BY DEF Answered, Ended, Fields, Idle
<1>. QED  BY <1>1, PrivEnded DEF Answered

(* The next event of a request starts without cookie hash and identifier;  *)
(* the basis an earlier event gave stays.                                  *)
LEMMA PrivLoop ==
  ASSUME PrivacyInv, NEW r \in Reqs, suppressed' = suppressed,
         NEW outcome, LoopGoesOn(r, outcome)
  PROVE  Shape' /\ \A q \in Reqs : IdentOK(q)' /\ OptOutOK(q)'
<1>. DEFINE out == Append(req[r].out, outcome)
<1>1. Answered(r, 202, out) \/ Continued(r, out)
  BY Zenon DEF LoopGoesOn
<1>. HIDE DEF out
<1>2. CASE Continued(r, out)
  <2>1. /\ req'[r].cookie = req[r].cookie /\ req'[r].basis = req[r].basis
        /\ req'[r].optedOut = req[r].optedOut
        /\ req'[r].chash = <<>> /\ req'[r].uid = FALSE /\ req'[r].pc = "exact"
    BY <1>2 DEF Continued, Moved, Fields
  <2>2. IdentOK(r)' /\ OptOutOK(r)'
    BY <2>1 DEF PrivacyInv, IdentOK, OptOutOK, Past
  <2>. QED  BY <1>2, <2>2, PrivFrame DEF Continued, Moved
<1>. QED  BY <1>1, <1>2, PrivAnswered

(* A step that touches none of the privacy fields keeps the invariant, and *)
(* may pass the opt-out check only with a hash that is not opted out.      *)
LEMMA PrivMoved ==
  ASSUME PrivacyInv, NEW r \in Reqs, suppressed' = suppressed,
         NEW pc, NEW F, F \cap {"cookie", "chash", "uid", "basis", "optedOut"} = {},
         Moved(r, pc, F),
         pc \in Past => req[r].chash \notin req[r].optedOut
  PROVE  Shape' /\ \A q \in Reqs : IdentOK(q)' /\ OptOutOK(q)'
<1>1. /\ req'[r].cookie = req[r].cookie /\ req'[r].basis = req[r].basis
      /\ req'[r].optedOut = req[r].optedOut
      /\ req'[r].chash = req[r].chash /\ req'[r].uid = req[r].uid /\ req'[r].pc = pc
  BY DEF Moved, Fields
<1>2. IdentOK(r)' /\ OptOutOK(r)'
  BY <1>1 DEF PrivacyInv, IdentOK, OptOutOK
<1>. QED  BY <1>2, PrivFrame DEF Moved

(* The mode table: identity is allowed only where it is permitted. *)
LEMMA AllowedIsPermitted ==
  ASSUME NEW in, NEW row, AllowIdentity(in, row)
  PROVE  Permitted(in, row)
<1>1. CASE row.mode = "consent-required"
  <2>1. PolicyToMode(in, row) = IF HasValidConsent(in, row.id) THEN "permissive" ELSE "consent-required"
    BY <1>1 DEF PolicyToMode
  <2>. QED  BY <1>1, <2>1 DEF AllowIdentity, Permitted, ConsentDenied, AllowsIdentifier, HasValidConsent
<1>2. CASE row.mode = "hybrid"
  <2>1. PolicyToMode(in, row) = IF HasValidConsent(in, row.id) THEN "hybrid-post" ELSE "hybrid-pre"
    BY <1>2 DEF PolicyToMode
  <2>. QED  BY <1>2, <2>1 DEF AllowIdentity, Permitted, ConsentDenied, AllowsIdentifier, HasValidConsent
<1>3. CASE row.mode \notin {"consent-required", "hybrid"}
  <2>1. PolicyToMode(in, row) = row.mode
    BY <1>3 DEF PolicyToMode
  <2>. QED  BY <1>3, <2>1 DEF AllowIdentity, Permitted, ConsentDenied, AllowsIdentifier, HasValidConsent
<1>. QED  BY <1>1, <1>2, <1>3

(* The consent step keeps an identifier only with a basis, which it        *)
(* records.                                                                *)
LEMMA PrivConsented ==
  ASSUME PrivacyInv, NEW r \in Reqs, suppressed' = suppressed, Consented(r)
  PROVE  Shape' /\ \A q \in Reqs : IdentOK(q)' /\ OptOutOK(q)'
<1>0. IdentOK(r) /\ OptOutOK(r)
  BY DEF PrivacyInv
<1>1. req'[r].optedOut = req[r].optedOut /\ req'[r].pc = "filter"
  BY DEF Consented, Moved, Fields
<1>2. OptOutOK(r)'
  BY <1>0, <1>1 DEF OptOutOK, Past
<1>. DEFINE allow == AllowIdentity(req[r].in, req[r].row)
<1>3. req[r].basis # {} => req'[r].basis # {}
  BY DEF Consented
<1>4. allow => req'[r].basis # {}
  BY AllowedIsPermitted DEF Consented
<1>5. req'[r].cookie # NoCookie => allow \/ req[r].cookie # NoCookie
  BY Zenon DEF Consented, HeldCookie
<1>6. req'[r].chash # <<>> => req'[r].cookie # NoCookie
  BY Zenon DEF Consented, CookieHash
<1>7. req'[r].uid = TRUE => allow
  BY DEF Consented
<1>. HIDE DEF allow
<1>8. IdentOK(r)'
  BY <1>0, <1>3, <1>4, <1>5, <1>6, <1>7 DEF IdentOK
<1>. QED  BY <1>2, <1>8, PrivFrame DEF Consented, Moved

(* The privacy invariant holds at the start. *)
LEMMA PrivacyInit == Init => PrivacyInv
<1>. SUFFICES ASSUME Init PROVE PrivacyInv
  OBVIOUS
<1>1. Shape
  BY IdleShape DEF Init, Shape
<1>2. log = <<>> /\ DOMAIN log = {} /\ IsSeq(log)
  BY DEF Init, IsSeq
<1>3. Idle.cookie = NoCookie /\ Idle.chash = <<>> /\ Idle.uid = FALSE /\ Idle.optedOut = {} /\ Idle.pc = "idle"
  BY DEF Idle
<1>4. ASSUME NEW r \in Reqs PROVE IdentOK(r) /\ OptOutOK(r)
  <2>1. req[r] = Idle
    BY DEF Init
  <2>. QED  BY <1>3, <2>1 DEF IdentOK, OptOutOK, Past
<1>. QED  BY <1>1, <1>2, <1>4 DEF PrivacyInv

(* The row a step appends has a basis for its identifiers and no opted-out *)
(* hash.                                                                   *)
LEMMA PrivLog ==
  ASSUME PrivacyInv, NEW r \in Reqs, LaterStep(r)
  PROVE  IsSeq(log') /\ \A p \in DOMAIN log' : PrivRow(log'[p])
<1>1. CASE log' = log
  BY <1>1 DEF PrivacyInv
<1>2. CASE req[r].pc = "append" /\ log' = Append(log, LogRow(r))
  <2>1. Extended(LogRow(r))
    BY <1>2, AppendEffect DEF PrivacyInv
  <2>2. IdentOK(r) /\ OptOutOK(r)
    BY DEF PrivacyInv
  <2>3. /\ LogRow(r).cookie = req[r].chash /\ LogRow(r).uid = req[r].uid
        /\ LogRow(r).basis = (req[r].basis # {})
        /\ LogRow(r).late = (req[r].chash \in req[r].optedOut)
    BY DEF LogRow
  <2>4. req[r].chash \notin req[r].optedOut
    BY <1>2, <2>2 DEF OptOutOK, Past
  <2>5. PrivRow(LogRow(r))
    <3>1. LogRow(r).late = FALSE
      <4>1. (req[r].chash \in req[r].optedOut) = FALSE
        BY <2>4
      <4>. QED  BY <2>3, <4>1, Zenon
    <3>2. LogRow(r).cookie # <<>> \/ LogRow(r).uid = TRUE => req[r].basis # {}
      BY <2>2, <2>3 DEF IdentOK
    <3>3. req[r].basis # {} => LogRow(r).basis = TRUE
      BY <2>3
    <3>. QED  BY <3>1, <3>2, <3>3, Zenon DEF PrivRow
  <2>. QED  BY <2>1, <2>5 DEF Extended, PrivacyInv
<1>. QED  BY <1>1, <1>2, LogStep

(* Every step past the gate keeps the privacy invariant of every request. *)
LEMMA PrivStep ==
  ASSUME PrivacyInv, NEW r \in Reqs, LaterStep(r)
  PROVE  Shape' /\ \A q \in Reqs : IdentOK(q)' /\ OptOutOK(q)'
<1>. DEFINE Goal == Shape' /\ \A q \in Reqs : IdentOK(q)' /\ OptOutOK(q)'
<1>1. Shape /\ IdentOK(r) /\ OptOutOK(r)
  BY DEF PrivacyInv
<1>2. suppressed' = suppressed
  BY Zenon DEF LaterStep, Serve, LookupExact, LookupAlt, Consent, Filter, Identity,
               PreviousIdentity, BurstGate, Bloom, AppendOk, AppendErr, Ambient
<1>3. Serve(r) => Goal
  BY <1>1, <1>2, ServeEffect, PrivAnswered, PrivMoved, "exact" \notin Past DEF Past
<1>4. LookupExact(r) => Goal
  BY <1>1, <1>2, ExactEffect, PrivMoved DEF Found, Past
<1>5. LookupAlt(r) => Goal
  BY <1>1, <1>2, AltEffect, PrivAnswered, PrivMoved DEF Found, Past
<1>6. Consent(r) => Goal
  BY <1>1, <1>2, ConsentEffect, PrivLoop, PrivConsented
<1>7. Filter(r) => Goal
  <2>1. ~Filtered(r) => req[r].chash \notin req[r].optedOut
    BY <1>1 DEF Filtered, IsOptedOut, OptOutOK
  <2>. QED  BY <1>1, <1>2, <2>1, FilterEffect, PrivLoop, PrivMoved
<1>8. Identity(r) => Goal
  <2>1. Identity(r) => req[r].chash \notin req[r].optedOut
    BY <1>1 DEF Identity, OptOutOK, Past
  <2>. QED  BY <1>1, <1>2, <2>1, IdentityEffect, PrivMoved DEF Hashed
<1>13. PreviousIdentity(r) => Goal
  <2>1. PreviousIdentity(r) => req[r].chash \notin req[r].optedOut
    BY <1>1 DEF PreviousIdentity, OptOutOK, Past
  <2>. QED  BY <1>1, <1>2, <2>1, PreviousIdentityEffect, PrivMoved DEF PreviousHashed
<1>9. BurstGate(r) => Goal
  <2>1. BurstGate(r) => req[r].chash \notin req[r].optedOut
    BY <1>1 DEF BurstGate, OptOutOK, Past
  <2>. QED  BY <1>1, <1>2, <2>1, BurstEffect, PrivLoop, PrivMoved
<1>10. Bloom(r) => Goal
  <2>1. Bloom(r) => req[r].chash \notin req[r].optedOut
    BY <1>1 DEF Bloom, OptOutOK, Past
  <2>. QED  BY <1>1, <1>2, <2>1, BloomEffect, PrivLoop, PrivMoved DEF Marked
<1>11. AppendOk(r) => Goal
  <2>1. AppendOk(r) => LoopGoesOn(r, "logged")
    BY <1>1, NextEventEffect, Zenon DEF AppendOk
  <2>. QED  BY <1>2, <2>1, PrivLoop
<1>12. AppendErr(r) => Goal
  BY <1>1, <1>2, AppendErrEffect, PrivAnswered
<1>. QED  BY <1>3, <1>4, <1>5, <1>6, <1>7, <1>8, <1>9, <1>10, <1>11, <1>12, <1>13, Zenon DEF LaterStep

(* The privacy invariant is inductive. *)
LEMMA PrivacyNext == PrivacyInv /\ [Next]_vars => PrivacyInv'
<1>. SUFFICES ASSUME PrivacyInv, [Next]_vars PROVE PrivacyInv'
  OBVIOUS
<1>0. Shape /\ (\A r \in Reqs : IdentOK(r) /\ OptOutOK(r))
  BY DEF PrivacyInv
<1>1. ASSUME NEW r \in Reqs, NEW in, NEW status, RefusedOutright(r, in, status) PROVE PrivacyInv'
  <2>1. Ended(r, "done", {"in", "status"})
    BY <1>0, <1>1, RefusedEffect DEF Refused
  <2>2. req'[r].optedOut = {}
    BY <2>1 DEF Ended, Fields, Idle
  <2>3. suppressed' = suppressed /\ log' = log
    BY <1>1, Zenon DEF RefusedOutright, Ambient, rowVars
  <2>4. Shape' /\ \A q \in Reqs : IdentOK(q)' /\ OptOutOK(q)'
    BY <2>1, <2>2, <2>3, PrivEnded
  <2>. QED  BY <2>3, <2>4 DEF PrivacyInv
<1>2. ASSUME NEW r \in Reqs, NEW in, Arrive(r, in) PROVE PrivacyInv'
  <2>1. Ended(r, "gate", {"in", "from", "optedOut"}) /\ req'[r].optedOut = suppressed
    BY <1>0, <1>2, ArriveEffect DEF Arrived
  <2>3. suppressed' = suppressed /\ log' = log
    BY <1>2, Zenon DEF Arrive, Ambient, rowVars
  <2>4. Shape' /\ \A q \in Reqs : IdentOK(q)' /\ OptOutOK(q)'
    BY <2>1, <2>3, PrivEnded
  <2>. QED  BY <2>3, <2>4 DEF PrivacyInv
<1>3. ASSUME NEW r \in Reqs, AtGate(r) PROVE PrivacyInv'
  <2>1. suppressed' = suppressed /\ log' = log
    BY <1>0, <1>3, AtGateEffect DEF Ambient, rowVars
  <2>2. \/ Answered(r, 503, <<>>)
        \/ \E pc \in {"walk", "serve"} : Moved(r, pc, {"lag", "took", "misread"})
    BY <1>0, <1>3, AtGateEffect
  <2>3. Shape' /\ \A q \in Reqs : IdentOK(q)' /\ OptOutOK(q)'
    <3>1. ASSUME NEW pc \in {"walk", "serve"}, Moved(r, pc, {"lag", "took", "misread"})
          PROVE  Shape' /\ \A q \in Reqs : IdentOK(q)' /\ OptOutOK(q)'
      BY <2>1, <3>1, PrivMoved DEF Past
    <3>. QED  BY <2>1, <2>2, <3>1, PrivAnswered
  <2>. QED  BY <2>1, <2>3 DEF PrivacyInv
<1>4. ASSUME NEW r \in Reqs, LaterStep(r) PROVE PrivacyInv'
  BY <1>4, PrivStep, PrivLog DEF PrivacyInv
<1>5. CASE CutOff
  <2>1. Shape' /\ \A r \in Reqs : Cut(r)
    BY <1>0, <1>5, CutOffEffect
  <2>2. suppressed' = suppressed /\ log' = log
    BY <1>5, Zenon DEF CutOff
  <2>3. ASSUME NEW r \in Reqs PROVE IdentOK(r)' /\ OptOutOK(r)'
    <3>1. CASE req[r].pc \in Steps
      <4>1. /\ req'[r].cookie = NoCookie /\ req'[r].chash = <<>> /\ req'[r].uid = FALSE
            /\ req'[r].optedOut = {} /\ req'[r].pc = "cut"
        BY <2>1, <3>1 DEF Cut, Fields, Idle
      <4>. QED  BY <4>1 DEF IdentOK, OptOutOK, Past
    <3>2. CASE req[r].pc \notin Steps
      BY <1>0, <2>1, <2>2, <3>2 DEF Cut, IdentOK, OptOutOK
    <3>. QED  BY <3>1, <3>2
  <2>. QED  BY <2>1, <2>2, <2>3 DEF PrivacyInv
<1>6. ASSUME req' = req, log' = log, suppressed \subseteq suppressed' PROVE PrivacyInv'
  BY <1>6 DEF PrivacyInv, Shape, IdentOK, OptOutOK
<1>10. CASE \E s \in Sites, c \in Cookies : OptOut(s, c)
  BY <1>6, <1>10 DEF OptOut, rowVars
<1>11. CASE \E row \in Updates : UpdateSite(row)
  BY <1>6, <1>11 DEF UpdateSite, rowVars
<1>12. CASE Stop \/ Kill
  BY <1>5, <1>12, Zenon DEF Stop, Kill
<1>13. CASE Time \/ Fill
  BY <1>6, <1>13 DEF Time, Fill, rowVars
<1>15. CASE UNCHANGED vars
  BY <1>6, <1>15 DEF vars, rowVars
<1>. QED  BY <1>1, <1>2, <1>3, <1>4, <1>10, <1>11, <1>12, <1>13, <1>15, NextCases, Zenon

(* Privacy: for all sites, policies and requests, an identifier reaches    *)
(* the log only if some event of the request had a basis for it.           *)
THEOREM IdentifiersHaveBasis == Spec => []IdentifierHasBasis
<1>1. PrivacyInv => IdentifierHasBasis
  BY DEF PrivacyInv, IdentifierHasBasis, Rows, PrivRow
<1>. QED  BY <1>1, PrivacyInit, PrivacyNext, PTL DEF Spec

(* Privacy: a visitor hash that was opted out when the request arrived     *)
(* never reaches the log, however opt-outs, policy changes and requests    *)
(* interleave.                                                             *)
THEOREM OptOutIsHonoured == Spec => []OptOutHonoured
<1>1. PrivacyInv => OptOutHonoured
  BY DEF PrivacyInv, OptOutHonoured, Rows, PrivRow
<1>. QED  BY <1>1, PrivacyInit, PrivacyNext, PTL DEF Spec
---------------------------------------------------------------------------
(* Answers. *)

Loop == {"exact", "alt", "consent", "filter", "identity", "previous", "burst", "bloom",
         "append"}

Good == {"logged", "dropped"}

Outcomes == {"logged", "dropped", "unknown", "lost"}

Backed(r) ==
    \A k \in DOMAIN req[r].out : req[r].out[k] = "logged" =>
        \E p \in DOMAIN log : log[p].req = r /\ log[p].i = k

Started(r) == req[r].pc \in {"gate", "walk", "serve"} => req[r].out = <<>> /\ req[r].i = 1

InLoop(r) ==
    req[r].pc \in Loop =>
        /\ req[r].i \in Nat /\ 1 <= req[r].i /\ req[r].i <= Len(req[r].in.events)
        /\ req[r].out \in Seq(Good) /\ Len(req[r].out) = req[r].i - 1

Given(r) ==
    req[r].status = 202 =>
        req[r].out \in Seq(Good) /\ Len(req[r].out) = Len(req[r].in.events)

Carried(r) == req[r].pc \in Steps => req[r].in \in Inputs /\ req[r].status = 0

ReplyOK(r) ==
    /\ req[r].out \in Seq(Outcomes)
    /\ Started(r) /\ InLoop(r) /\ Given(r) /\ Carried(r) /\ Backed(r)

ReplyInv == Shape /\ IsSeq(log) /\ \A r \in Reqs : ReplyOK(r)

LogGrows == \A p \in DOMAIN log : p \in DOMAIN log' /\ log'[p] = log[p]

(* What appending does to a sequence of outcomes. *)
LEMMA OutAppend ==
  ASSUME NEW S, NEW q \in Seq(S), NEW x \in S
  PROVE  /\ Append(q, x) \in Seq(S) /\ Len(q) \in Nat /\ Len(Append(q, x)) = Len(q) + 1
         /\ DOMAIN q = 1..Len(q) /\ DOMAIN Append(q, x) = 1..(Len(q) + 1)
         /\ \A k \in 1..Len(q) : Append(q, x)[k] = q[k]
         /\ Append(q, x)[Len(q) + 1] = x
  OBVIOUS

(* The outcomes of a 202 answer are outcomes. *)
LEMMA GoodOutcomes == ASSUME NEW q \in Seq(Good) PROVE q \in Seq(Outcomes)
  BY DEF Good, Outcomes

(* Outcomes 'logged' stay backed by their rows as the log grows. *)
LEMMA BackedKept ==
  ASSUME NEW r \in Reqs, Backed(r), LogGrows, req'[r].out = req[r].out
  PROVE  Backed(r)'
BY DEF Backed, LogGrows

(* A step of r keeps what is true of the other requests' answers, since    *)
(* the log only grows.                                                     *)
LEMMA ReplyFrame ==
  ASSUME ReplyInv, NEW r \in Reqs, Only(r), LogGrows
  PROVE  \A q \in Reqs : q # r => ReplyOK(q)'
<1>. SUFFICES ASSUME NEW q \in Reqs, q # r PROVE ReplyOK(q)'
  OBVIOUS
<1>1. req'[q] = req[q] /\ ReplyOK(q)
  BY DEF Only, ReplyInv
<1>2. Backed(q)'
  BY <1>1, BackedKept DEF ReplyOK
<1>. QED  BY <1>1, <1>2, Zenon DEF ReplyOK, Started, InLoop, Given, Carried

(* An appended outcome keeps the account: a logged one has its row. *)
LEMMA BackedAppend ==
  ASSUME NEW r \in Reqs, Backed(r), LogGrows, req[r].out \in Seq(Outcomes),
         NEW x \in Outcomes, req'[r].out = Append(req[r].out, x),
         x = "logged" => \E p \in DOMAIN log' : log'[p].req = r /\ log'[p].i = Len(req[r].out) + 1
  PROVE  Backed(r)' /\ req'[r].out \in Seq(Outcomes)
<1>. DEFINE q == req[r].out
            t == Append(q, x)
<1>1. /\ t \in Seq(Outcomes) /\ Len(q) \in Nat
      /\ DOMAIN q = 1..Len(q) /\ DOMAIN t = 1..(Len(q) + 1)
      /\ \A k \in 1..Len(q) : t[k] = q[k]
      /\ t[Len(q) + 1] = x
  BY OutAppend
<1>. HIDE DEF t
<1>2. req'[r].out = t
  BY DEF t
<1>3. ASSUME NEW k \in DOMAIN t, t[k] = "logged"
      PROVE  \E p \in DOMAIN log' : log'[p].req = r /\ log'[p].i = k
  <2>1. CASE k = Len(q) + 1
    BY <1>1, <1>3, <2>1
  <2>2. CASE k # Len(q) + 1
    <3>1. k \in DOMAIN q /\ q[k] = "logged"
      BY <1>1, <1>3, <2>2
    <3>. QED  BY <3>1 DEF Backed, LogGrows
  <2>. QED  BY <2>1, <2>2
<1>. QED  BY <1>1, <1>2, <1>3 DEF Backed

(* Either end of the loop body keeps one outcome per event handled, and    *)
(* each 'logged' outcome has its row.                                      *)
LEMMA ReplyLoop ==
  ASSUME ReplyInv, NEW r \in Reqs, req[r].pc \in Loop, LogGrows, NEW outcome \in Good,
         outcome = "logged" => \E p \in DOMAIN log' : log'[p].req = r /\ log'[p].i = req[r].i,
         LoopGoesOn(r, outcome)
  PROVE  Shape' /\ \A q \in Reqs : ReplyOK(q)'
<1>. DEFINE t == Append(req[r].out, outcome)
<1>1. ReplyOK(r) /\ req[r].pc \in Steps
  BY DEF ReplyInv, Loop, Steps
<1>2. /\ req[r].i \in Nat /\ 1 <= req[r].i /\ req[r].i <= Len(req[r].in.events)
      /\ req[r].out \in Seq(Good) /\ Len(req[r].out) = req[r].i - 1
      /\ req[r].in \in Inputs /\ req[r].status = 0
  BY <1>1 DEF ReplyOK, InLoop, Carried
<1>3. t \in Seq(Good) /\ Len(t) = req[r].i
  BY <1>2, OutAppend
<1>4. \/ req[r].i = Len(req[r].in.events) /\ Answered(r, 202, t)
      \/ req[r].i # Len(req[r].in.events) /\ Continued(r, t)
  BY Zenon DEF LoopGoesOn
<1>5. req'[r].out = t
  BY <1>4 DEF Answered, Continued
<1>6. Backed(r)' /\ req'[r].out \in Seq(Outcomes)
  <2>1. outcome \in Outcomes /\ req[r].out \in Seq(Outcomes) /\ Backed(r)
    BY <1>1 DEF Good, Outcomes, ReplyOK
  <2>2. Len(req[r].out) + 1 = req[r].i
    BY <1>2
  <2>. QED  BY <1>5, <2>1, <2>2, BackedAppend
<1>. HIDE DEF t
<1>7. CASE req[r].i = Len(req[r].in.events) /\ Answered(r, 202, t)
  <2>1. req'[r].pc = "done" /\ req'[r].in = req[r].in /\ req'[r].status = 202 /\ Shape' /\ Only(r)
    BY <1>7 DEF Answered, Ended
  <2>2. Started(r)' /\ InLoop(r)' /\ Carried(r)'
    BY <2>1 DEF Started, InLoop, Carried, Loop, Steps
  <2>3. Given(r)'
    BY <1>3, <1>5, <1>7, <2>1 DEF Given
  <2>. QED  BY <1>6, <2>1, <2>2, <2>3, ReplyFrame DEF ReplyOK
<1>8. CASE req[r].i # Len(req[r].in.events) /\ Continued(r, t)
  <2>1. /\ req'[r].pc = "exact" /\ req'[r].in = req[r].in /\ req'[r].status = 0
        /\ req'[r].i = req[r].i + 1 /\ Shape' /\ Only(r)
    BY <1>2, <1>8 DEF Continued, Moved, Fields
  <2>2. Started(r)' /\ Carried(r)' /\ Given(r)'
    BY <1>2, <2>1 DEF Started, Carried, Given
  <2>3. InLoop(r)'
    <3>1. Len(req[r].in.events) \in Nat
      BY <1>2, HandlerAssumption DEF InputType
    <3>. QED  BY <1>2, <1>3, <1>5, <1>8, <2>1, <3>1 DEF InLoop
  <2>. QED  BY <1>6, <2>1, <2>2, <2>3, ReplyFrame DEF ReplyOK
<1>. QED  BY <1>4, <1>7, <1>8

(* An answer other than 202 promises no more than its outcomes. *)
LEMMA ReplyRefused ==
  ASSUME ReplyInv, NEW r \in Reqs, LogGrows, NEW status, NEW out, status # 202,
         Answered(r, status, out), Backed(r)', out \in Seq(Outcomes)
  PROVE  Shape' /\ \A q \in Reqs : ReplyOK(q)'
<1>1. /\ req'[r].pc = "done" /\ req'[r].in = req[r].in /\ req'[r].status = status
      /\ req'[r].out = out /\ Shape' /\ Only(r)
  BY DEF Answered, Ended
<1>2. Started(r)' /\ InLoop(r)' /\ Carried(r)' /\ Given(r)'
  BY <1>1 DEF Started, InLoop, Carried, Loop, Steps, Given
<1>. QED  BY <1>1, <1>2, ReplyFrame DEF ReplyOK

(* An answer without outcomes promises nothing of the log. *)
LEMMA ReplyAnswered ==
  ASSUME ReplyInv, NEW r \in Reqs, LogGrows, NEW status, status # 202,
         Answered(r, status, <<>>)
  PROVE  Shape' /\ \A q \in Reqs : ReplyOK(q)'
<1>1. req'[r].out = <<>>
  BY DEF Answered
<1>2. Backed(r)' /\ <<>> \in Seq(Outcomes)
  BY <1>1 DEF Backed
<1>. QED  BY <1>2, ReplyRefused

(* An answer that ends the loop early keeps the outcomes before it. *)
LEMMA ReplyFailed ==
  ASSUME ReplyInv, NEW r \in Reqs, LogGrows, NEW x \in {"unknown", "lost"},
         NEW status, status # 202, Answered(r, status, Append(req[r].out, x))
  PROVE  Shape' /\ \A q \in Reqs : ReplyOK(q)'
<1>. DEFINE out == Append(req[r].out, x)
<1>1. Answered(r, status, out) /\ out = Append(req[r].out, x) /\ req'[r].out = out
  BY DEF Answered
<1>. HIDE DEF out
<1>2. x \in Outcomes /\ x # "logged" /\ Backed(r) /\ req[r].out \in Seq(Outcomes)
  BY DEF Outcomes, ReplyInv, ReplyOK
<1>3. Backed(r)' /\ out \in Seq(Outcomes)
  BY <1>1, <1>2, BackedAppend
<1>. QED  BY <1>1, <1>3, ReplyRefused

(* A request reset to the initial record has no outcomes. *)
LEMMA ReplyEnded ==
  ASSUME ReplyInv, NEW r \in Reqs, LogGrows, NEW pc \in {"done", "gate"},
         NEW F, F \cap {"out", "i"} = {}, Ended(r, pc, F),
         req'[r].status # 202, pc = "gate" => req'[r].in \in Inputs /\ req'[r].status = 0
  PROVE  Shape' /\ \A q \in Reqs : ReplyOK(q)'
<1>1. req'[r].pc = pc /\ req'[r].out = <<>> /\ req'[r].i = 1 /\ Shape' /\ Only(r)
  BY DEF Ended, Fields, Idle
<1>2. Started(r)' /\ InLoop(r)' /\ Carried(r)' /\ Given(r)'
  BY <1>1 DEF Started, InLoop, Carried, Loop, Steps, Given
<1>3. Backed(r)' /\ req'[r].out \in Seq(Outcomes)
  BY <1>1 DEF Backed
<1>4. ReplyOK(r)'
  BY <1>2, <1>3, Zenon DEF ReplyOK
<1>5. \A q \in Reqs : q # r => ReplyOK(q)'
  BY <1>1, ReplyFrame, Zenon
<1>. QED  BY <1>1, <1>4, <1>5, Zenon

(* A step within the loop keeps position, outcomes and input. *)
LEMMA ReplyMoved ==
  ASSUME ReplyInv, NEW r \in Reqs, LogGrows, NEW pc \in Steps, NEW F, F \cap {"out", "i", "in", "status"} = {},
         Moved(r, pc, F), req[r].pc \in Steps,
         pc \in Loop => req[r].pc \in Loop \/ req[r].in.events # <<>>,
         req[r].pc \in Loop => pc \in Loop
  PROVE  Shape' /\ \A q \in Reqs : ReplyOK(q)'
<1>0. ReplyOK(r)
  BY DEF ReplyInv
<1>1. /\ req'[r].pc = pc /\ req'[r].out = req[r].out /\ req'[r].i = req[r].i
      /\ req'[r].in = req[r].in /\ req'[r].status = req[r].status /\ Shape' /\ Only(r)
  BY DEF Moved, Fields
<1>2. req[r].in \in Inputs /\ req[r].status = 0
  BY <1>0 DEF ReplyOK, Carried
<1>3. Carried(r)' /\ Given(r)'
  BY <1>1, <1>2 DEF Carried, Given
<1>4. Started(r)'
  BY <1>0, <1>1 DEF ReplyOK, Started, Steps, Loop
<1>5. InLoop(r)'
  <2>1. CASE req[r].pc \in Loop
    BY <1>0, <1>1, <2>1 DEF ReplyOK, InLoop
  <2>2. CASE req[r].pc \notin Loop /\ pc \in Loop
    <3>1. req[r].out = <<>> /\ req[r].i = 1
      BY <1>0, <2>2 DEF ReplyOK, Started, Steps, Loop
    <3>2. req[r].in.events \in Seq(EventType) /\ req[r].in.events # <<>>
      BY <1>2, <2>2, HandlerAssumption DEF InputType
    <3>3. Len(req[r].in.events) \in Nat /\ Len(req[r].in.events) >= 1
      BY <3>2
    <3>. QED  BY <1>1, <3>1, <3>3 DEF InLoop
  <2>. QED  BY <1>1, <2>1, <2>2 DEF InLoop
<1>6. Backed(r)' /\ req'[r].out \in Seq(Outcomes)
  BY <1>0, <1>1, BackedKept DEF ReplyOK
<1>. QED  BY <1>1, <1>3, <1>4, <1>5, <1>6, ReplyFrame DEF ReplyOK

(* Every step past the gate keeps the answers true. *)
LEMMA ReplyStep ==
  ASSUME ReplyInv, NEW r \in Reqs, LaterStep(r), LogGrows,
         log' # log => Extended(LogRow(r))
  PROVE  Shape' /\ \A q \in Reqs : ReplyOK(q)'
<1>. DEFINE Goal == Shape' /\ \A q \in Reqs : ReplyOK(q)'
<1>1. Shape
  BY DEF ReplyInv
<1>2. Loop \subseteq Steps /\ "serve" \in Steps /\ "dropped" \in Good /\ "logged" \in Good
  BY DEF Loop, Steps, Good
<1>33. "dropped" # "logged"
  OBVIOUS
<1>3. Serve(r) => Goal
  <2>1. Serve(r) => req[r].pc = "serve"
    BY Zenon DEF Serve
  <2>2. "serve" \notin Loop /\ "exact" \in Steps
    BY DEF Loop, Steps
  <2>3. ASSUME Serve(r), Moved(r, "exact", {}), req[r].in.events # <<>> PROVE Goal
    BY <1>2, <2>1, <2>2, <2>3, ReplyMoved
  <2>4. ASSUME NEW status \in {204, 400}, Answered(r, status, <<>>) PROVE Goal
    BY <2>4, ReplyAnswered
  <2>. QED  BY <1>1, <2>3, <2>4, ServeEffect
<1>4. LookupExact(r) => Goal
  <2>1. LookupExact(r) => req[r].pc = "exact"
    BY Zenon DEF LookupExact
  <2>2. {"exact", "alt", "consent"} \subseteq Loop
    BY DEF Loop
  <2>. QED  BY <1>1, <1>2, <2>1, <2>2, ExactEffect, ReplyMoved DEF Found
<1>5. LookupAlt(r) => Goal
  <2>1. LookupAlt(r) => req[r].pc = "alt"
    BY Zenon DEF LookupAlt
  <2>2. {"alt", "consent"} \subseteq Loop
    BY DEF Loop
  <2>4. ASSUME Answered(r, 204, Append(req[r].out, "unknown")) PROVE Goal
    <3>1. PICK status : status = 204
      OBVIOUS
    <3>2. status # 202
      BY <3>1
    <3>3. Answered(r, status, Append(req[r].out, "unknown"))
      BY <2>4, <3>1, Zenon
    <3>. QED  BY <3>2, <3>3, ReplyFailed
  <2>5. ASSUME LookupAlt(r), NEW row, Found(r, row) PROVE Goal
    BY <1>2, <2>1, <2>2, <2>5, ReplyMoved DEF Found
  <2>. QED  BY <1>1, <2>4, <2>5, AltEffect
<1>6. Consent(r) => Goal
  <2>1. Consent(r) => req[r].pc = "consent"
    BY Zenon DEF Consent
  <2>2. {"consent", "filter"} \subseteq Loop
    BY DEF Loop
  <2>. QED  BY <1>1, <1>2, <1>33, <2>1, <2>2, ConsentEffect, ReplyLoop, ReplyMoved DEF Consented
<1>7. Filter(r) => Goal
  <2>1. Filter(r) => req[r].pc = "filter"
    BY Zenon DEF Filter
  <2>2. {"filter", "identity"} \subseteq Loop
    BY DEF Loop
  <2>. QED  BY <1>1, <1>2, <1>33, <2>1, <2>2, FilterEffect, ReplyLoop, ReplyMoved
<1>8. Identity(r) => Goal
  <2>1. Identity(r) => req[r].pc = "identity"
    BY Zenon DEF Identity
  <2>2. {"identity", "previous"} \subseteq Loop
    BY DEF Loop
  <2>. QED  BY <1>1, <1>2, <2>1, <2>2, IdentityEffect, ReplyMoved DEF Hashed
<1>13. PreviousIdentity(r) => Goal
  <2>1. PreviousIdentity(r) => req[r].pc = "previous"
    BY Zenon DEF PreviousIdentity
  <2>2. {"previous", "burst"} \subseteq Loop
    BY DEF Loop
  <2>. QED  BY <1>1, <1>2, <2>1, <2>2, PreviousIdentityEffect, ReplyMoved DEF PreviousHashed
<1>9. BurstGate(r) => Goal
  <2>1. BurstGate(r) => req[r].pc = "burst"
    BY Zenon DEF BurstGate
  <2>2. {"burst", "bloom"} \subseteq Loop
    BY DEF Loop
  <2>. QED  BY <1>1, <1>2, <1>33, <2>1, <2>2, BurstEffect, ReplyLoop, ReplyMoved
<1>10. Bloom(r) => Goal
  <2>1. Bloom(r) => req[r].pc = "bloom"
    BY Zenon DEF Bloom
  <2>2. {"bloom", "append"} \subseteq Loop
    BY DEF Loop
  <2>. QED  BY <1>1, <1>2, <1>33, <2>1, <2>2, BloomEffect, ReplyLoop, ReplyMoved DEF Marked
<1>11. ASSUME AppendOk(r) PROVE Goal
  <2>1. req[r].pc \in Loop
    BY <1>11 DEF AppendOk, Loop
  <2>2. LoopGoesOn(r, "logged")
    BY <1>1, <1>11, NextEventEffect, Zenon DEF AppendOk
  <2>3. log' = Append(log, LogRow(r))
    BY <1>11, Zenon DEF AppendOk
  <2>4. Extended(LogRow(r))
    BY <2>3, AppendEffect DEF ReplyInv
  <2>5. LogRow(r).req = r /\ LogRow(r).i = req[r].i
    BY DEF LogRow
  <2>6. Len(log') \in DOMAIN log' /\ log'[Len(log')] = LogRow(r)
    BY <2>4 DEF Extended
  <2>. QED  BY <1>2, <2>1, <2>2, <2>5, <2>6, ReplyLoop
<1>12. AppendErr(r) => Goal
  <2>1. AppendErr(r) => Answered(r, 503, Append(req[r].out, "lost"))
    BY <1>1, AppendErrEffect
  <2>. QED  BY <1>2, <2>1, ReplyFailed, SMTT(30)
<1>. QED  BY <1>3, <1>4, <1>5, <1>6, <1>7, <1>8, <1>9, <1>10, <1>11, <1>12, <1>13, Zenon DEF LaterStep

(* The answers' invariant holds at the start. *)
LEMMA ReplyInit == Init => ReplyInv
<1>. SUFFICES ASSUME Init PROVE ReplyInv
  OBVIOUS
<1>1. Shape
  BY IdleShape DEF Init, Shape
<1>2. IsSeq(log)
  BY DEF Init, IsSeq
<1>3. Idle.out = <<>> /\ Idle.status = 0 /\ Idle.pc = "idle"
  BY DEF Idle
<1>4. ASSUME NEW r \in Reqs PROVE ReplyOK(r)
  <2>1. req[r] = Idle
    BY DEF Init
  <2>2. req[r].out = <<>> /\ req[r].status = 0 /\ req[r].pc = "idle"
    BY <1>3, <2>1
  <2>3. Started(r) /\ InLoop(r) /\ Given(r) /\ Carried(r)
    BY <2>2 DEF Started, InLoop, Given, Carried, Loop, Steps
  <2>. QED  BY <2>2, <2>3 DEF ReplyOK, Backed
<1>. QED  BY <1>1, <1>2, <1>4 DEF ReplyInv

(* The answers' invariant is inductive. *)
LEMMA ReplyNext == ReplyInv /\ [Next]_vars => ReplyInv'
<1>. SUFFICES ASSUME ReplyInv, [Next]_vars PROVE ReplyInv'
  OBVIOUS
<1>0. Shape /\ IsSeq(log) /\ (\A r \in Reqs : ReplyOK(r))
  BY DEF ReplyInv
<1>35. log' = log => LogGrows /\ IsSeq(log')
  BY <1>0 DEF LogGrows
<1>1. ASSUME NEW r \in Reqs, NEW in \in Inputs, NEW status \in {204, 429}, RefusedOutright(r, in, status)
      PROVE  ReplyInv'
  <2>1. Ended(r, "done", {"in", "status"}) /\ req'[r].status # 202
    BY <1>0, <1>1, RefusedEffect DEF Refused
  <2>2. log' = log
    BY <1>1, Zenon DEF RefusedOutright, rowVars
  <2>. QED  BY <1>35, <2>1, <2>2, ReplyEnded DEF ReplyInv
<1>2. ASSUME NEW r \in Reqs, NEW in \in Inputs, Arrive(r, in) PROVE ReplyInv'
  <2>1. Ended(r, "gate", {"in", "from", "optedOut"}) /\ req'[r].in = in
    BY <1>0, <1>2, ArriveEffect DEF Arrived
  <2>2. req'[r].status = 0
    BY <2>1 DEF Ended, Fields, Idle
  <2>3. log' = log
    BY <1>2, Zenon DEF Arrive, rowVars
  <2>. QED  BY <1>35, <2>1, <2>2, <2>3, ReplyEnded DEF ReplyInv
<1>3. ASSUME NEW r \in Reqs, AtGate(r) PROVE ReplyInv'
  <2>1. log' = log /\ req[r].pc \in {"gate", "walk"}
    BY <1>0, <1>3, AtGateEffect DEF rowVars
  <2>2. \/ Answered(r, 503, <<>>)
        \/ \E pc \in {"walk", "serve"} : Moved(r, pc, {"lag", "took", "misread"})
    BY <1>0, <1>3, AtGateEffect
  <2>3. {"gate", "walk", "serve"} \subseteq Steps \ Loop
    BY DEF Steps, Loop
  <2>4. Answered(r, 503, <<>>) => ReplyInv'
    BY <1>35, <2>1, <2>3, ReplyAnswered DEF ReplyInv
  <2>5. ASSUME NEW pc \in {"walk", "serve"}, Moved(r, pc, {"lag", "took", "misread"}) PROVE ReplyInv'
    BY <1>35, <2>1, <2>3, <2>5, ReplyMoved DEF ReplyInv
  <2>. QED  BY <2>2, <2>4, <2>5
<1>4. ASSUME NEW r \in Reqs, LaterStep(r) PROVE ReplyInv'
  <2>1. IsSeq(log') /\ LogGrows /\ (log' # log => Extended(LogRow(r)))
    <3>1. CASE log' = log
      BY <1>35, <3>1
    <3>2. CASE log' = Append(log, LogRow(r))
      <4>1. Extended(LogRow(r))
        BY <1>0, <3>2, AppendEffect
      <4>. QED  BY <4>1 DEF Extended, LogGrows
    <3>. QED  BY <1>4, <3>1, <3>2, LogStep
  <2>. QED  BY <1>4, <2>1, ReplyStep DEF ReplyInv
<1>5. CASE CutOff
  <2>1. Shape' /\ \A r \in Reqs : Cut(r)
    BY <1>0, <1>5, CutOffEffect
  <2>2. log' = log
    BY <1>5, Zenon DEF CutOff
  <2>3. ASSUME NEW r \in Reqs PROVE ReplyOK(r)'
    <3>1. CASE req[r].pc \in Steps
      <4>1. req'[r].status = 0 /\ req'[r].out = req[r].out /\ req'[r].pc = "cut"
        BY <2>1, <3>1 DEF Cut, Fields, Idle
      <4>2. Backed(r)'
        BY <1>0, <1>35, <2>2, <4>1, BackedKept DEF ReplyOK
      <4>. QED  BY <1>0, <4>1, <4>2 DEF ReplyOK, Started, InLoop, Given, Carried, Loop, Steps
    <3>2. CASE req[r].pc \notin Steps
      <4>1. req'[r] = req[r]
        BY <2>1, <3>2 DEF Cut
      <4>2. Started(r)' /\ InLoop(r)' /\ Given(r)' /\ Carried(r)'
        BY <1>0, <4>1 DEF ReplyOK, Started, InLoop, Given, Carried
      <4>3. Backed(r)'
        BY <1>0, <1>35, <2>2, <4>1, BackedKept DEF ReplyOK
      <4>. QED  BY <1>0, <4>1, <4>2, <4>3 DEF ReplyOK
    <3>. QED  BY <3>1, <3>2
  <2>. QED  BY <1>35, <2>1, <2>2, <2>3 DEF ReplyInv
<1>6. ASSUME req' = req, log' = log PROVE ReplyInv'
  BY <1>6 DEF ReplyInv, Shape, ReplyOK, Started, InLoop, Given, Carried, Backed
<1>10. CASE \E s \in Sites, c \in Cookies : OptOut(s, c)
  BY <1>6, <1>10 DEF OptOut, rowVars
<1>11. CASE \E row \in Updates : UpdateSite(row)
  BY <1>6, <1>11 DEF UpdateSite, rowVars
<1>12. CASE Stop \/ Kill
  BY <1>5, <1>12, Zenon DEF Stop, Kill
<1>13. CASE Time \/ Fill
  BY <1>6, <1>13 DEF Time, Fill, rowVars
<1>15. CASE UNCHANGED vars
  BY <1>6, <1>15 DEF vars, rowVars
<1>. QED  BY <1>1, <1>2, <1>3, <1>4, <1>10, <1>11, <1>12, <1>13, <1>15, NextCases, ZenonT(30)

(* The HTTP answer tells the truth: 202 has one outcome per event, and     *)
(* each event reported as logged has its row in the log, for all batches   *)
(* and interleavings.                                                      *)
THEOREM AnswersAreTrue == Spec => []AnswerIsTrue
<1>1. ReplyInv => AnswerIsTrue
  <2>. SUFFICES ASSUME ReplyInv, NEW r \in Reqs
       PROVE  /\ req[r].status = 202 =>
                    /\ Len(req[r].out) = Len(req[r].in.events)
                    /\ \A k \in DOMAIN req[r].out : req[r].out[k] \in {"logged", "dropped"}
              /\ Backed(r)
    BY Zenon DEF AnswerIsTrue, Backed, Rows
  <2>1. ReplyOK(r)
    BY DEF ReplyInv
  <2>. QED  BY <2>1 DEF ReplyOK, Given, Good
<1>. QED  BY <1>1, ReplyInit, ReplyNext, PTL DEF Spec
---------------------------------------------------------------------------
(* Sites. *)

WithRow == {"consent", "filter", "identity", "previous", "burst", "bloom", "append"}

RegistryOK == \A h \in Hosts : registry[h] = NoSite \/ registry[h] \in RowType

SiteInv == RegistryOK /\ \A r \in Reqs : req[r].pc \in WithRow => req[r].row \in RowType

(* The registry starts well typed and no request holds a row. *)
LEMMA SiteInit == Init => SiteInv
<1>. SUFFICES ASSUME Init PROVE SiteInv
  OBVIOUS
<1>1. Idle.pc = "idle"
  BY DEF Idle
<1>2. \A r \in Reqs : req[r].pc = "idle"
  BY <1>1 DEF Init
<1>. QED  BY <1>2, HandlerAssumption DEF Init, SiteInv, RegistryOK, WithRow

(* The event a request is at names a known host, and so does its other     *)
(* form.                                                                   *)
LEMMA EventHost ==
  ASSUME ReplyInv, NEW r \in Reqs, req[r].pc \in Loop
  PROVE  Ev(r).host \in Hosts /\ Alt[Ev(r).host] \in Hosts
<1>1. ReplyOK(r) /\ req[r].pc \in Steps
  BY DEF ReplyInv, Loop, Steps
<1>2. /\ req[r].i \in Nat /\ 1 <= req[r].i /\ req[r].i <= Len(req[r].in.events)
      /\ req[r].in \in Inputs
  BY <1>1 DEF ReplyOK, InLoop, Carried
<1>3. req[r].in.events \in Seq(EventType)
  BY <1>2, HandlerAssumption DEF InputType
<1>4. Ev(r) \in EventType
  BY <1>2, <1>3 DEF Ev
<1>. QED  BY <1>4, HandlerAssumption DEF EventType

(* A step that stays past the lookup keeps the row it holds. *)
LEMMA SiteMoved ==
  ASSUME SiteInv, NEW r \in Reqs, NEW pc, NEW F, Moved(r, pc, F), registry' = registry,
         pc \in WithRow => req[r].pc \in WithRow /\ "row" \notin F
  PROVE  SiteInv'
<1>1. pc \in WithRow => req'[r].row = req[r].row
  BY DEF Moved, Fields
<1>. QED  BY <1>1 DEF SiteInv, RegistryOK, Moved, Only

(* A request that ends holds no row. *)
LEMMA SiteEnded ==
  ASSUME SiteInv, NEW r \in Reqs, NEW pc \in {"done", "gate"}, NEW F, Ended(r, pc, F), registry' = registry
  PROVE  SiteInv'
BY DEF SiteInv, RegistryOK, Ended, Only, WithRow

(* The next event of a request starts without a row. *)
LEMMA SiteLoop ==
  ASSUME SiteInv, NEW r \in Reqs, NEW outcome, LoopGoesOn(r, outcome), registry' = registry
  PROVE  SiteInv'
<1>. DEFINE out == Append(req[r].out, outcome)
<1>1. Answered(r, 202, out) \/ Continued(r, out)
  BY Zenon DEF LoopGoesOn
<1>. HIDE DEF out
<1>2. "exact" \notin WithRow
  BY DEF WithRow
<1>. QED  BY <1>1, <1>2, SiteEnded, SiteMoved DEF Answered, Continued

(* A lookup takes its row from the registry. *)
LEMMA SiteFound ==
  ASSUME SiteInv, NEW r \in Reqs, NEW h \in Hosts, registry[h] # NoSite, Found(r, registry[h]), registry' = registry
  PROVE  SiteInv'
<1>1. req'[r].row \in RowType
  BY DEF SiteInv, RegistryOK, Found
<1>. QED  BY <1>1 DEF SiteInv, RegistryOK, Found, Moved, Only

(* Past the lookup a request holds a row of the registry, also while an    *)
(* administrator rewrites it.                                              *)
LEMMA SiteNext == SiteInv /\ ReplyInv /\ [Next]_vars => SiteInv'
<1>. SUFFICES ASSUME SiteInv, ReplyInv, [Next]_vars PROVE SiteInv'
  OBVIOUS
<1>0. Shape
  BY DEF ReplyInv
<1>1. ASSUME NEW r \in Reqs, NEW in \in Inputs, NEW status, RefusedOutright(r, in, status) PROVE SiteInv'
  <2>1. registry' = registry
    BY <1>1, Zenon DEF RefusedOutright, Ambient, envVars
  <2>. QED  BY <1>0, <1>1, <2>1, RefusedEffect, SiteEnded DEF Refused
<1>2. ASSUME NEW r \in Reqs, NEW in \in Inputs, Arrive(r, in) PROVE SiteInv'
  <2>1. registry' = registry
    BY <1>2, Zenon DEF Arrive, Ambient, envVars
  <2>. QED  BY <1>0, <1>2, <2>1, ArriveEffect, SiteEnded DEF Arrived
<1>3. ASSUME NEW r \in Reqs, AtGate(r) PROVE SiteInv'
  <2>1. registry' = registry
    BY <1>0, <1>3, AtGateEffect DEF Ambient, envVars
  <2>2. \/ Answered(r, 503, <<>>)
        \/ \E pc \in {"walk", "serve"} : Moved(r, pc, {"lag", "took", "misread"})
    BY <1>0, <1>3, AtGateEffect
  <2>3. ASSUME NEW pc \in {"walk", "serve"}, Moved(r, pc, {"lag", "took", "misread"}) PROVE SiteInv'
    <3>1. pc \notin WithRow
      BY DEF WithRow
    <3>. QED  BY <2>1, <2>3, <3>1, SiteMoved
  <2>. QED  BY <2>1, <2>2, <2>3, SiteEnded DEF Answered
<1>4. ASSUME NEW r \in Reqs, LaterStep(r) PROVE SiteInv'
  <2>1. registry' = registry
    BY <1>4, Zenon DEF LaterStep, Serve, LookupExact, LookupAlt, Consent, Filter, Identity,
                       PreviousIdentity, BurstGate, Bloom, AppendOk, AppendErr, Ambient, envVars
  <2>2. ASSUME NEW status, NEW out, Answered(r, status, out) PROVE SiteInv'
    BY <2>1, <2>2, SiteEnded DEF Answered
  <2>3. ASSUME NEW outcome, LoopGoesOn(r, outcome) PROVE SiteInv'
    BY <2>1, <2>3, SiteLoop
  <2>4. ASSUME NEW pc \in WithRow, req[r].pc \in WithRow, NEW F, "row" \notin F, Moved(r, pc, F) PROVE SiteInv'
    BY <2>1, <2>4, SiteMoved
  <2>5. ASSUME NEW pc \in {"exact", "alt"}, Moved(r, pc, {}) PROVE SiteInv'
    <3>1. pc \notin WithRow
      BY DEF WithRow
    <3>. QED  BY <2>1, <2>5, <3>1, SiteMoved
  <2>6. CASE Serve(r)
    BY <1>0, <2>2, <2>5, <2>6, ServeEffect
  <2>7. CASE LookupExact(r)
    <3>1. req[r].pc = "exact" /\ "exact" \in Loop
      BY <2>7 DEF LookupExact, Loop
    <3>2. Ev(r).host \in Hosts
      BY <3>1, EventHost
    <3>3. \/ registry[Ev(r).host] # NoSite /\ Put(r, [req[r] EXCEPT !.pc = "consent", !.row = registry[Ev(r).host]])
          \/ Put(r, [req[r] EXCEPT !.pc = "alt"])
      BY <2>7, Zenon DEF LookupExact, Query
    <3>4. ASSUME registry[Ev(r).host] # NoSite, Found(r, registry[Ev(r).host]) PROVE SiteInv'
      BY <2>1, <3>2, <3>4, SiteFound
    <3>. QED  BY <1>0, <2>5, <3>3, <3>4, FoundEffect, MoveEffect
  <2>8. CASE LookupAlt(r)
    <3>1. req[r].pc = "alt" /\ "alt" \in Loop
      BY <2>8 DEF LookupAlt, Loop
    <3>2. Alt[Ev(r).host] \in Hosts
      BY <3>1, EventHost
    <3>3. \/ /\ registry[Alt[Ev(r).host]] # NoSite
             /\ Put(r, [req[r] EXCEPT !.pc = "consent", !.row = registry[Alt[Ev(r).host]]])
          \/ Answer(r, 204, Append(req[r].out, "unknown"))
      BY <2>8, Zenon DEF LookupAlt, Query
    <3>4. ASSUME registry[Alt[Ev(r).host]] # NoSite, Found(r, registry[Alt[Ev(r).host]]) PROVE SiteInv'
      BY <2>1, <3>2, <3>4, SiteFound
    <3>. QED  BY <1>0, <2>2, <3>3, <3>4, FoundEffect, AnswerEffect
  <2>9. CASE Consent(r)
    <3>1. req[r].pc \in WithRow /\ "filter" \in WithRow
      BY <2>9 DEF Consent, WithRow
    <3>. QED  BY <1>0, <2>3, <2>4, <2>9, <3>1, ConsentEffect DEF Consented
  <2>10. CASE Filter(r)
    <3>1. req[r].pc \in WithRow /\ "identity" \in WithRow
      BY <2>10 DEF Filter, WithRow
    <3>. QED  BY <1>0, <2>3, <2>4, <2>10, <3>1, FilterEffect
  <2>11. CASE Identity(r)
    <3>1. req[r].pc \in WithRow /\ "previous" \in WithRow
      BY <2>11 DEF Identity, WithRow
    <3>. QED  BY <1>0, <2>4, <2>11, <3>1, IdentityEffect DEF Hashed
  <2>16. CASE PreviousIdentity(r)
    <3>1. req[r].pc \in WithRow /\ "burst" \in WithRow
      BY <2>16 DEF PreviousIdentity, WithRow
    <3>. QED  BY <1>0, <2>4, <2>16, <3>1, PreviousIdentityEffect DEF PreviousHashed
  <2>12. CASE BurstGate(r)
    <3>1. req[r].pc \in WithRow /\ "bloom" \in WithRow
      BY <2>12 DEF BurstGate, WithRow
    <3>. QED  BY <1>0, <2>3, <2>4, <2>12, <3>1, BurstEffect
  <2>13. CASE Bloom(r)
    <3>1. req[r].pc \in WithRow /\ "append" \in WithRow
      BY <2>13 DEF Bloom, WithRow
    <3>. QED  BY <1>0, <2>3, <2>4, <2>13, <3>1, BloomEffect DEF Marked
  <2>14. CASE AppendOk(r)
    BY <1>0, <2>3, <2>14, NextEventEffect, Zenon DEF AppendOk
  <2>15. CASE AppendErr(r)
    BY <1>0, <2>2, <2>15, AppendErrEffect
  <2>. QED  BY <1>4, <2>6, <2>7, <2>8, <2>9, <2>10, <2>11, <2>12, <2>13, <2>14, <2>15, <2>16, Zenon DEF LaterStep
<1>5. CASE CutOff
  <2>1. \A r \in Reqs : Cut(r)
    BY <1>0, <1>5, CutOffEffect
  <2>2. registry' = registry
    BY <1>5, Zenon DEF CutOff, envVars
  <2>. QED  BY <2>1, <2>2 DEF SiteInv, RegistryOK, Cut, WithRow
<1>6. ASSUME req' = req, registry' = registry PROVE SiteInv'
  BY <1>6 DEF SiteInv, RegistryOK
<1>10. CASE \E s \in Sites, c \in Cookies : OptOut(s, c)
  BY <1>6, <1>10 DEF OptOut, envVars
<1>11. CASE \E row \in Updates : UpdateSite(row)
  <2>1. PICK row \in Updates : UpdateSite(row)
    BY <1>11
  <2>2. req' = req /\ registry' = [h \in Hosts |-> IF registry[h].id = row.id THEN row ELSE registry[h]]
    BY <2>1, Zenon DEF UpdateSite
  <2>3. row \in RowType
    BY HandlerAssumption
  <2>. QED  BY <2>2, <2>3 DEF SiteInv, RegistryOK
<1>12. CASE Stop \/ Kill
  BY <1>5, <1>12, Zenon DEF Stop, Kill
<1>13. CASE Time \/ Fill
  BY <1>6, <1>13 DEF Time, Fill, envVars
<1>15. CASE UNCHANGED vars
  BY <1>6, <1>15 DEF vars, envVars
<1>. QED  BY <1>1, <1>2, <1>3, <1>4, <1>10, <1>11, <1>12, <1>13, <1>15, NextCases, Zenon
---------------------------------------------------------------------------
(* New visitors. *)

RowKey(m) == <<m.site, m.visitor, m.date>>

DayBefore(m) == <<m.site, m.visitor, m.date - 1>>

(* The hashes that the request of row m asked for, as far as m tells. *)
Asked(m) == IF m.straddles THEN {RowKey(m)} ELSE {RowKey(m), DayBefore(m)}

WithHash == {"previous", "burst", "bloom", "append"}

WithPrev == {"burst", "bloom", "append"}

KeyOK(r) ==
    /\ req[r].pc \in WithHash =>
          /\ req[r].hash[3] \in Int
          /\ req[r].hash = <<req[r].row.id, req[r].in.visitor, req[r].hash[3]>>
    /\ req[r].pc \in WithPrev =>
          req[r].prev = <<req[r].row.id, req[r].in.visitor, req[r].prev[3]>>

FromOK(r) == req[r].pc \in Steps => req[r].from \in Nat /\ req[r].from <= Len(log)

SeenOK(r) == req[r].pc = "append" => req[r].hash \in seen

Fresh(r) == req[r].pc = "append" /\ req[r].isNew = TRUE

(* Nothing in this life of the process was new under r's hash, and nothing *)
(* that was there when r arrived had either of the hashes r asked for.     *)
FreshOK(r) ==
    Fresh(r) =>
        \A p \in DOMAIN log : log[p].life = life =>
            /\ RowKey(log[p]) = req[r].hash => log[p].isNew # TRUE
            /\ p <= req[r].from => RowKey(log[p]) \notin {req[r].hash, req[r].prev}

OneFresh == \A r, q \in Reqs : r # q /\ Fresh(r) /\ Fresh(q) => req[r].hash # req[q].hash

RowOK(m) ==
    /\ m.date \in Int /\ m.life \in Nat /\ m.life <= life
    /\ m.from \in Nat /\ m.from <= Len(log)
    /\ m.life = life => RowKey(m) \in seen

Once ==
    \A p, q \in DOMAIN log :
        p # q /\ RowKey(log[p]) = RowKey(log[q]) /\ log[p].isNew = TRUE /\ log[q].isNew = TRUE
            => log[p].life # log[q].life

Returning ==
    \A p, q \in DOMAIN log :
        p <= log[q].from /\ log[p].life = log[q].life
          /\ RowKey(log[p]) \in Asked(log[q]) => log[q].isNew # TRUE

RowsOK == \A p \in DOMAIN log : RowOK(log[p])

NewReq(r) == KeyOK(r) /\ FromOK(r) /\ SeenOK(r) /\ FreshOK(r)

NewInv ==
    /\ life \in Nat
    /\ \A r \in Reqs : NewReq(r)
    /\ OneFresh
    /\ RowsOK
    /\ Once /\ Returning

(* The new-visitor invariant holds at the start: the log is empty. *)
LEMMA NewInit == Init => NewInv
<1>. SUFFICES ASSUME Init PROVE NewInv
  OBVIOUS
<1>1. Idle.pc = "idle"
  BY DEF Idle
<1>2. \A r \in Reqs : req[r].pc = "idle"
  BY <1>1 DEF Init
<1>3. life = 0 /\ DOMAIN log = {}
  BY DEF Init
<1>4. \A r \in Reqs : NewReq(r)
  BY <1>2 DEF NewReq, KeyOK, FromOK, SeenOK, FreshOK, Fresh, WithHash, WithPrev, Steps
<1>5. OneFresh
  BY <1>2 DEF OneFresh, Fresh
<1>. QED  BY <1>3, <1>4, <1>5 DEF NewInv, RowsOK, Once, Returning

(* Steps that neither mark nor log for r. *)
LEMMA NewQuiet ==
  ASSUME NewInv, NEW r \in Reqs, Only(r), req'[r].pc # "append", KeyOK(r)', FromOK(r)',
         log' = log, life' = life, seen \subseteq seen'
  PROVE  NewInv'
<1>1. ASSUME NEW q \in Reqs PROVE NewReq(q)'
  <2>1. CASE q = r
    BY <2>1 DEF NewReq, SeenOK, FreshOK, Fresh
  <2>2. CASE q # r
    <3>1. req'[q] = req[q] /\ NewReq(q)
      BY <2>2 DEF Only, NewInv
    <3>. QED  BY <3>1 DEF NewReq, KeyOK, FromOK, SeenOK, FreshOK, Fresh
  <2>. QED  BY <2>1, <2>2
<1>2. OneFresh'
  BY DEF NewInv, OneFresh, Fresh, Only
<1>3. RowsOK'
  BY DEF NewInv, RowsOK, RowOK, RowKey
<1>. QED  BY <1>1, <1>2, <1>3 DEF NewInv, Once, Returning

(* A step that keeps the hashes and does not mark keeps the new-visitor    *)
(* invariant.                                                              *)
LEMMA NewMoved ==
  ASSUME NewInv, NEW r \in Reqs, NEW pc \in Steps, pc # "append", req[r].pc \in Steps,
         NEW F, F \cap {"hash", "prev", "from"} = {}, pc \in WithHash => req[r].pc \in WithPrev /\ F \cap {"row", "in"} = {},
         Moved(r, pc, F), log' = log, life' = life, seen \subseteq seen'
  PROVE  NewInv'
<1>0. KeyOK(r) /\ FromOK(r)
  BY DEF NewInv, NewReq
<1>1. req'[r].from = req[r].from /\ req'[r].hash = req[r].hash /\ req'[r].prev = req[r].prev
  BY DEF Moved, Fields
<1>2. pc \in WithHash => req'[r].row = req[r].row /\ req'[r].in = req[r].in
  BY DEF Moved, Fields
<1>3. KeyOK(r)' /\ FromOK(r)'
  BY <1>0, <1>1, <1>2 DEF KeyOK, FromOK, Moved, WithHash, WithPrev
<1>. QED  BY <1>3, NewQuiet DEF Moved

(* A request that ends no longer holds a hash. *)
LEMMA NewEnded ==
  ASSUME NewInv, NEW r \in Reqs, NEW F, Ended(r, "done", F), log' = log, life' = life, seen \subseteq seen'
  PROVE  NewInv'
<1>1. KeyOK(r)' /\ FromOK(r)'
  BY DEF KeyOK, FromOK, Ended, WithHash, WithPrev, Steps
<1>. QED  BY <1>1, NewQuiet DEF Ended

(* After either end of the loop body the request holds no hash and the     *)
(* same view of the log.                                                   *)
LEMMA LoopKeys ==
  ASSUME NewInv, NEW r \in Reqs, req[r].pc \in Steps, NEW outcome, LoopGoesOn(r, outcome)
  PROVE  /\ Only(r) /\ req'[r].pc \notin WithHash
         /\ req'[r].pc \in Steps => req'[r].from = req[r].from
<1>. DEFINE out == Append(req[r].out, outcome)
<1>1. Answered(r, 202, out) \/ Continued(r, out)
  BY Zenon DEF LoopGoesOn
<1>. HIDE DEF out
<1>2. CASE Answered(r, 202, out)
  BY <1>2 DEF Answered, Ended, WithHash, Steps
<1>3. CASE Continued(r, out)
  BY <1>3 DEF Continued, Moved, Fields, WithHash
<1>. QED  BY <1>1, <1>2, <1>3

(* The end of the loop body keeps the new-visitor invariant. *)
LEMMA NewLoop ==
  ASSUME NewInv, NEW r \in Reqs, req[r].pc \in Steps, NEW outcome, LoopGoesOn(r, outcome),
         log' = log, life' = life, seen \subseteq seen'
  PROVE  NewInv'
<1>1. FromOK(r)
  BY DEF NewInv, NewReq
<1>2. KeyOK(r)' /\ FromOK(r)' /\ Only(r) /\ req'[r].pc # "append"
  BY <1>1, LoopKeys DEF KeyOK, FromOK, WithHash, WithPrev
<1>. QED  BY <1>2, NewQuiet

(* CheckAndMark: the answer holds when it is given. *)
LEMMA NewMarked ==
  ASSUME NewInv, NEW r \in Reqs, req[r].pc = "bloom", Marked(r), log' = log, life' = life,
         seen' = seen \cup {req[r].hash}
  PROVE  NewInv'
<1>0. KeyOK(r) /\ FromOK(r) /\ req[r].pc \in WithHash /\ req[r].pc \in Steps
  BY DEF NewInv, NewReq, WithHash, WithPrev, Steps
<1>1. /\ req'[r].from = req[r].from /\ req'[r].hash = req[r].hash /\ req'[r].prev = req[r].prev
      /\ req'[r].row = req[r].row /\ req'[r].in = req[r].in /\ req'[r].pc = "append" /\ Only(r)
  BY DEF Marked, Moved, Fields
<1>2. KeyOK(r)' /\ FromOK(r)' /\ SeenOK(r)'
  BY <1>0, <1>1 DEF KeyOK, FromOK, SeenOK, WithHash, WithPrev, Steps
<1>3. req'[r].isNew = TRUE => req[r].hash \notin seen /\ req[r].prev \notin seen
  BY DEF Marked, IsNew
<1>4. FreshOK(r)'
  <2>. SUFFICES ASSUME req'[r].isNew = TRUE, NEW p \in DOMAIN log, log[p].life = life
       PROVE  RowKey(log[p]) \notin {req[r].hash, req[r].prev}
    BY <1>1 DEF FreshOK, Fresh
  <2>1. RowKey(log[p]) \in seen
    BY DEF NewInv, RowsOK, RowOK
  <2>. QED  BY <1>3, <2>1
<1>5. ASSUME NEW q \in Reqs, q # r PROVE NewReq(q)'
  <2>1. req'[q] = req[q] /\ NewReq(q)
    BY <1>1, <1>5 DEF Only, NewInv
  <2>. QED  BY <2>1 DEF NewReq, KeyOK, FromOK, SeenOK, FreshOK, Fresh
<1>6. ASSUME NEW q \in Reqs, q # r, Fresh(q)', Fresh(r)' PROVE req'[q].hash # req'[r].hash
  <2>1. req[q].hash \in seen /\ req'[q].hash = req[q].hash
    BY <1>1, <1>6 DEF Only, NewInv, NewReq, SeenOK, Fresh
  <2>2. req[r].hash \notin seen
    BY <1>3, <1>6 DEF Fresh
  <2>. QED  BY <1>1, <2>1, <2>2
<1>7. OneFresh'
  <2>. SUFFICES ASSUME NEW a \in Reqs, NEW b \in Reqs, a # b, Fresh(a)', Fresh(b)'
       PROVE  req'[a].hash # req'[b].hash
    BY DEF OneFresh
  <2>1. CASE a = r \/ b = r
    BY <1>6, <2>1
  <2>2. CASE a # r /\ b # r
    BY <1>1, <2>2 DEF NewInv, OneFresh, Fresh, Only
  <2>. QED  BY <2>1, <2>2
<1>8. RowsOK'
  BY DEF NewInv, RowsOK, RowOK, RowKey
<1>9. NewReq(r)'
  BY <1>2, <1>4 DEF NewReq
<1>. QED  BY <1>5, <1>7, <1>8, <1>9 DEF NewInv, Once, Returning

(* The row a request appends carries the hash it was marked with. *)
LEMMA LogRowFields ==
  ASSUME NEW r \in Reqs, KeyOK(r), req[r].pc = "append"
  PROVE  LET x == LogRow(r) IN
         /\ RowKey(x) = req[r].hash /\ Asked(x) \subseteq {req[r].hash, req[r].prev}
         /\ x.date \in Int /\ x.life = life /\ x.from = req[r].from /\ x.isNew = req[r].isNew
         /\ x.site = req[r].row.id /\ x.visitor = req[r].in.visitor
<1>1. /\ LogRow(r).site = req[r].row.id /\ LogRow(r).visitor = req[r].in.visitor
      /\ LogRow(r).date = req[r].hash[3] /\ LogRow(r).life = life
      /\ LogRow(r).from = req[r].from /\ LogRow(r).isNew = req[r].isNew
      /\ LogRow(r).straddles = (req[r].prev[3] # req[r].hash[3] - 1)
  BY DEF LogRow
<1>2. /\ req[r].hash[3] \in Int
      /\ req[r].hash = <<req[r].row.id, req[r].in.visitor, req[r].hash[3]>>
      /\ req[r].prev = <<req[r].row.id, req[r].in.visitor, req[r].prev[3]>>
  BY DEF KeyOK, WithHash, WithPrev
<1>3. RowKey(LogRow(r)) = req[r].hash
  BY <1>1, <1>2, Zenon DEF RowKey
<1>4. ASSUME ~LogRow(r).straddles PROVE DayBefore(LogRow(r)) = req[r].prev
  <2>1. req[r].prev[3] = req[r].hash[3] - 1
    BY <1>1, <1>4, Zenon
  <2>. QED  BY <1>1, <1>2, <2>1, Zenon DEF DayBefore
<1>5. Asked(LogRow(r)) \subseteq {req[r].hash, req[r].prev}
  BY <1>3, <1>4, Zenon DEF Asked
<1>. QED  BY <1>1, <1>2, <1>3, <1>5, Zenon

(* Appending the marked row keeps the invariant: no row of the same life   *)
(* and date before it is new when it is, and its mark was set before any   *)
(* request that arrives later asks.                                        *)
LEMMA NewLogged ==
  ASSUME NewInv, NEW r \in Reqs, req[r].pc = "append", Extended(LogRow(r)), Only(r),
         req'[r].pc \notin WithHash, req'[r].pc \in Steps => req'[r].from = req[r].from,
         life' = life, seen' = seen
  PROVE  NewInv'
<1>. DEFINE x == LogRow(r)
            n == Len(log')
<1>0. KeyOK(r) /\ FromOK(r) /\ SeenOK(r) /\ FreshOK(r) /\ req[r].pc \in Steps /\ life \in Nat
  BY DEF NewInv, NewReq, Steps
<1>1. /\ RowKey(x) = req[r].hash /\ Asked(x) \subseteq {req[r].hash, req[r].prev}
      /\ x.date \in Int /\ x.life = life /\ x.from = req[r].from /\ x.isNew = req[r].isNew
  BY <1>0, LogRowFields
<1>2. /\ Len(log) \in Nat /\ n = Len(log) + 1 /\ DOMAIN log = 1..Len(log)
      /\ \A p \in DOMAIN log : p \in DOMAIN log' /\ log'[p] = log[p] /\ p # n
      /\ log'[n] = x /\ n \in DOMAIN log' /\ \A p \in DOMAIN log' : p \in DOMAIN log \/ p = n
  BY DEF Extended
<1>. HIDE DEF x, n
<1>3. req[r].from \in Nat /\ req[r].from <= Len(log) /\ req[r].hash \in seen
  BY <1>0 DEF FromOK, SeenOK
<1>4. NewReq(r)'
  <2>1. KeyOK(r)' /\ SeenOK(r)' /\ FreshOK(r)'
    BY DEF KeyOK, SeenOK, FreshOK, Fresh, WithHash, WithPrev
  <2>2. FromOK(r)'
    BY <1>2, <1>3 DEF FromOK, n
  <2>. QED  BY <2>1, <2>2 DEF NewReq
<1>5. ASSUME NEW q \in Reqs, q # r PROVE NewReq(q)'
  <2>1. req'[q] = req[q] /\ NewReq(q)
    BY <1>5 DEF Only, NewInv
  <2>2. KeyOK(q)' /\ SeenOK(q)'
    BY <2>1 DEF NewReq, KeyOK, SeenOK
  <2>3. FromOK(q)'
    BY <1>2, <2>1 DEF NewReq, FromOK, n
  <2>4. FreshOK(q)'
    <3>. SUFFICES ASSUME Fresh(q), NEW p \in DOMAIN log', log'[p].life = life
         PROVE  /\ RowKey(log'[p]) = req[q].hash => log'[p].isNew # TRUE
                /\ p <= req[q].from => RowKey(log'[p]) \notin {req[q].hash, req[q].prev}
      BY <2>1 DEF FreshOK, Fresh, RowKey
    <3>1. CASE p \in DOMAIN log
      <4>1. log'[p] = log[p]
        BY <1>2, <3>1
      <4>. QED  BY <2>1, <3>1, <4>1 DEF NewReq, FreshOK
    <3>2. CASE p = n
      <4>1. ~(p <= req[q].from)
        BY <1>2, <2>1, <3>2 DEF NewReq, FromOK, Fresh, Steps
      <4>2. req[r].hash = req[q].hash => req[r].isNew # TRUE
        BY <1>5 DEF NewInv, OneFresh, Fresh
      <4>. QED  BY <1>1, <1>2, <3>2, <4>1, <4>2
    <3>. QED  BY <1>2, <3>1, <3>2
  <2>. QED  BY <2>2, <2>3, <2>4 DEF NewReq
<1>6. OneFresh'
  <2>1. ~Fresh(r)'
    BY DEF Fresh, WithHash
  <2>. QED  BY <2>1 DEF NewInv, OneFresh, Fresh, Only
<1>7. RowsOK'
  <2>1. ASSUME NEW p \in DOMAIN log' PROVE LET m == log'[p] IN
               /\ m.date \in Int /\ m.life \in Nat /\ m.life <= life
               /\ m.from \in Nat /\ m.from <= n
               /\ m.life = life => RowKey(m) \in seen
    <3>1. CASE p \in DOMAIN log
      <4>1. log'[p] = log[p] /\ RowOK(log[p])
        BY <1>2, <3>1 DEF NewInv, RowsOK
      <4>. QED  BY <1>2, <4>1 DEF RowOK
    <3>2. CASE p = n
      BY <1>0, <1>1, <1>2, <1>3, <3>2
    <3>. QED  BY <1>2, <3>1, <3>2
  <2>. QED  BY <2>1 DEF RowsOK, RowOK, RowKey, n
<1>8. Once'
  <2>. SUFFICES ASSUME NEW p \in DOMAIN log', NEW q \in DOMAIN log', p # q,
                       RowKey(log'[p]) = RowKey(log'[q]), log'[p].isNew = TRUE, log'[q].isNew = TRUE,
                       log'[p].life = log'[q].life
       PROVE  FALSE
    BY DEF Once, RowKey
  <2>1. ASSUME NEW k \in DOMAIN log, RowKey(log[k]) = RowKey(x), log[k].isNew = TRUE, x.isNew = TRUE, log[k].life = x.life
        PROVE  FALSE
    BY <1>0, <1>1, <2>1 DEF FreshOK, Fresh
  <2>2. CASE p \in DOMAIN log /\ q \in DOMAIN log
    BY <1>2, <2>2 DEF NewInv, Once
  <2>3. CASE p \in DOMAIN log /\ q = n
    BY <1>2, <2>1, <2>3
  <2>4. CASE p = n /\ q \in DOMAIN log
    BY <1>2, <2>1, <2>4
  <2>. QED  BY <1>2, <2>2, <2>3, <2>4
<1>9. Returning'
  <2>. SUFFICES ASSUME NEW p \in DOMAIN log', NEW q \in DOMAIN log', p <= log'[q].from,
                       log'[p].life = log'[q].life,
                       RowKey(log'[p]) \in Asked(log'[q]), log'[q].isNew = TRUE
       PROVE  FALSE
    BY DEF Returning, RowKey, DayBefore, Asked
  <2>1. p \in DOMAIN log
    <3>1. log'[q].from <= Len(log) /\ log'[q].from \in Nat
      BY <1>1, <1>2, <1>3 DEF NewInv, RowsOK, RowOK
    <3>. QED  BY <1>2, <3>1
  <2>2. CASE q \in DOMAIN log
    BY <1>2, <2>1, <2>2 DEF NewInv, Returning
  <2>3. CASE q = n
    BY <1>0, <1>1, <1>2, <2>1, <2>3 DEF FreshOK, Fresh
  <2>. QED  BY <1>2, <2>2, <2>3
<1>. QED  BY <1>0, <1>4, <1>5, <1>6, <1>7, <1>8, <1>9 DEF NewInv

(* The hashes of the identity steps are of integer dates. *)
LEMMA DateIsInt ==
  ASSUME AdmitInv, SiteInv, NEW r \in Reqs, req[r].pc \in WithRow
  PROVE  DateIn(req[r].row.tz) \in Int
<1>1. req[r].row \in RowType /\ now \in Nat
  BY DEF SiteInv, AdmitInv, FillInv, TickTypes
<1>2. req[r].row.tz \in Int
  BY <1>1, GatesAssumption DEF RowType
<1>. QED  BY <1>1, <1>2, GatesAssumption DEF DateIn

(* The first identity step gives the request the hash of its visitor on    *)
(* the date in the site's time zone.                                       *)
LEMMA NewHashed ==
  ASSUME NewInv, AdmitInv, SiteInv, NEW r \in Reqs, req[r].pc = "identity", Hashed(r),
         log' = log, life' = life, seen' = seen
  PROVE  NewInv'
<1>3. DateIn(req[r].row.tz) \in Int
  BY DateIsInt DEF WithRow
<1>4. /\ req'[r].row = req[r].row /\ req'[r].in = req[r].in /\ req'[r].from = req[r].from
      /\ req'[r].pc = "previous" /\ Only(r)
  BY DEF Hashed, Moved, Fields
<1>5. req'[r].hash = <<req[r].row.id, req[r].in.visitor, DateIn(req[r].row.tz)>>
  BY Zenon DEF Hashed, CurrentHash
<1>6. req'[r].hash[3] = DateIn(req[r].row.tz)
  BY <1>5
<1>7. KeyOK(r)'
  <2>1. "previous" \notin WithPrev
    BY DEF WithPrev
  <2>. QED  BY <1>3, <1>4, <1>5, <1>6, <2>1, Zenon DEF KeyOK
<1>8. FromOK(r)'
  <2>1. FromOK(r) /\ req[r].pc \in Steps
    BY DEF NewInv, NewReq, Steps
  <2>. QED  BY <1>4, <2>1 DEF FromOK
<1>. QED  BY <1>4, <1>7, <1>8, NewQuiet

(* The second one gives it a hash of the same visitor, whatever the date.  *)
LEMMA NewPrevious ==
  ASSUME NewInv, NEW r \in Reqs, req[r].pc = "previous", PreviousHashed(r),
         log' = log, life' = life, seen' = seen
  PROVE  NewInv'
<1>1. KeyOK(r) /\ FromOK(r) /\ req[r].pc \in Steps /\ req[r].pc \in WithHash
  BY DEF NewInv, NewReq, Steps, WithHash
<1>2. /\ req'[r].row = req[r].row /\ req'[r].in = req[r].in /\ req'[r].from = req[r].from
      /\ req'[r].hash = req[r].hash /\ req'[r].pc = "burst" /\ Only(r)
  BY DEF PreviousHashed, Moved, Fields
<1>3. req'[r].prev = <<req[r].row.id, req[r].in.visitor, DateIn(req[r].row.tz) - 1>>
  BY Zenon DEF PreviousHashed, PreviousHash
<1>4. req'[r].prev[3] = DateIn(req[r].row.tz) - 1
  BY <1>3
<1>5. KeyOK(r)'
  BY <1>1, <1>2, <1>3, <1>4, Zenon DEF KeyOK
<1>6. FromOK(r)'
  BY <1>1, <1>2 DEF FromOK
<1>. QED  BY <1>2, <1>5, <1>6, NewQuiet

(* The new-visitor invariant is inductive. *)
LEMMA NewNext == NewInv /\ AdmitInv /\ ReplyInv /\ SiteInv /\ [Next]_vars => NewInv'
<1>. SUFFICES ASSUME NewInv, AdmitInv, ReplyInv, SiteInv, [Next]_vars PROVE NewInv'
  OBVIOUS
<1>0. Shape /\ IsSeq(log)
  BY DEF ReplyInv
<1>1. ASSUME NEW r \in Reqs, NEW in \in Inputs, NEW status, RefusedOutright(r, in, status) PROVE NewInv'
  <2>1. log' = log /\ life' = life /\ seen' = seen
    BY <1>1, Zenon DEF RefusedOutright, Ambient, rowVars, bloomVars
  <2>2. Ended(r, "done", {"in", "status"})
    BY <1>0, <1>1, RefusedEffect DEF Refused
  <2>. QED  BY <2>1, <2>2, NewEnded
<1>2. ASSUME NEW r \in Reqs, NEW in \in Inputs, Arrive(r, in) PROVE NewInv'
  <2>1. log' = log /\ life' = life /\ seen' = seen
    BY <1>2, Zenon DEF Arrive, Ambient, rowVars, bloomVars
  <2>2. Ended(r, "gate", {"in", "from", "optedOut"}) /\ req'[r].from = Len(log)
    BY <1>0, <1>2, ArriveEffect DEF Arrived
  <2>3. Len(log) \in Nat
    BY <1>0 DEF IsSeq
  <2>4. KeyOK(r)' /\ FromOK(r)' /\ req'[r].pc # "append"
    BY <2>1, <2>2, <2>3 DEF Ended, KeyOK, FromOK, WithHash, WithPrev
  <2>. QED  BY <2>1, <2>2, <2>4, NewQuiet DEF Ended
<1>3. ASSUME NEW r \in Reqs, AtGate(r) PROVE NewInv'
  <2>1. log' = log /\ life' = life /\ seen' = seen /\ req[r].pc \in {"gate", "walk"}
    BY <1>0, <1>3, AtGateEffect DEF Ambient, rowVars, bloomVars
  <2>2. \/ Answered(r, 503, <<>>)
        \/ \E pc \in {"walk", "serve"} : Moved(r, pc, {"lag", "took", "misread"})
    BY <1>0, <1>3, AtGateEffect
  <2>3. {"gate", "walk", "serve"} \subseteq Steps \ WithHash
    BY DEF WithHash, Steps
  <2>4. Answered(r, 503, <<>>) => NewInv'
    BY <2>1, NewEnded DEF Answered
  <2>5. ASSUME NEW pc \in {"walk", "serve"}, Moved(r, pc, {"lag", "took", "misread"}) PROVE NewInv'
    BY <2>1, <2>3, <2>5, NewMoved DEF WithHash
  <2>. QED  BY <2>2, <2>4, <2>5
<1>4. ASSUME NEW r \in Reqs, LaterStep(r) PROVE NewInv'
  <2>1. life' = life
    BY <1>4, Zenon DEF LaterStep, Serve, LookupExact, LookupAlt, Consent, Filter, Identity,
                       PreviousIdentity, BurstGate, Bloom, AppendOk, AppendErr, Ambient
  <2>2. ASSUME NEW status, NEW out, Answered(r, status, out), log' = log, seen' = seen PROVE NewInv'
    BY <2>1, <2>2, NewEnded DEF Answered
  <2>3. ASSUME req[r].pc \in Steps, LoopGoesOn(r, "dropped"), log' = log, seen \subseteq seen' PROVE NewInv'
    BY <2>1, <2>3, NewLoop
  <2>4. ASSUME NEW pc \in Steps \ WithHash, req[r].pc \in Steps, NEW F, F \cap {"hash", "prev", "from"} = {},
               Moved(r, pc, F), log' = log, seen' = seen PROVE NewInv'
    BY <2>1, <2>4, NewMoved DEF WithHash
  <2>6. CASE Serve(r)
    <3>1. log' = log /\ seen' = seen /\ req[r].pc \in Steps /\ "exact" \in Steps \ WithHash
      BY <2>6 DEF Serve, rowVars, bloomVars, Steps, WithHash
    <3>. QED  BY <1>0, <2>2, <2>4, <2>6, <3>1, ServeEffect
  <2>7. CASE LookupExact(r)
    <3>1. log' = log /\ seen' = seen /\ req[r].pc \in Steps /\ {"consent", "alt"} \subseteq Steps \ WithHash
      BY <2>7 DEF LookupExact, rowVars, bloomVars, Steps, WithHash
    <3>. QED  BY <1>0, <2>4, <2>7, <3>1, ExactEffect DEF Found
  <2>8. CASE LookupAlt(r)
    <3>1. log' = log /\ seen' = seen /\ req[r].pc \in Steps /\ "consent" \in Steps \ WithHash
      BY <2>8 DEF LookupAlt, rowVars, bloomVars, Steps, WithHash
    <3>. QED  BY <1>0, <2>2, <2>4, <2>8, <3>1, AltEffect DEF Found
  <2>9. CASE Consent(r)
    <3>1. log' = log /\ seen' = seen /\ req[r].pc \in Steps /\ "filter" \in Steps \ WithHash
      BY <2>9 DEF Consent, rowVars, bloomVars, Steps, WithHash
    <3>. QED  BY <1>0, <2>3, <2>4, <2>9, <3>1, ConsentEffect DEF Consented
  <2>10. CASE Filter(r)
    <3>1. log' = log /\ seen' = seen /\ req[r].pc \in Steps /\ "identity" \in Steps \ WithHash
      BY <2>10 DEF Filter, rowVars, bloomVars, Steps, WithHash
    <3>. QED  BY <1>0, <2>3, <2>4, <2>10, <3>1, FilterEffect
  <2>11. CASE Identity(r)
    <3>1. log' = log /\ seen' = seen /\ req[r].pc = "identity"
      BY <2>11 DEF Identity, rowVars, bloomVars
    <3>. QED  BY <1>0, <2>1, <2>11, <3>1, IdentityEffect, NewHashed
  <2>16. CASE PreviousIdentity(r)
    <3>1. log' = log /\ seen' = seen /\ req[r].pc = "previous"
      BY <2>16 DEF PreviousIdentity, rowVars, bloomVars
    <3>. QED  BY <1>0, <2>1, <2>16, <3>1, PreviousIdentityEffect, NewPrevious
  <2>12. CASE BurstGate(r)
    <3>1. /\ log' = log /\ seen' = seen /\ req[r].pc \in Steps /\ req[r].pc \in WithPrev
          /\ "bloom" \in Steps
      BY <2>12 DEF BurstGate, rowVars, bloomVars, Steps, WithPrev
    <3>2. Moved(r, "bloom", {}) => NewInv'
      BY <2>1, <3>1, NewMoved
    <3>. QED  BY <1>0, <2>3, <2>12, <3>1, <3>2, BurstEffect
  <2>13. CASE Bloom(r)
    <3>1. log' = log /\ req[r].pc = "bloom" /\ req[r].pc \in Steps
      BY <2>13 DEF Bloom, Steps
    <3>2. seen' = seen \cup {req[r].hash}
      BY <2>13, Zenon DEF Bloom, Mark
    <3>3. Marked(r) => NewInv'
      BY <2>1, <3>1, <3>2, NewMarked
    <3>. QED  BY <1>0, <2>3, <2>13, <3>1, <3>2, <3>3, BloomEffect
  <2>14. CASE AppendOk(r)
    <3>1. req[r].pc = "append" /\ log' = Append(log, LogRow(r)) /\ seen' = seen
      BY <2>14, Zenon DEF AppendOk, bloomVars
    <3>2. Extended(LogRow(r))
      BY <1>0, <3>1, AppendEffect
    <3>3. LoopGoesOn(r, "logged")
      BY <1>0, <2>14, NextEventEffect, Zenon DEF AppendOk
    <3>4. req[r].pc \in Steps
      BY <3>1 DEF Steps
    <3>. QED  BY <2>1, <3>1, <3>2, <3>3, <3>4, LoopKeys, NewLogged
  <2>15. CASE AppendErr(r)
    <3>1. req[r].pc = "append" /\ seen' = seen /\ (log' = log \/ log' = Append(log, LogRow(r)))
      BY <2>15, Zenon DEF AppendErr, bloomVars
    <3>2. Answered(r, 503, Append(req[r].out, "lost"))
      BY <1>0, <2>15, AppendErrEffect
    <3>3. Only(r) /\ req'[r].pc \notin WithHash /\ req'[r].pc \notin Steps
      BY <3>2 DEF Answered, Ended, WithHash, Steps
    <3>4. ASSUME log' = Append(log, LogRow(r)) PROVE NewInv'
      <4>1. Extended(LogRow(r))
        BY <1>0, <3>4, AppendEffect
      <4>. QED  BY <2>1, <3>1, <3>3, <4>1, NewLogged
    <3>. QED  BY <2>2, <3>1, <3>2, <3>4
  <2>. QED  BY <1>4, <2>6, <2>7, <2>8, <2>9, <2>10, <2>11, <2>12, <2>13, <2>14, <2>15, <2>16, Zenon DEF LaterStep
<1>5. ASSUME CutOff, \/ seen' = seen /\ life' = life
                     \/ life' = life + 1
      PROVE  NewInv'
  <2>1. \A r \in Reqs : Cut(r)
    BY <1>0, <1>5, CutOffEffect
  <2>2. log' = log /\ life \in Nat
    BY <1>5, Zenon DEF CutOff, NewInv
  <2>3. ASSUME NEW r \in Reqs PROVE req'[r].pc \notin Steps
    BY <2>1 DEF Cut, Steps
  <2>4. ASSUME NEW r \in Reqs PROVE NewReq(r)' /\ ~Fresh(r)'
    <3>1. req'[r].pc \notin Steps
      BY <2>3
    <3>. QED  BY <3>1 DEF NewReq, KeyOK, FromOK, SeenOK, FreshOK, Fresh, WithHash, WithPrev, Steps
  <2>5. OneFresh'
    BY <2>4 DEF OneFresh
  <2>6. RowsOK'
    <3>1. \A p \in DOMAIN log : RowOK(log[p])
      BY DEF NewInv, RowsOK
    <3>. QED  BY <1>5, <2>2, <3>1 DEF RowsOK, RowOK, RowKey
  <2>7. Once' /\ Returning'
    BY <2>2 DEF NewInv, Once, Returning
  <2>8. life' \in Nat
    BY <1>5, <2>2
  <2>. QED  BY <2>4, <2>5, <2>6, <2>7, <2>8 DEF NewInv
<1>6. ASSUME req' = req, log' = log, seen' = seen, life' = life PROVE NewInv'
  BY <1>6 DEF NewInv, NewReq, KeyOK, FromOK, SeenOK, FreshOK, Fresh, OneFresh, RowsOK, RowOK, Once, Returning
<1>10. CASE \E s \in Sites, c \in Cookies : OptOut(s, c)
  BY <1>6, <1>10 DEF OptOut, rowVars, bloomVars
<1>11. CASE \E row \in Updates : UpdateSite(row)
  BY <1>6, <1>11 DEF UpdateSite, rowVars, bloomVars
<1>12. CASE Stop \/ Kill
  BY <1>5, <1>12, Zenon DEF Stop, Kill, BloomStop
<1>13. CASE Time \/ Fill
  BY <1>6, <1>13 DEF Time, Fill, rowVars, bloomVars
<1>15. CASE UNCHANGED vars
  BY <1>6, <1>15 DEF vars, rowVars, bloomVars
<1>. QED  BY <1>1, <1>2, <1>3, <1>4, <1>10, <1>11, <1>12, <1>13, <1>15, NextCases, Zenon
(* A visitor's newness is in the log, was lost, or is on its way. *)
Accounted(s, v) ==
    \/ \E q \in DOMAIN log : log[q].site = s /\ log[q].visitor = v /\ log[q].isNew = TRUE
    \/ <<s, v>> \in lost
    \/ \E r \in Reqs : Fresh(r) /\ req[r].row.id = s /\ req[r].in.visitor = v

AccountInv ==
    /\ \A h \in seen \cup saved : Accounted(h[1], h[2])
    /\ \A p \in DOMAIN log : log[p].isNew # TRUE => Accounted(log[p].site, log[p].visitor)

(* What becomes of a request that is on its way to the log with a new row. *)
Settled(q) ==
    \/ Fresh(q)' /\ req'[q].row = req[q].row /\ req'[q].in = req[q].in
    \/ <<req[q].row.id, req[q].in.visitor>> \in lost'
    \/ \E p \in DOMAIN log' : /\ log'[p].site = req[q].row.id
                               /\ log'[p].visitor = req[q].in.visitor /\ log'[p].isNew = TRUE

(* A visitor whose mark is accounted for stays so while the log and the    *)
(* losses grow and no request drops a fresh mark unaccounted.              *)
LEMMA AccountedKept ==
  ASSUME LogGrows, lost \subseteq lost', \A q \in Reqs : Fresh(q) => Settled(q),
         NEW s, NEW v, Accounted(s, v)
  PROVE  Accounted(s, v)'
<1>1. CASE \E q \in DOMAIN log : log[q].site = s /\ log[q].visitor = v /\ log[q].isNew = TRUE
  BY <1>1 DEF LogGrows, Accounted
<1>2. CASE <<s, v>> \in lost
  BY <1>2 DEF Accounted
<1>3. CASE \E r \in Reqs : Fresh(r) /\ req[r].row.id = s /\ req[r].in.visitor = v
  <2>1. PICK r \in Reqs : Fresh(r) /\ req[r].row.id = s /\ req[r].in.visitor = v
    BY <1>3
  <2>2. Settled(r)
    BY <2>1
  <2>. QED  BY <2>1, <2>2 DEF Settled, Accounted
<1>. QED  BY <1>1, <1>2, <1>3 DEF Accounted

(* Steps that mark and log nothing. *)
LEMMA AccountQuiet ==
  ASSUME AccountInv, log' = log, seen' \cup saved' \subseteq seen \cup saved, lost \subseteq lost',
         \A q \in Reqs : Fresh(q) => Settled(q)
  PROVE  AccountInv'
<1>1. LogGrows
  BY DEF LogGrows
<1>2. ASSUME NEW s, NEW v, Accounted(s, v) PROVE Accounted(s, v)'
  BY <1>1, <1>2, AccountedKept
<1>3. ASSUME NEW h \in seen' \cup saved' PROVE Accounted(h[1], h[2])'
  BY <1>2 DEF AccountInv
<1>4. ASSUME NEW p \in DOMAIN log', log'[p].isNew # TRUE PROVE Accounted(log[p].site, log[p].visitor)'
  <2>1. Accounted(log[p].site, log[p].visitor)
    BY <1>4 DEF AccountInv
  <2>2. PICK s, v : s = log[p].site /\ v = log[p].visitor
    OBVIOUS
  <2>3. Accounted(s, v)'
    BY <1>2, <2>1, <2>2
  <2>. QED  BY <2>2, <2>3 DEF Accounted
<1>. QED  BY <1>3, <1>4 DEF AccountInv

(* A step of r leaves the fresh marks of the others where they are. *)
LEMMA OthersSettled ==
  ASSUME NEW r \in Reqs, Only(r), NEW q \in Reqs, q # r, Fresh(q)
  PROVE  Settled(q)
BY DEF Only, Fresh, Settled

(* A step of a request that is not before the log. *)
LEMMA AccountStep ==
  ASSUME AccountInv, NEW r \in Reqs, Only(r), req[r].pc # "append",
         log' = log, seen' = seen, saved' = saved, lost' = lost
  PROVE  AccountInv'
<1>1. \A q \in Reqs : Fresh(q) => Settled(q)
  BY OthersSettled DEF Fresh
<1>. QED  BY <1>1, AccountQuiet

(* The new-visitor step accounts for the mark it makes: the request        *)
(* carries it on, or it is recorded as lost.                               *)
LEMMA AccountBloom ==
  ASSUME AccountInv, NEW r \in Reqs, KeyOK(r), Only(r), req[r].pc = "bloom",
         log' = log, seen' = seen \cup {req[r].hash}, saved' = saved,
         \/ Marked(r) /\ lost' = lost
         \/ Lose(r, IsNew(req[r].hash, req[r].prev))
  PROVE  AccountInv'
<1>1. LogGrows /\ lost \subseteq lost'
  BY DEF LogGrows, Lose
<1>2. \A q \in Reqs : Fresh(q) => Settled(q)
  BY OthersSettled DEF Fresh
<1>3. ASSUME NEW s, NEW v, Accounted(s, v) PROVE Accounted(s, v)'
  BY <1>1, <1>2, <1>3, AccountedKept
<1>4. PICK s, v : s = req[r].row.id /\ v = req[r].in.visitor
  OBVIOUS
<1>5. req[r].hash[1] = s /\ req[r].hash[2] = v /\ req[r].prev[1] = s /\ req[r].prev[2] = v
  BY <1>4 DEF KeyOK, WithHash, WithPrev
<1>6. Accounted(s, v)'
  <2>1. CASE IsNew(req[r].hash, req[r].prev)
    <3>1. CASE Marked(r)
      <4>1. req'[r].pc = "append" /\ req'[r].row = req[r].row /\ req'[r].in = req[r].in
        BY <3>1 DEF Marked, Moved, Fields
      <4>2. req'[r].isNew = TRUE
        BY <2>1, <3>1 DEF Marked
      <4>. QED  BY <1>4, <4>1, <4>2 DEF Accounted, Fresh
    <3>2. CASE Lose(r, IsNew(req[r].hash, req[r].prev))
      BY <1>4, <2>1, <3>2 DEF Lose, Accounted
    <3>. QED  BY <3>1, <3>2
  <2>2. CASE ~IsNew(req[r].hash, req[r].prev)
    <3>1. Accounted(s, v)
      BY <1>5, <2>2 DEF IsNew, AccountInv
    <3>. QED  BY <1>3, <3>1
  <2>. QED  BY <2>1, <2>2
<1>7. ASSUME NEW h \in seen' \cup saved' PROVE Accounted(h[1], h[2])'
  <2>1. CASE h = req[r].hash
    BY <1>5, <1>6, <2>1
  <2>2. CASE h \in seen \cup saved
    BY <1>3, <2>2 DEF AccountInv
  <2>. QED  BY <2>1, <2>2
<1>8. ASSUME NEW p \in DOMAIN log', log'[p].isNew # TRUE PROVE Accounted(log[p].site, log[p].visitor)'
  <2>1. Accounted(log[p].site, log[p].visitor)
    BY <1>8 DEF AccountInv
  <2>2. PICK m, w : m = log[p].site /\ w = log[p].visitor
    OBVIOUS
  <2>3. Accounted(m, w)'
    BY <1>3, <2>1, <2>2
  <2>. QED  BY <2>2, <2>3 DEF Accounted
<1>. QED  BY <1>7, <1>8 DEF AccountInv

(* The append settles the mark: the new row is in the log. *)
LEMMA AccountLogged ==
  ASSUME AccountInv, NEW r \in Reqs, KeyOK(r), SeenOK(r), Only(r), req[r].pc = "append",
         Extended(LogRow(r)), seen' = seen, saved' = saved, lost' = lost
  PROVE  AccountInv'
<1>. DEFINE x == LogRow(r)
            n == Len(log')
<1>1. /\ \A p \in DOMAIN log : p \in DOMAIN log' /\ log'[p] = log[p]
      /\ log'[n] = x /\ n \in DOMAIN log' /\ \A p \in DOMAIN log' : p \in DOMAIN log \/ p = n
  BY DEF Extended
<1>2. x.site = req[r].row.id /\ x.visitor = req[r].in.visitor /\ x.isNew = req[r].isNew
  BY LogRowFields
<1>. HIDE DEF x, n
<1>3. Fresh(r) => Settled(r)
  BY <1>1, <1>2 DEF Fresh, Settled
<1>4. ASSUME NEW s, NEW v, Accounted(s, v) PROVE Accounted(s, v)'
  <2>1. LogGrows
    BY <1>1 DEF LogGrows
  <2>2. \A q \in Reqs : Fresh(q) => Settled(q)
    BY <1>3, OthersSettled
  <2>. QED  BY <1>4, <2>1, <2>2, AccountedKept
<1>5. ASSUME NEW h \in seen' \cup saved' PROVE Accounted(h[1], h[2])'
  BY <1>4 DEF AccountInv
<1>6. ASSUME NEW p \in DOMAIN log', log'[p].isNew # TRUE PROVE Accounted(log[p].site, log[p].visitor)'
  <2>1. PICK s, v : s = log'[p].site /\ v = log'[p].visitor
    OBVIOUS
  <2>2. Accounted(s, v)
    <3>1. CASE p \in DOMAIN log
      BY <1>1, <1>6, <2>1, <3>1 DEF AccountInv
    <3>2. CASE p = n
      <4>1. req[r].hash[1] = s /\ req[r].hash[2] = v /\ req[r].hash \in seen
        BY <1>1, <1>2, <2>1, <3>2 DEF KeyOK, SeenOK, WithHash
      <4>. QED  BY <4>1 DEF AccountInv
    <3>. QED  BY <1>1, <3>1, <3>2
  <2>3. Accounted(s, v)'
    BY <1>4, <2>2
  <2>. QED  BY <2>1, <2>3 DEF Accounted
<1>. QED  BY <1>5, <1>6 DEF AccountInv

(* The account of marks is inductive. *)
LEMMA AccountNext == AccountInv /\ NewInv /\ ReplyInv /\ [Next]_vars => AccountInv'
<1>. SUFFICES ASSUME AccountInv, NewInv, ReplyInv, [Next]_vars PROVE AccountInv'
  OBVIOUS
<1>0. Shape /\ IsSeq(log)
  BY DEF ReplyInv
<1>1. ASSUME NEW r \in Reqs, NEW in \in Inputs, NEW status, RefusedOutright(r, in, status) PROVE AccountInv'
  <2>1. log' = log /\ lost' = lost /\ seen' = seen /\ saved' = saved /\ req[r].pc = "idle"
    BY <1>1, Zenon DEF RefusedOutright, rowVars, bloomVars
  <2>2. Only(r)
    BY <1>0, <1>1, RefusedEffect DEF Refused, Ended
  <2>. QED  BY <2>1, <2>2, AccountStep
<1>2. ASSUME NEW r \in Reqs, NEW in \in Inputs, Arrive(r, in) PROVE AccountInv'
  <2>1. log' = log /\ lost' = lost /\ seen' = seen /\ saved' = saved /\ req[r].pc = "idle"
    BY <1>2, Zenon DEF Arrive, rowVars, bloomVars
  <2>2. Only(r)
    BY <1>0, <1>2, ArriveEffect DEF Arrived, Ended
  <2>. QED  BY <2>1, <2>2, AccountStep
<1>3. ASSUME NEW r \in Reqs, AtGate(r) PROVE AccountInv'
  <2>1. log' = log /\ lost' = lost /\ seen' = seen /\ saved' = saved /\ req[r].pc # "append"
    BY <1>0, <1>3, AtGateEffect DEF rowVars, bloomVars
  <2>2. Only(r)
    BY <1>0, <1>3, AtGateEffect DEF Answered, Ended, Moved
  <2>. QED  BY <2>1, <2>2, AccountStep
<1>4. ASSUME NEW r \in Reqs, LaterStep(r) PROVE AccountInv'
  <2>0. KeyOK(r) /\ SeenOK(r)
    BY DEF NewInv, NewReq
  <2>1. Only(r)
    <3>1. ASSUME NEW outcome, LoopGoesOn(r, outcome) PROVE Only(r)
      BY <3>1, Zenon DEF LoopGoesOn, Answered, Ended, Continued, Moved
    <3>. QED  BY <1>0, <1>4, <3>1, LaterStepKinds DEF Answered, Ended, Moved
  <2>2. saved' = saved
    BY <1>4, Zenon DEF LaterStep, Serve, LookupExact, LookupAlt, Consent, Filter, Identity,
               PreviousIdentity, BurstGate,
                       Bloom, Mark, AppendOk, AppendErr, bloomVars
  <2>3. CASE Serve(r) \/ LookupExact(r) \/ LookupAlt(r) \/ Consent(r) \/ Filter(r) \/ Identity(r)
             \/ PreviousIdentity(r) \/ BurstGate(r)
    <3>1. log' = log /\ lost' = lost /\ seen' = seen
      BY <2>3, Zenon DEF Serve, LookupExact, LookupAlt, Consent, Filter, Identity,
               PreviousIdentity, BurstGate, rowVars, bloomVars
    <3>2. req[r].pc # "append"
      BY <2>3 DEF Serve, LookupExact, LookupAlt, Consent, Filter, Identity,
               PreviousIdentity, BurstGate
    <3>. QED  BY <2>1, <2>2, <3>1, <3>2, AccountStep
  <2>4. CASE Bloom(r)
    <3>1. log' = log /\ req[r].pc = "bloom"
      BY <2>4, Zenon DEF Bloom
    <3>2. seen' = seen \cup {req[r].hash}
      BY <2>4, Zenon DEF Bloom, Mark
    <3>3. \/ Marked(r) /\ lost' = lost
          \/ Lose(r, IsNew(req[r].hash, req[r].prev))
      BY <1>0, <2>4, BloomEffect
    <3>. QED  BY <2>0, <2>1, <2>2, <3>1, <3>2, <3>3, AccountBloom
  <2>5. ASSUME req[r].pc = "append", log' = Append(log, LogRow(r)), seen' = seen, lost' = lost PROVE AccountInv'
    <3>1. Extended(LogRow(r))
      BY <1>0, <2>5, AppendEffect
    <3>. QED  BY <2>0, <2>1, <2>2, <2>5, <3>1, AccountLogged
  <2>6. CASE AppendOk(r)
    BY <2>5, <2>6, Zenon DEF AppendOk, bloomVars
  <2>7. ASSUME log' = log, Lose(r, req[r].isNew), seen' = seen PROVE AccountInv'
    <3>1. lost \subseteq lost'
      BY <2>7 DEF Lose
    <3>2. Fresh(r) => Settled(r)
      BY <2>7 DEF Lose, Fresh, Settled
    <3>3. \A q \in Reqs : Fresh(q) => Settled(q)
      BY <2>1, <3>2, OthersSettled
    <3>. QED  BY <2>2, <2>7, <3>1, <3>3, AccountQuiet
  <2>8. CASE AppendErr(r)
    BY <2>5, <2>7, <2>8, Zenon DEF AppendErr, bloomVars
  <2>. QED  BY <1>4, <2>3, <2>4, <2>6, <2>8, Zenon DEF LaterStep
<1>5. ASSUME CutOff, seen' \cup saved' \subseteq seen \cup saved PROVE AccountInv'
  <2>1. lost' = lost \cup {<<req[r].row.id, req[r].in.visitor>> :
                             r \in {q \in Reqs : req[q].pc = "append" /\ req[q].isNew}}
    BY <1>5, Zenon DEF CutOff
  <2>2. log' = log
    BY <1>5, Zenon DEF CutOff
  <2>3. ASSUME NEW q \in Reqs, Fresh(q) PROVE Settled(q)
    BY <2>1, <2>3 DEF Fresh, Settled
  <2>. QED  BY <1>5, <2>1, <2>2, <2>3, AccountQuiet
<1>6. ASSUME req' = req, log' = log, lost' = lost, seen' = seen, saved' = saved PROVE AccountInv'
  <2>1. ASSUME NEW q \in Reqs, Fresh(q) PROVE Settled(q)
    BY <1>6, <2>1 DEF Fresh, Settled
  <2>. QED  BY <1>6, <2>1, AccountQuiet
<1>10. CASE \E s \in Sites, c \in Cookies : OptOut(s, c)
  BY <1>6, <1>10, Zenon DEF OptOut, rowVars, bloomVars
<1>11. CASE \E row \in Updates : UpdateSite(row)
  BY <1>6, <1>11, Zenon DEF UpdateSite, rowVars, bloomVars
<1>12. CASE Stop \/ Kill
  <2>1. seen' \cup saved' \subseteq seen \cup saved
    BY <1>12 DEF Stop, Kill, BloomStop, BloomKill
  <2>. QED  BY <1>5, <1>12, <2>1, Zenon DEF Stop, Kill
<1>13. CASE Time \/ Fill
  BY <1>6, <1>13, Zenon DEF Time, Fill, rowVars, bloomVars
<1>15. CASE UNCHANGED vars
  BY <1>6, <1>15, Zenon DEF vars, rowVars, bloomVars
<1>. QED  BY <1>1, <1>2, <1>3, <1>4, <1>10, <1>11, <1>12, <1>13, <1>15, NextCases, Zenon

HandlerInv == AdmitInv /\ ReplyInv /\ SiteInv /\ NewInv /\ AccountInv

(* The conjunction of the handler's invariants holds in every reachable    *)
(* state.                                                                  *)
THEOREM HandlerInvariance == Spec => []HandlerInv
<1>1. Init => HandlerInv
  <2>1. Init => AccountInv
    BY DEF Init, GatesInit, BloomInit, AccountInv
  <2>. QED  BY <2>1, AdmitInit, ReplyInit, SiteInit, NewInit DEF HandlerInv
<1>2. HandlerInv /\ [Next]_vars => HandlerInv'
  BY AdmitNext, ReplyNext, SiteNext, NewNext, AccountNext, Zenon DEF HandlerInv
<1>. QED  BY <1>1, <1>2, PTL DEF Spec

(* CheckAndMark is atomic: a visitor has at most one new row per site and  *)
(* date in a life of the filter, whatever requests, midnights and restarts *)
(* interleave.                                                             *)
THEOREM NewVisitorOnce == Spec => []NewOncePerDate
<1>1. HandlerInv => NewOncePerDate
  BY DEF HandlerInv, NewInv, Once, NewOncePerDate, Rows, SameVisitor, RowKey
<1>. QED  BY <1>1, HandlerInvariance, PTL

(* Cross-day grace: a visitor with a row in the log when the request       *)
(* arrived is not new on that date, nor on the next one unless midnight    *)
(* passed between the two readings of the clock; orderly restarts change   *)
(* nothing.                                                                *)
THEOREM ReturningVisitor == Spec => []ReturningNotNew
<1>1. HandlerInv => ReturningNotNew
  <2>. SUFFICES ASSUME HandlerInv, NEW p \in DOMAIN log, NEW q \in DOMAIN log, p <= log[q].from,
                       SameVisitor(log[p], log[q]), log[p].life = log[q].life,
                       log[q].date = log[p].date
                         \/ (log[q].date = log[p].date + 1 /\ ~log[q].straddles)
       PROVE  ~log[q].isNew
    BY Zenon DEF ReturningNotNew, Rows
  <2>1. log[p].date \in Int /\ log[q].date \in Int
    BY DEF HandlerInv, NewInv, RowsOK, RowOK
  <2>2. RowKey(log[p]) \in Asked(log[q])
    <3>1. CASE log[q].date = log[p].date
      BY <3>1 DEF RowKey, Asked, SameVisitor
    <3>2. CASE log[q].date = log[p].date + 1 /\ ~log[q].straddles
      <4>1. log[p].date = log[q].date - 1
        BY <2>1, <3>2
      <4>2. RowKey(log[p]) = DayBefore(log[q])
        BY <4>1 DEF RowKey, DayBefore, SameVisitor
      <4>. QED  BY <3>2, <4>2, Zenon DEF Asked
    <3>. QED  BY <3>1, <3>2
  <2>. QED  BY <2>2 DEF HandlerInv, NewInv, Returning
<1>. QED  BY <1>1, HandlerInvariance, PTL

(* A row that is not new has a cause: a new row of the visitor, in the log *)
(* or on its way, or one lost after it was marked.                         *)
THEOREM NewnessIsAccounted == Spec => []NewnessAccounted
<1>1. HandlerInv => NewnessAccounted
  BY DEF HandlerInv, AccountInv, Accounted, Fresh, NewnessAccounted, Rows, SameVisitor
<1>. QED  BY <1>1, HandlerInvariance, PTL
---------------------------------------------------------------------------
(* The burst guard. *)

(* The guard's account of one hash at tick t: the count c is of the last   *)
(* passes of p, which lie in the window from s; the passes before them are *)
(* older than the window, those Cap further back a whole window older; and *)
(* passes 2 * Cap apart are a window apart.                                *)
Windowed(p, c, s, t) ==
    /\ p \in Seq(Int) /\ c \in 0..Cap /\ c <= Len(p)
    /\ s \in Int /\ s <= t
    /\ \A k \in 1..Len(p) :
          /\ p[k] <= t
          /\ k > Len(p) - c => s <= p[k] /\ p[k] < s + Window
          /\ k <= Len(p) - c => p[k] < s
          /\ k <= Len(p) - c - Cap => p[k] < s - Window
          /\ \A j \in 1..Len(p) : k + Cap + Cap <= j => p[j] >= p[k] + Window

EntryFields == {"count", "start"}

BurstInv ==
    /\ DOMAIN burst = Hashes /\ DOMAIN passed = Hashes
    /\ \A h \in Hashes : DOMAIN burst[h] = EntryFields
    /\ Cap > 0 => \A h \in Hashes : Windowed(passed[h], burst[h].count, burst[h].start, now)

(* A hash with no pass yet, as after a start. *)
LEMMA WindowedNoEntry ==
  ASSUME NEW t \in Nat, Cap > 0
  PROVE  Windowed(<<>>, 0, -Window, t)
<1>. DEFINE p == <<>>
<1>1. p \in Seq(Int) /\ Len(p) = 0
  OBVIOUS
<1>2. Window \in Nat /\ Cap \in Int
  BY GatesAssumption
<1>. HIDE DEF p
<1>3. Windowed(p, 0, -Window, t)
  BY <1>1, <1>2 DEF Windowed
<1>. QED  BY <1>3 DEF p

(* The clock only moves forward. *)
LEMMA WindowedLater ==
  ASSUME NEW p, NEW c, NEW s, NEW t \in Nat, NEW u \in Nat, t <= u, Windowed(p, c, s, t)
  PROVE  Windowed(p, c, s, u)
<1>1. /\ p \in Seq(Int) /\ s \in Int /\ s <= u
      /\ \A k \in 1..Len(p) : p[k] \in Int /\ p[k] <= u
  BY DEF Windowed
<1>. QED  BY <1>1 DEF Windowed

(* A pass inside the window. *)
LEMMA WindowedCount ==
  ASSUME NEW p, NEW c, NEW s, NEW t \in Nat, Windowed(p, c, s, t), Cap > 0,
         t - s < Window, c < Cap
  PROVE  Windowed(Append(p, t), c + 1, s, t)
<1>. DEFINE q == Append(p, t)
            n == Len(p)
<1>0. Cap \in Int /\ Window \in Nat
  BY GatesAssumption
<1>1. /\ p \in Seq(Int) /\ n \in Nat /\ c \in 0..Cap /\ c <= n
      /\ s \in Int /\ s <= t
  BY DEF Windowed
<1>2. /\ q \in Seq(Int) /\ Len(q) = n + 1 /\ q[n + 1] = t
      /\ \A k \in 1..n : q[k] = p[k] /\ p[k] \in Int
  BY <1>1
<1>3. \A k \in 1..n :
          /\ p[k] <= t
          /\ k > n - c => s <= p[k] /\ p[k] < s + Window
          /\ k <= n - c => p[k] < s
          /\ k <= n - c - Cap => p[k] < s - Window
  BY DEF Windowed
<1>8. \A k, j \in 1..n : k + Cap + Cap <= j => p[j] >= p[k] + Window
  BY DEF Windowed
<1>. HIDE DEF q, n
<1>4. ASSUME NEW k \in 1..Len(q)
      PROVE  /\ q[k] <= t
             /\ k > Len(q) - (c + 1) => s <= q[k] /\ q[k] < s + Window
             /\ k <= Len(q) - (c + 1) => q[k] < s
             /\ k <= Len(q) - (c + 1) - Cap => q[k] < s - Window
  <2>1. CASE k = n + 1
    BY <2>1, <1>0, <1>1, <1>2
  <2>2. CASE k \in 1..n
    <3>1. q[k] = p[k] /\ p[k] \in Int /\ p[k] <= t
      BY <2>2, <1>2, <1>3
    <3>2. /\ k > n - c => s <= p[k] /\ p[k] < s + Window
          /\ k <= n - c => p[k] < s
          /\ k <= n - c - Cap => p[k] < s - Window
      BY <2>2, <1>3
    <3>3. Len(q) - (c + 1) = n - c /\ Len(q) - (c + 1) - Cap = n - c - Cap
      BY <1>0, <1>1, <1>2
    <3>. QED  BY <3>1, <3>2, <3>3
  <2>. QED  BY <2>1, <2>2, <1>1, <1>2
<1>5. ASSUME NEW k \in 1..(n + 1), NEW j \in 1..(n + 1), k + Cap + Cap <= j
      PROVE  q[j] >= q[k] + Window
  <2>1. k \in 1..n
    BY <1>0, <1>1, <1>5
  <2>2. CASE j = n + 1
    <3>1. k <= n - c - Cap
      BY <2>2, <1>0, <1>1, <1>5
    <3>. QED  BY <3>1, <2>1, <2>2, <1>0, <1>1, <1>2, <1>3
  <2>3. CASE j \in 1..n
    BY <2>1, <2>3, <1>2, <1>8, <1>5
  <2>. QED  BY <2>2, <2>3, <1>1
<1>6. c + 1 \in 0..Cap /\ c + 1 <= n + 1
  BY <1>0, <1>1
<1>9. \A k, j \in 1..Len(q) : k + Cap + Cap <= j => q[j] >= q[k] + Window
  BY <1>2, <1>5
<1>10. Windowed(q, c + 1, s, t)
  BY <1>1, <1>2, <1>4, <1>6, <1>9 DEF Windowed
<1>. QED  BY <1>10 DEF q

(* A pass after the window's end opens the next one. *)
LEMMA WindowedOpen ==
  ASSUME NEW p, NEW c, NEW s, NEW t \in Nat, Windowed(p, c, s, t), Cap > 0,
         t - s >= Window
  PROVE  Windowed(Append(p, t), 1, t, t)
<1>. DEFINE q == Append(p, t)
            n == Len(p)
<1>0. Cap \in Int /\ Window \in Nat /\ Window > 0
  BY GatesAssumption
<1>1. /\ p \in Seq(Int) /\ n \in Nat /\ c \in 0..Cap /\ c <= n
      /\ s \in Int /\ s <= t
  BY DEF Windowed
<1>2. /\ q \in Seq(Int) /\ Len(q) = n + 1 /\ q[n + 1] = t
      /\ \A k \in 1..n : q[k] = p[k] /\ p[k] \in Int
  BY <1>1
<1>3. \A k \in 1..n :
          /\ p[k] <= t
          /\ k > n - c => s <= p[k] /\ p[k] < s + Window
          /\ k <= n - c => p[k] < s
          /\ k <= n - c - Cap => p[k] < s - Window
  BY DEF Windowed
<1>8. \A k, j \in 1..n : k + Cap + Cap <= j => p[j] >= p[k] + Window
  BY DEF Windowed
<1>. HIDE DEF q, n
<1>4. ASSUME NEW k \in 1..Len(q)
      PROVE  /\ q[k] <= t
             /\ k > Len(q) - 1 => t <= q[k] /\ q[k] < t + Window
             /\ k <= Len(q) - 1 => q[k] < t
             /\ k <= Len(q) - 1 - Cap => q[k] < t - Window
  <2>1. CASE k = n + 1
    BY <2>1, <1>0, <1>1, <1>2
  <2>2. CASE k \in 1..n
    <3>1. q[k] = p[k] /\ p[k] \in Int
      BY <2>2, <1>2
    <3>2. k > n - c => p[k] < t
      BY <2>2, <3>1, <1>0, <1>1, <1>3
    <3>3. k <= n - c => p[k] < t - Window
      BY <2>2, <3>1, <1>0, <1>1, <1>3
    <3>4. Len(q) - 1 = n /\ Len(q) - 1 - Cap = n - Cap
      BY <1>0, <1>1, <1>2
    <3>5. k <= n - Cap => k <= n - c
      BY <2>2, <1>0, <1>1
    <3>6. p[k] < t
      BY <2>2, <3>1, <3>2, <3>3, <1>0, <1>1
    <3>. QED  BY <3>1, <3>3, <3>4, <3>5, <3>6, <2>2, <1>0, <1>1
  <2>. QED  BY <2>1, <2>2, <1>1, <1>2
<1>5. ASSUME NEW k \in 1..(n + 1), NEW j \in 1..(n + 1), k + Cap + Cap <= j
      PROVE  q[j] >= q[k] + Window
  <2>1. k \in 1..n
    BY <1>0, <1>1, <1>5
  <2>2. CASE j = n + 1
    <3>1. k <= n - c
      BY <2>2, <1>0, <1>1, <1>5
    <3>. QED  BY <3>1, <2>1, <2>2, <1>0, <1>1, <1>2, <1>3, SMTT(30)
  <2>3. CASE j \in 1..n
    BY <2>1, <2>3, <1>2, <1>8, <1>5
  <2>. QED  BY <2>2, <2>3, <1>1
<1>6. 1 \in 0..Cap /\ 1 <= n + 1
  BY <1>0, <1>1
<1>9. \A k, j \in 1..Len(q) : k + Cap + Cap <= j => q[j] >= q[k] + Window
  BY <1>2, <1>5
<1>10. Windowed(q, 1, t, t)
  BY <1>1, <1>2, <1>4, <1>6, <1>9 DEF Windowed
<1>. QED  BY <1>10 DEF q

(* What Allow and its count do to a hash. *)
LEMMA BurstPass ==
  ASSUME BurstInv, now \in Nat, NEW h, Allow(h), CountPass(h), now' = now
  PROVE  BurstInv'
<1>. DEFINE e == IF WindowOver(h) THEN [count |-> 1, start |-> now]
                 ELSE [count |-> burst[h].count + 1, start |-> burst[h].start]
<1>1. CASE Cap <= 0
  BY <1>1, GatesAssumption DEF BurstInv, CountPass
<1>2. CASE Cap > 0
  <2>1. /\ burst' = [burst EXCEPT ![h] = e]
        /\ passed' = [passed EXCEPT ![h] = Append(passed[h], now)]
    <3>1. ~(Cap <= 0)
      BY <1>2, GatesAssumption
    <3>2. burst' = [burst EXCEPT ![h] = e]
      <4>1. CASE WindowOver(h)
        BY <4>1, <3>1 DEF CountPass
      <4>2. CASE ~WindowOver(h)
        BY <4>2, <3>1 DEF CountPass
      <4>. QED  BY <4>1, <4>2
    <3>3. passed' = [passed EXCEPT ![h] = Append(passed[h], now)]
      BY DEF CountPass
    <3>. HIDE DEF e
    <3>. QED  BY <3>1, <3>2, <3>3
  <2>. HIDE DEF e
  <2>2. CASE h \notin Hashes
    BY <2>1, <2>2, <1>2 DEF BurstInv
  <2>3. CASE h \in Hashes
    <3>1. DOMAIN burst[h] = EntryFields /\ Windowed(passed[h], burst[h].count, burst[h].start, now)
      BY <2>3, <1>2 DEF BurstInv
    <3>2. DOMAIN e = EntryFields
      BY <3>1 DEF e, EntryFields
    <3>3. ASSUME WindowOver(h) PROVE Windowed(Append(passed[h], now), e.count, e.start, now)
      <4>1. e.count = 1 /\ e.start = now
        BY <3>3 DEF e
      <4>2. now - burst[h].start >= Window
        BY <3>3 DEF WindowOver
      <4>3. Windowed(Append(passed[h], now), 1, now, now)
        BY <4>2, <3>1, <1>2, WindowedOpen
      <4>. QED  BY <4>1, <4>3
    <3>4. ASSUME ~WindowOver(h) PROVE Windowed(Append(passed[h], now), e.count, e.start, now)
      <4>1. e.count = burst[h].count + 1 /\ e.start = burst[h].start
        BY <3>1, <3>4 DEF e, EntryFields
      <4>2. burst[h].count < Cap
        BY <3>4, <1>2, GatesAssumption DEF Allow
      <4>3. now - burst[h].start < Window
        BY <3>1, <3>4, GatesAssumption DEF WindowOver, Windowed
      <4>4. Windowed(Append(passed[h], now), burst[h].count + 1, burst[h].start, now)
        BY <4>2, <4>3, <3>1, <1>2, WindowedCount
      <4>. QED  BY <4>1, <4>4
    <3>5. Windowed(Append(passed[h], now), e.count, e.start, now)
      BY <3>3, <3>4
    <3>. QED  BY <3>2, <3>5, <2>1, <2>3, <1>2 DEF BurstInv
  <2>. QED  BY <2>2, <2>3
<1>. QED  BY <1>1, <1>2, GatesAssumption

(* A step that does not touch the guard, on the same clock. *)
LEMMA BurstKept ==
  ASSUME BurstInv, burst' = burst, passed' = passed, now' = now
  PROVE  BurstInv'
BY Zenon DEF BurstInv

(* After a start every hash is without an entry. *)
LEMMA BurstEmptied ==
  ASSUME burst' = [h \in Hashes |-> NoEntry], passed' = [h \in Hashes |-> <<>>],
         now' \in Nat
  PROVE  BurstInv'
<1>1. NoEntry.count = 0 /\ NoEntry.start = -Window /\ DOMAIN NoEntry = EntryFields
  BY DEF NoEntry, EntryFields
<1>2. Cap > 0 => Windowed(<<>>, NoEntry.count, NoEntry.start, now')
  BY <1>1, WindowedNoEntry
<1>3. DOMAIN burst' = Hashes /\ DOMAIN passed' = Hashes
  OBVIOUS
<1>4. \A h \in Hashes : burst'[h] = NoEntry /\ passed'[h] = <<>>
  OBVIOUS
<1>. QED  BY <1>1, <1>2, <1>3, <1>4, Zenon DEF BurstInv

(* The guard starts without entries. *)
LEMMA BurstStart == Init => BurstInv
<1>. SUFFICES ASSUME Init PROVE BurstInv
  OBVIOUS
<1>0. burst = [h \in Hashes |-> NoEntry] /\ passed = [h \in Hashes |-> <<>>] /\ now = 0
  BY Zenon DEF Init, GatesInit, BurstInit
<1>1. NoEntry.count = 0 /\ NoEntry.start = -Window /\ DOMAIN NoEntry = EntryFields
  BY DEF NoEntry, EntryFields
<1>2. Cap > 0 => Windowed(<<>>, NoEntry.count, NoEntry.start, now)
  BY <1>0, <1>1, WindowedNoEntry
<1>3. DOMAIN burst = Hashes /\ DOMAIN passed = Hashes
  BY <1>0
<1>4. \A h \in Hashes : burst[h] = NoEntry /\ passed[h] = <<>>
  BY <1>0
<1>. QED  BY <1>1, <1>2, <1>3, <1>4, Zenon DEF BurstInv

(* The guard's account is inductive: only a pass and the end of the        *)
(* process change it, and the clock only moves forward.                    *)
LEMMA BurstNext == BurstInv /\ AdmitInv /\ [Next]_vars => BurstInv'
<1>. SUFFICES ASSUME BurstInv, AdmitInv, [Next]_vars PROVE BurstInv'
  OBVIOUS
<1>0. now \in Nat
  BY DEF AdmitInv, FillInv, TickTypes
<1>1. ASSUME NEW r \in Reqs, NEW in, NEW status, RefusedOutright(r, in, status) PROVE BurstInv'
  BY <1>1, BurstKept, Zenon DEF RefusedOutright, Ambient, burstVars
<1>2. ASSUME NEW r \in Reqs, NEW in, Arrive(r, in) PROVE BurstInv'
  BY <1>2, BurstKept, Zenon DEF Arrive, Ambient, burstVars
<1>3. ASSUME NEW r \in Reqs, AtGate(r) PROVE BurstInv'
  BY <1>3, BurstKept, Zenon DEF AtGate, Backpressure, BeginWalk, EndWalk, Ambient, burstVars
<1>4. ASSUME NEW r \in Reqs, BurstGate(r) PROVE BurstInv'
  <2>1. now' = now
    BY <1>4, Zenon DEF BurstGate, Ambient
  <2>2. \/ Allow(req[r].hash) /\ CountPass(req[r].hash)
        \/ burst' = burst /\ passed' = passed
    BY <1>4, Zenon DEF BurstGate, burstVars
  <2>. QED  BY <1>0, <2>1, <2>2, BurstPass, BurstKept
<1>5. ASSUME NEW r \in Reqs, LaterStep(r), ~BurstGate(r) PROVE BurstInv'
  <2>1. burst' = burst /\ passed' = passed /\ now' = now
    BY <1>5, Zenon DEF LaterStep, Serve, LookupExact, LookupAlt, Consent, Filter, Identity,
                       PreviousIdentity, Bloom, AppendOk, AppendErr, Ambient, burstVars
  <2>. QED  BY <2>1, BurstKept
<1>6. CASE Stop \/ Kill
  <2>1. CutOff
    BY <1>6, Zenon DEF Stop, Kill
  <2>2. BurstReset /\ now' = now
    BY <2>1, Zenon DEF CutOff
  <2>. QED  BY <1>0, <2>2, BurstEmptied DEF BurstReset
<1>7. CASE Time
  <2>1. burst' = burst /\ passed' = passed /\ now' = now + 1
    BY <1>7, Zenon DEF Time, Tick, burstVars
  <2>2. ASSUME NEW h \in Hashes, Cap > 0
        PROVE  Windowed(passed[h], burst[h].count, burst[h].start, now + 1)
    <3>1. Windowed(passed[h], burst[h].count, burst[h].start, now)
      BY <2>2 DEF BurstInv
    <3>2. now + 1 \in Nat /\ now <= now + 1
      BY <1>0
    <3>. QED  BY <1>0, <3>1, <3>2, WindowedLater
  <2>. QED  BY <2>1, <2>2, Zenon DEF BurstInv
<1>8. CASE \E s \in Sites, c \in Cookies : OptOut(s, c)
  BY <1>8, BurstKept, Zenon DEF OptOut, burstVars
<1>9. CASE \E row \in Updates : UpdateSite(row)
  BY <1>9, BurstKept, Zenon DEF UpdateSite, burstVars
<1>10. CASE Fill
  BY <1>10, BurstKept, Zenon DEF Fill, burstVars
<1>11. CASE UNCHANGED vars
  BY <1>11, BurstKept, Zenon DEF vars, burstVars
<1>. QED  BY <1>1, <1>2, <1>3, <1>4, <1>5, <1>6, <1>7, <1>8, <1>9, <1>10, <1>11, NextCases, Zenon

(* A set of positions any two of which are less than m apart has at most m *)
(* members.                                                                *)
LEMMA SpanBound ==
  ASSUME NEW S \in SUBSET Nat, NEW m \in Nat, m > 0,
         \A k, j \in S : j < k + m
  PROVE  Cardinality(S) <= m
<1>1. CASE S = {}
  BY <1>1, FS_EmptySet
<1>2. CASE S # {}
  <2>. DEFINE R == {ss \in Nat \X Nat : ss[1] < ss[2]}
  <2>0. IsWellFoundedOn(R, Nat)
    BY NatLessThanWellFounded, Zenon DEF OpToRel
  <2>. HIDE DEF R
  <2>1. PICK a \in S : \A y \in S : ~(<<y, a>> \in R)
    <3>1. S \subseteq Nat
      OBVIOUS
    <3>. QED  BY <1>2, <2>0, <3>1, WFMin, Zenon
  <2>2. \A y \in S : y >= a
    <3>. SUFFICES ASSUME NEW y \in S, y < a PROVE FALSE
      OBVIOUS
    <3>1. PICK ss : ss = <<y, a>>
      OBVIOUS
    <3>2. ss \in Nat \X Nat /\ ss[1] = y /\ ss[2] = a
      BY <3>1
    <3>3. ss \in R
      BY <3>2 DEF R
    <3>. QED  BY <2>1, <3>1, <3>3
  <2>3. a \in Nat /\ a + m - 1 \in Int
    OBVIOUS
  <2>4. S \subseteq a..(a + m - 1)
    BY <2>2, <2>3
  <2>5. IsFiniteSet(a..(a + m - 1)) /\ Cardinality(a..(a + m - 1)) = m
    BY <2>3, FS_Interval
  <2>. QED  BY <2>4, <2>5, FS_Subset
<1>. QED  BY <1>1, <1>2

(* The burst guard, for every cap, window and interleaving of requests.    *)
THEOREM BurstIsBounded == Spec => []BurstBound
<1>1. BurstInv => BurstBound
  <2>. SUFFICES ASSUME BurstInv, Cap > 0, NEW h \in Hashes, NEW t \in 0..MaxTime
                PROVE  Cardinality({k \in DOMAIN passed[h] :
                                       passed[h][k] \in t..(t + Window - 1)}) <= 2 * Cap
    BY DEF BurstBound
  <2>. DEFINE S == {k \in DOMAIN passed[h] : passed[h][k] \in t..(t + Window - 1)}
  <2>1. PICK p : p = passed[h]
    OBVIOUS
  <2>2. /\ p \in Seq(Int)
        /\ \A k, j \in 1..Len(p) : k + Cap + Cap <= j => p[j] >= p[k] + Window
    BY <2>1 DEF BurstInv, Windowed
  <2>3. Cap \in Nat /\ Window \in Nat /\ t \in Nat /\ 2 * Cap \in Nat /\ 2 * Cap = Cap + Cap /\ 2 * Cap > 0
    BY GatesAssumption
  <2>8. DOMAIN p = 1..Len(p) /\ Len(p) \in Nat /\ \A k \in 1..Len(p) : p[k] \in Int
    BY <2>2
  <2>9. \A k \in S : k \in 1..Len(p) /\ p[k] \in t..(t + Window - 1)
    BY <2>1, <2>8
  <2>4. \A k \in S : k \in Nat /\ k \in 1..Len(p) /\ p[k] \in Int /\ t <= p[k] /\ p[k] <= t + Window - 1
    BY <2>3, <2>8, <2>9
  <2>. HIDE DEF S
  <2>5. \A k, j \in S : j < k + 2 * Cap
    <3>. SUFFICES ASSUME NEW k \in S, NEW j \in S, k + 2 * Cap <= j PROVE FALSE
      BY <2>3, <2>4
    <3>1. p[j] >= p[k] + Window
      BY <2>2, <2>3, <2>4
    <3>. QED  BY <3>1, <2>3, <2>4
  <2>6. S \in SUBSET Nat
    BY <2>4
  <2>7. Cardinality(S) <= 2 * Cap
    BY <2>3, <2>5, <2>6, SpanBound
  <2>. QED  BY <2>7 DEF S
<1>. QED  BY <1>1, AdmitInit, AdmitNext, BurstStart, BurstNext, PTL DEF Spec
=============================================================================

------------------------- MODULE RequestPathProofs -------------------------
(***************************************************************************)
(* Proofs about RequestPath, for any requests and any number of retries    *)
(* and lost connections: the types of its variables, and that the proxy    *)
(* alone never makes a command take effect twice.                          *)
(***************************************************************************)
EXTENDS RequestPath, TLAPS

\* The counters of TypeOK, as functions.
Counted == calls \in [Reqs -> Nat] /\ effects \in [Reqs -> Nat] /\ refused \in [Reqs -> Nat]

\* A request is in one place: no step sends it again before the copy that was
\* sent is answered.
OneCopy ==
    /\ \A c \in copies : c.req \in submitted
    /\ \A c, d \in copies : c.req = d.req => c = d

\* Only a request that came back with its result has an effect that no refusal
\* accounts for.
EffectsOfCopies ==
    /\ \A r \in Reqs \ submitted : effects[r] = 0
    /\ \A c \in copies : c.at # "ok" => effects[c.req] <= refused[c.req]

\* NotSentTwice is not inductive: a second copy of a request whose command has
\* taken effect would break it later.
PathInv == TypeOK /\ Counted /\ OneCopy /\ EffectsOfCopies /\ NotSentTwice

\* Init satisfies the invariant: nothing was submitted.
LEMMA InitPath == Init => PathInv
<1> USE PathAssumption
<1> SUFFICES ASSUME Init PROVE PathInv
  OBVIOUS
<1>1. Counted
  BY DEF Init, Counted
<1>2. OneCopy /\ EffectsOfCopies /\ NotSentTwice
  BY DEF Init, OneCopy, EffectsOfCopies, NotSentTwice
<1>3. TypeOK
  <2>1. retries \in [Reqs -> 0 .. MaxRetries] /\ connLosses \in 0 .. MaxLost
    BY DEF Init
  <2>2. \A r \in Reqs : {calls[r], effects[r], refused[r]} \subseteq Nat
    BY DEF Init
  <2> QED
    BY <2>1, <2>2 DEF Init, TypeOK
<1> QED
  BY <1>1, <1>2, <1>3 DEF PathInv

----------------------------------------------------------------------------
(* What steps have in common.                                              *)

\* A copy disappears, or is replaced by one of the same request.
LEMMA MovedKeeps ==
    ASSUME PathInv, NEW c \in copies,
           \/ copies' = copies \ {c}
           \/ \E d \in Copy : /\ d.req = c.req /\ (c.at = "ok" => d.at = "ok")
                              /\ copies' = (copies \ {c}) \cup {d},
           UNCHANGED <<submitted, effects, refused>>
    PROVE  copies' \subseteq Copy /\ OneCopy' /\ EffectsOfCopies' /\ NotSentTwice'
<1> USE DEF PathInv
<1>1. c \in Copy /\ copies \subseteq Copy
  BY DEF TypeOK
<1>2. NotSentTwice'
  BY DEF NotSentTwice
<1>3. CASE copies' = copies \ {c}
  BY <1>1, <1>2, <1>3 DEF OneCopy, EffectsOfCopies
<1>4. ASSUME NEW d \in Copy, d.req = c.req, c.at = "ok" => d.at = "ok",
             copies' = (copies \ {c}) \cup {d}
      PROVE  copies' \subseteq Copy /\ OneCopy' /\ EffectsOfCopies'
  <2>1. copies' \subseteq Copy
    BY <1>1, <1>4
  <2>2. OneCopy'
    BY <1>1, <1>4 DEF OneCopy
  <2>3. EffectsOfCopies'
    BY <1>1, <1>4 DEF EffectsOfCopies
  <2> QED
    BY <2>1, <2>2, <2>3
<1> QED
  BY <1>2, <1>3, <1>4

\* A step that leaves the copies and the stores alone.
LEMMA FlowUnchangedKeeps ==
    ASSUME PathInv, UNCHANGED <<flowVars, storeVars>>,
           submitted \subseteq submitted', submitted' \subseteq Reqs
    PROVE  OneCopy' /\ EffectsOfCopies' /\ NotSentTwice'
BY DEF PathInv, OneCopy, EffectsOfCopies, NotSentTwice, flowVars, storeVars

\* The callback of a request is invoked.
LEMMA InvokedCounts ==
    ASSUME Counted, NEW r \in Reqs, invoked(r), UNCHANGED storeVars
    PROVE  Counted' /\ \A q \in Reqs : {calls'[q], effects'[q], refused'[q]} \subseteq Nat
<1>1. calls' \in [Reqs -> Nat]
  BY DEF Counted, invoked
<1> QED
  BY <1>1 DEF Counted, storeVars

\* It is not.
LEMMA UninvokedCounts ==
    ASSUME Counted, UNCHANGED <<calls, storeVars>>
    PROVE  Counted' /\ \A q \in Reqs : {calls'[q], effects'[q], refused'[q]} \subseteq Nat
BY DEF Counted, storeVars

\* Who loads a callback is a handler.
LEMMA LoadTyped ==
    ASSUME found \subseteq Handler, NEW r \in Reqs,
           NEW who \in {"timer", "proxy", "reply", "writer"}, load(r, who)
    PROVE  found' \subseteq Handler
<1>1. [req |-> r, who |-> who] \in Handler
  BY DEF Handler
<1> QED
  BY <1>1 DEF load

\* A copy that moves is a copy.
LEMMA CopyMoved ==
    ASSUME NEW c \in Copy, NEW place \in Places
    PROVE  /\ [c EXCEPT !.at = place] \in Copy
           /\ [c EXCEPT !.at = place].req = c.req
           /\ [c EXCEPT !.at = place].at = place
BY DEF Copy

----------------------------------------------------------------------------
(* The steps of the server.                                                *)

\* A new call: a request nobody has a copy of gets its first one.
LEMMA AsyncExecKeeps == ASSUME PathInv, NEW r \in Reqs, AsyncExec(r) PROVE PathInv'
<1> USE PathAssumption DEF PathInv
<1> DEFINE new == [req |-> r, at |-> "dispatch", local |-> TRUE]
<1>1. new \in Copy /\ new.req = r /\ new.at = "dispatch"
  BY DEF Copy, Places
<1>2. /\ r \notin submitted /\ submitted' = submitted \cup {r}
      /\ copies' = copies \cup {new} /\ UNCHANGED <<effects, refused, calls>>
  BY DEF AsyncExec, storeVars
<1>3. failing' \subseteq Failure
  <2>1. \A f \in Failure : [f EXCEPT !.holds = {r}] \in Failure
    BY DEF Failure
  <2>2. CASE failing' = failing
    BY <2>2 DEF TypeOK
  <2>3. ASSUME NEW f \in failing, failing' = (failing \ {f}) \cup {[f EXCEPT !.holds = {r}]}
        PROVE  failing' \subseteq Failure
    BY <2>1, <2>3 DEF TypeOK
  <2> QED
    BY <2>2, <2>3 DEF AsyncExec, acquired
<1>4. Counted' /\ \A q \in Reqs : {calls'[q], effects'[q], refused'[q]} \subseteq Nat
  BY <1>2, UninvokedCounts DEF storeVars
<1>5. timers' \subseteq submitted' /\ timers' \subseteq Timed /\ expired' \subseteq submitted'
  BY DEF AsyncExec, withTimer, TypeOK
<1>6. TypeOK'
  BY <1>1, <1>2, <1>3, <1>4, <1>5 DEF TypeOK, AsyncExec
<1>7. OneCopy'
  <2>1. \A c \in copies : c.req \in submitted /\ c.req # r
    BY <1>2 DEF OneCopy
  <2>2. \A c, d \in copies : c.req = d.req => c = d
    BY DEF OneCopy
  <2> HIDE DEF new
  <2> QED
    BY <1>1, <1>2, <2>1, <2>2 DEF OneCopy
<1>8. EffectsOfCopies'
  <2>1. effects[r] = 0 /\ refused[r] \in Nat
    BY <1>2 DEF EffectsOfCopies, Counted
  <2> QED
    BY <1>1, <1>2, <2>1 DEF EffectsOfCopies
<1>9. NotSentTwice'
  BY <1>2 DEF NotSentTwice
<1> QED
  BY <1>4, <1>6, <1>7, <1>8, <1>9

\* BuildFails, Respond, ExecTimeout, Expire and AfterError only concern the
\* callbacks.
LEMMA CallStepsKeep ==
    ASSUME PathInv,
           \/ \E r \in Reqs : BuildFails(r) \/ ExecTimeout(r) \/ Expire(r)
           \/ \E h \in found : Respond(h)
           \/ \E f \in failing : AfterError(f)
    PROVE  PathInv'
<1> USE PathAssumption DEF PathInv
<1>1. ASSUME NEW r \in Reqs, BuildFails(r) PROVE PathInv'
  <2>1. Counted' /\ \A q \in Reqs : {calls'[q], effects'[q], refused'[q]} \subseteq Nat
    BY <1>1, InvokedCounts DEF BuildFails
  <2>2. TypeOK'
    BY <1>1, <2>1 DEF TypeOK, BuildFails, flowVars
  <2>3. OneCopy' /\ EffectsOfCopies' /\ NotSentTwice'
    BY <1>1, <2>2, FlowUnchangedKeeps DEF BuildFails, TypeOK
  <2> QED
    BY <2>1, <2>2, <2>3
<1>2. ASSUME NEW r \in Reqs, ExecTimeout(r) PROVE PathInv'
  <2>1. Counted' /\ \A q \in Reqs : {calls'[q], effects'[q], refused'[q]} \subseteq Nat
    BY <1>2, UninvokedCounts DEF ExecTimeout
  <2>2. found' \subseteq Handler
    BY <1>2, LoadTyped DEF ExecTimeout, TypeOK
  <2>3. TypeOK'
    BY <1>2, <2>1, <2>2 DEF TypeOK, ExecTimeout, flowVars
  <2>4. OneCopy' /\ EffectsOfCopies' /\ NotSentTwice'
    BY <1>2, <2>3, FlowUnchangedKeeps DEF ExecTimeout, TypeOK
  <2> QED
    BY <2>1, <2>3, <2>4
<1>3. ASSUME NEW r \in Reqs, Expire(r) PROVE PathInv'
  <2>1. Counted' /\ \A q \in Reqs : {calls'[q], effects'[q], refused'[q]} \subseteq Nat
    BY <1>3, UninvokedCounts DEF Expire
  <2>2. TypeOK'
    BY <1>3, <2>1 DEF TypeOK, Expire, flowVars
  <2>3. OneCopy' /\ EffectsOfCopies' /\ NotSentTwice'
    BY <1>3, <2>2, FlowUnchangedKeeps DEF Expire, TypeOK
  <2> QED
    BY <2>1, <2>2, <2>3
<1>4. ASSUME NEW h \in found, Respond(h) PROVE PathInv'
  <2>0. h.req \in Reqs
    BY DEF TypeOK, Handler
  <2>1. Counted' /\ \A q \in Reqs : {calls'[q], effects'[q], refused'[q]} \subseteq Nat
    BY <1>4, <2>0, InvokedCounts DEF Respond
  <2>2. TypeOK'
    BY <1>4, <2>1 DEF TypeOK, Respond, deleted, flowVars
  <2>3. OneCopy' /\ EffectsOfCopies' /\ NotSentTwice'
    BY <1>4, <2>2, FlowUnchangedKeeps DEF Respond, TypeOK
  <2> QED
    BY <2>1, <2>2, <2>3
<1>5. ASSUME NEW f \in failing, AfterError(f) PROVE PathInv'
  <2>0. f.req \in Reqs
    BY DEF TypeOK, Failure
  <2>1. Counted' /\ \A q \in Reqs : {calls'[q], effects'[q], refused'[q]} \subseteq Nat
    BY <1>5, <2>0, InvokedCounts DEF AfterError
  <2>2. TypeOK'
    BY <1>5, <2>1 DEF TypeOK, AfterError, flowVars
  <2>3. OneCopy' /\ EffectsOfCopies' /\ NotSentTwice'
    BY <1>5, <2>2, FlowUnchangedKeeps DEF AfterError, TypeOK
  <2> QED
    BY <2>1, <2>2, <2>3
<1> QED
  BY <1>1, <1>2, <1>3, <1>4, <1>5

----------------------------------------------------------------------------
(* The steps of the proxy, the connection and the stores.                  *)

\* A step of the proxy or the stores that invokes no callback.
LEMMA FlowTyped ==
    ASSUME PathInv, copies' \subseteq Copy, found' \subseteq Handler, failing' \subseteq Failure,
           connected' \in BOOLEAN, connLosses' \in 0 .. MaxLost,
           retries' \in [Reqs -> 0 .. MaxRetries],
           dropped' \subseteq submitted,
           UNCHANGED <<submitted, libaryCB, timers, expired, calls, robbed, effects, refused>>
    PROVE  TypeOK' /\ Counted'
BY DEF PathInv, TypeOK, Counted

\* The types that most steps of a copy leave alone.
LEMMA FlowTypes ==
    ASSUME PathInv
    PROVE  /\ copies \subseteq Copy /\ found \subseteq Handler /\ failing \subseteq Failure
           /\ connected \in BOOLEAN /\ connLosses \in 0 .. MaxLost
           /\ retries \in [Reqs -> 0 .. MaxRetries] /\ dropped \subseteq submitted
           /\ \A c \in copies : c \in Copy /\ c.req \in Reqs /\ c.req \in submitted
BY DEF PathInv, TypeOK, OneCopy, Copy

\* retryWithRaftError moves the copy, or gives it up.
LEMMA RetryKeeps ==
    ASSUME PathInv, NEW c \in copies, c.at # "ok", retryWithRaftError(c)
    PROVE  PathInv'
<1> USE FlowTypes
<1>1. CASE RetryLater(c)
  <2>1. [c EXCEPT !.at = "retry"] \in Copy /\ [c EXCEPT !.at = "retry"].req = c.req
    BY CopyMoved DEF Places
  <2>2. /\ copies' = (copies \ {c}) \cup {[c EXCEPT !.at = "retry"]}
        /\ UNCHANGED <<callVars, connected, dropped, connLosses, storeVars>>
    BY <1>1 DEF RetryLater, move
  <2>3. copies' \subseteq Copy /\ OneCopy' /\ EffectsOfCopies' /\ NotSentTwice'
    BY <2>1, <2>2, MovedKeeps DEF callVars, storeVars
  <2>4. retries' \in [Reqs -> 0 .. MaxRetries]
    BY <1>1, PathAssumption DEF RetryLater
  <2>5. TypeOK' /\ Counted'
    BY <2>2, <2>3, <2>4, FlowTyped DEF callVars, storeVars
  <2> QED
    BY <2>3, <2>5 DEF PathInv
<1>2. CASE GiveUp(c)
  <2>1. /\ copies' = copies \ {c} /\ load(c.req, "proxy")
        /\ UNCHANGED <<submitted, libaryCB, timers, expired, calls, failing, robbed,
                       connected, dropped, retries, connLosses, effects, refused>>
    BY <1>2 DEF GiveUp, consume, storeVars
  <2>2. copies' \subseteq Copy /\ OneCopy' /\ EffectsOfCopies' /\ NotSentTwice'
    BY <2>1, MovedKeeps
  <2>3. found' \subseteq Handler
    BY <2>1, LoadTyped
  <2>4. TypeOK' /\ Counted'
    BY <2>1, <2>2, <2>3, FlowTyped
  <2> QED
    BY <2>2, <2>4 DEF PathInv
<1> QED
  BY <1>1, <1>2 DEF retryWithRaftError

\* The request goes to a store, to its backend or onto the wire, or comes out
\* of the retry queue.
LEMMA SendKeeps ==
    ASSUME PathInv, NEW c \in copies,
           SendLocal(c) \/ SendRemote(c) \/ DoRetry(c) \/ Flush(c) \/ OnMessage(c)
    PROVE  PathInv'
<1> USE FlowTypes
<1>1. /\ c.at # "ok"
      /\ \E d \in Copy : d.req = c.req /\ copies' = (copies \ {c}) \cup {d}
  <2>1. CASE SendLocal(c)
    <3>1. /\ [c EXCEPT !.at = "local", !.local = TRUE] \in Copy
          /\ [c EXCEPT !.at = "local", !.local = TRUE].req = c.req
      BY DEF Copy, Places
    <3> QED
      BY <2>1, <3>1 DEF SendLocal, outgoing
  <2>2. CASE SendRemote(c)
    <3>1. /\ [c EXCEPT !.at = "queue", !.local = FALSE] \in Copy
          /\ [c EXCEPT !.at = "queue", !.local = FALSE].req = c.req
      BY DEF Copy, Places
    <3> QED
      BY <2>2, <3>1 DEF SendRemote, outgoing
  <2>3. CASE DoRetry(c)
    BY <2>3, CopyMoved DEF DoRetry, move, Places
  <2>4. CASE Flush(c)
    BY <2>4, CopyMoved DEF Flush, move, Places
  <2>5. CASE OnMessage(c)
    <3>1. c.at = "wire" /\ (move(c, "remote") \/ move(c, "bare"))
      BY <2>5 DEF OnMessage
    <3>2. CASE move(c, "remote")
      BY <3>1, <3>2, CopyMoved DEF move, Places
    <3>3. CASE move(c, "bare")
      BY <3>1, <3>3, CopyMoved DEF move, Places, Replies
    <3> QED
      BY <3>1, <3>2, <3>3
  <2> QED
    BY <2>1, <2>2, <2>3, <2>4, <2>5
<1>2. /\ UNCHANGED <<callVars, dropped, retries, connLosses, storeVars>>
      /\ connected' \in BOOLEAN
  BY DEF SendLocal, SendRemote, DoRetry, Flush, OnMessage
<1>3. copies' \subseteq Copy /\ OneCopy' /\ EffectsOfCopies' /\ NotSentTwice'
  BY <1>1, <1>2, MovedKeeps DEF callVars, storeVars
<1>4. TypeOK' /\ Counted'
  BY <1>2, <1>3, FlowTyped DEF callVars, storeVars
<1> QED
  BY <1>3, <1>4 DEF PathInv

\* The copy is gone: answered, lost or forgotten.
LEMMA ConsumeKeeps ==
    ASSUME PathInv, NEW c \in copies,
           \/ DispatchFails(c) \/ ResendFails(c) \/ DoneOk(c) \/ DoneInvalid(c)
           \/ DoneBare(c) \/ Forget(c)
    PROVE  PathInv'
<1> USE FlowTypes
<1>1. /\ copies' = copies \ {c}
      /\ UNCHANGED <<submitted, libaryCB, timers, expired, calls, robbed, connected,
                     retries, connLosses, effects, refused>>
      /\ dropped' \subseteq dropped \cup {c.req}
  BY DEF DispatchFails, ResendFails, DoneOk, DoneInvalid, DoneBare, Forget, consume,
     callVars, storeVars
<1>2. copies' \subseteq Copy /\ OneCopy' /\ EffectsOfCopies' /\ NotSentTwice'
  BY <1>1, MovedKeeps
<1>3. found' \subseteq Handler
  <2>1. CASE load(c.req, "reply")
    BY <2>1, LoadTyped
  <2>2. CASE found' = found
    BY <2>2
  <2> QED
    BY <2>1, <2>2 DEF DispatchFails, ResendFails, DoneOk, DoneInvalid, DoneBare, Forget, callVars
<1>4. failing' \subseteq Failure
  <2>1. [req |-> c.req, holds |-> {}] \in Failure
    BY DEF Failure
  <2> QED
    BY <2>1 DEF DispatchFails, ResendFails, DoneOk, DoneInvalid, DoneBare, Forget, callVars
<1>5. TypeOK' /\ Counted'
  BY <1>1, <1>2, <1>3, <1>4, FlowTyped
<1> QED
  BY <1>2, <1>5 DEF PathInv

\* A Flush that fails: the request may be on the wire, but nowhere else.
LEMMA FlushFailsKeeps == ASSUME PathInv, NEW c \in copies, FlushFails(c) PROVE PathInv'
<1> USE FlowTypes
<1>1. /\ c.at = "queue" /\ load(c.req, "writer")
      /\ copies' = copies \ {c} \/ copies' = (copies \ {c}) \cup {[c EXCEPT !.at = "wire"]}
      /\ UNCHANGED <<submitted, libaryCB, timers, expired, calls, failing, robbed, connected,
                     dropped, retries, connLosses, effects, refused>>
  BY DEF FlushFails, afterFlush, storeVars
<1>2. [c EXCEPT !.at = "wire"] \in Copy /\ [c EXCEPT !.at = "wire"].req = c.req
  BY CopyMoved DEF Places
<1>3. copies' \subseteq Copy /\ OneCopy' /\ EffectsOfCopies' /\ NotSentTwice'
  BY <1>1, <1>2, MovedKeeps
<1>4. found' \subseteq Handler
  BY <1>1, LoadTyped
<1>5. TypeOK' /\ Counted'
  BY <1>1, <1>3, <1>4, FlowTyped
<1> QED
  BY <1>3, <1>5 DEF PathInv

\* The connection is lost: copies on it disappear, others stay.
LEMMA ConnLostKeeps == ASSUME PathInv, ConnLost PROVE PathInv'
<1> USE FlowTypes
<1> DEFINE kept(c) == IF c.at = "remote" THEN [c EXCEPT !.at = "orphan"] ELSE c
<1>1. copies' = {kept(c) : c \in {d \in copies : ~onWire(d)}}
  BY DEF ConnLost
<1>2. \A c \in copies : /\ kept(c) \in Copy /\ kept(c).req = c.req
                        /\ c.at = "ok" => kept(c).at = "ok"
  BY DEF Copy, Places
<1>3. /\ UNCHANGED <<callVars, retries, storeVars>>
      /\ connected' = FALSE /\ connLosses' \in 0 .. MaxLost
      /\ dropped' \subseteq submitted
  BY PathAssumption DEF ConnLost
<1> HIDE DEF kept
<1>4. \A e \in copies' : \E c \in copies : e = kept(c)
  BY <1>1
<1>5. copies' \subseteq Copy
  BY <1>2, <1>4
<1>6. OneCopy'
  BY <1>2, <1>3, <1>4 DEF PathInv, OneCopy, callVars
<1>7. EffectsOfCopies' /\ NotSentTwice'
  BY <1>2, <1>3, <1>4 DEF PathInv, EffectsOfCopies, NotSentTwice, callVars, storeVars
<1>8. TypeOK' /\ Counted'
  BY <1>3, <1>5, FlowTyped DEF callVars, storeVars
<1> QED
  BY <1>6, <1>7, <1>8 DEF PathInv

\* A reply takes the place of the copy, or nobody is there to get it.
LEMMA ReplyMoves ==
    ASSUME NEW c \in Copy, NEW kind \in Replies, reply(c, kind)
    PROVE  \/ copies' = copies \ {c}
           \/ \E d \in Copy : /\ d.req = c.req /\ d.at = kind
                              /\ copies' = (copies \ {c}) \cup {d}
<1>1. kind \in Places
  BY DEF Places
<1>2. CASE c.at = "orphan"
  BY <1>2 DEF reply, consume
<1>3. CASE c.at # "orphan"
  BY <1>1, <1>3, CopyMoved DEF reply, move
<1> QED
  BY <1>2, <1>3

\* The command takes effect: no other copy of it is left to do so again, unless
\* the store refuses this one.
LEMMA ExecuteKeeps == ASSUME PathInv, NEW c \in copies, Execute(c) PROVE PathInv'
<1> USE FlowTypes
<1> DEFINE r == c.req
<1>1. /\ c.at # "ok" /\ effects' = [effects EXCEPT ![r] = @ + 1]
      /\ UNCHANGED <<callVars, connected, dropped, retries, connLosses>>
  BY DEF Execute, inStore
<1>2. /\ effects \in [Reqs -> Nat] /\ refused \in [Reqs -> Nat] /\ calls \in [Reqs -> Nat]
      /\ effects[r] <= refused[r]
      /\ \A q \in Reqs : effects[q] <= 1 + refused[q]
      /\ \A q \in Reqs \ submitted : effects[q] = 0
      /\ \A d \in copies : d.at # "ok" => effects[d.req] <= refused[d.req]
  BY <1>1 DEF PathInv, Counted, EffectsOfCopies, NotSentTwice
<1>3. \A d \in copies \ {c} : d.req # r
  BY DEF PathInv, OneCopy
<1>4. PICK kind \in {"ok", "refused"} :
        /\ reply(c, kind)
        /\ kind = "ok" => UNCHANGED refused
        /\ kind = "refused" => refused' = [refused EXCEPT ![r] = @ + 1]
  BY DEF Execute
<1>5. \/ copies' = copies \ {c}
      \/ \E d \in Copy : d.req = r /\ d.at = kind /\ copies' = (copies \ {c}) \cup {d}
  BY <1>4, ReplyMoves DEF Replies
<1>6. copies' \subseteq Copy /\ OneCopy'
  <2>1. copies' \subseteq Copy
    BY <1>5
  <2>2. OneCopy'
    BY <1>1, <1>3, <1>5 DEF PathInv, OneCopy, callVars
  <2> QED
    BY <2>1, <2>2
<1>7. refused' \in [Reqs -> Nat] /\ \A q \in Reqs \ {r} : refused'[q] = refused[q]
  BY <1>2, <1>4
<1>8. effects' \in [Reqs -> Nat] /\ \A q \in Reqs \ {r} : effects'[q] = effects[q]
  BY <1>1, <1>2
<1>9. Counted' /\ TypeOK'
  BY <1>1, <1>2, <1>6, <1>7, <1>8 DEF PathInv, Counted, TypeOK, callVars
<1>10. /\ effects'[r] <= 1 + refused'[r]
       /\ kind = "refused" => effects'[r] <= refused'[r]
  BY <1>1, <1>2, <1>4
<1>11. NotSentTwice'
  BY <1>2, <1>7, <1>8, <1>10 DEF NotSentTwice
<1>12. EffectsOfCopies'
  <2>1. \A q \in Reqs \ submitted' : effects'[q] = 0
    BY <1>1, <1>2, <1>8 DEF callVars
  <2>2. \A d \in copies \ {c} : d.at # "ok" => effects'[d.req] <= refused'[d.req]
    BY <1>2, <1>3, <1>7, <1>8
  <2>3. \A d \in copies' : d \in copies \ {c} \/ (d.req = r /\ d.at = kind)
    BY <1>5
  <2>4. \A d \in copies' : d.at # "ok" => effects'[d.req] <= refused'[d.req]
    BY <1>4, <1>10, <2>2, <2>3
  <2> QED
    BY <2>1, <2>4 DEF EffectsOfCopies
<1> QED
  BY <1>6, <1>9, <1>11, <1>12 DEF PathInv

\* The store refuses the request without executing it.
LEMMA RefuseKeeps == ASSUME PathInv, NEW c \in copies, Refuse(c) PROVE PathInv'
<1> USE FlowTypes
<1>1. /\ c.at # "ok"
      /\ UNCHANGED <<callVars, connected, dropped, retries, connLosses, storeVars>>
  BY DEF Refuse, inStore
<1>2. \/ copies' = copies \ {c}
      \/ \E d \in Copy : d.req = c.req /\ copies' = (copies \ {c}) \cup {d}
  BY ReplyMoves DEF Refuse, Replies
<1>3. copies' \subseteq Copy /\ OneCopy' /\ EffectsOfCopies' /\ NotSentTwice'
  BY <1>1, <1>2, MovedKeeps DEF callVars, storeVars
<1>4. TypeOK' /\ Counted'
  BY <1>1, <1>3, FlowTyped DEF callVars, storeVars
<1> QED
  BY <1>3, <1>4 DEF PathInv

----------------------------------------------------------------------------
\* Every step of the path keeps the invariant.
LEMMA NextPath == PathInv /\ [Next]_vars => PathInv'
<1> SUFFICES ASSUME PathInv, [Next]_vars PROVE PathInv'
  OBVIOUS
<1>1. ASSUME NEW c \in copies, Step(c) PROVE PathInv'
  <2>1. CASE NoLeader(c) \/ DoneRefused(c)
    BY <2>1, RetryKeeps DEF NoLeader, DoneRefused, outgoing
  <2> QED
    BY <1>1, <2>1, SendKeeps, ConsumeKeeps, FlushFailsKeeps, ExecuteKeeps, RefuseKeeps DEF Step
<1>2. CASE UNCHANGED vars
  BY <1>2 DEF vars, callVars, flowVars, storeVars, PathInv, TypeOK, Counted, OneCopy,
     EffectsOfCopies, NotSentTwice
<1>3. ASSUME NEW r \in Reqs, AsyncExec(r) \/ BuildFails(r) \/ ExecTimeout(r) \/ Expire(r)
      PROVE  PathInv'
  BY <1>3, AsyncExecKeeps, CallStepsKeep
<1>4. CASE (\E h \in found : Respond(h)) \/ \E f \in failing : AfterError(f)
  BY <1>4, CallStepsKeep
<1>5. CASE ConnLost
  BY <1>5, ConnLostKeeps
<1> QED
  BY <1>1, <1>2, <1>3, <1>4, <1>5 DEF Next

\* The invariant holds in every state of the path.
LEMMA PathInvariant == Spec => []PathInv
BY InitPath, NextPath, PTL DEF Spec

\* Every variable of the path keeps its type; a timer is scheduled only for a
\* call that asked for one.
THEOREM PathTypes == Spec => []TypeOK
<1>1. PathInv => TypeOK
  BY DEF PathInv
<1> QED
  BY PathInvariant, <1>1, PTL

\* Neither a timeout nor a lost connection nor a failed Flush makes the proxy
\* send a request whose command may still take effect: a command has a second
\* effect only after a replica refused it although it took effect.
THEOREM ProxyNeverRepeats == Spec => []NotSentTwice
<1>1. PathInv => NotSentTwice
  BY DEF PathInv
<1> QED
  BY PathInvariant, <1>1, PTL
=============================================================================

---------------------------- MODULE RequestPath ----------------------------
(***************************************************************************)
(* A request of a library call from AsyncExec to its callback:             *)
(* server/server.go keeps the callback in libaryCB and may give up on it,  *)
(* proxy/proxy.go sends the request to the local store or through a        *)
(* connection (proxy/backend.go, raftstore/rpc.go) and sends it again when *)
(* a replica refuses it.  What replicas do is taken from ReplicaPipeline:  *)
(* they answer a request, refuse it - in rare cases although it takes      *)
(* effect - or, destroyed, never answer.  Shards, keys and the router's    *)
(* tables are left out: any request may be for the local store, for the    *)
(* other one, or for a shard without a leader.                             *)
(***************************************************************************)
EXTENDS Naturals, FiniteSets

CONSTANTS
    Reqs,       \* the requests
    Timed,      \* those with a timeout
    MaxRetries, \* bound on the times a request is sent again
    MaxLost     \* bound on the times the connection is lost

ASSUME PathAssumption ==
    /\ Timed \subseteq Reqs
    /\ {MaxRetries, MaxLost} \subseteq Nat

VARIABLES
    submitted, \* the requests AsyncExec was called with
    libaryCB,  \* the requests whose callback is kept
    timers,    \* the requests whose timeout is scheduled
    expired,   \* the requests whose StopAt has passed
    copies,    \* where a copy of a request is
    connected, \* the connection to the other store
    found,     \* who has loaded a callback and will delete and invoke it
    failing,   \* calls whose request went back to the pool because Dispatch
               \* failed, with the request that was made of it since
    calls,     \* how often the callback was invoked
    effects,   \* how often the command took effect
    \* histories and bounds
    refused,   \* how often a command took effect and was refused
    dropped,   \* the requests of which nobody has a copy or a reply any more
    robbed,    \* the requests whose callback the failure of another one deleted
    retries, connLosses

flowVars == <<copies, connected, dropped, retries, connLosses>>
storeVars == <<effects, refused>>
callVars == <<submitted, libaryCB, timers, expired, found, calls, failing, robbed>>
vars == <<callVars, flowVars, storeVars>>

\* dispatch, resend: on its way to the router, for the first time or again;
\* queue: of the backend; wire; local, remote, orphan: in a store, the last
\* with no connection to answer to; retry: waits for doRetry; the rest are
\* replies.
Replies == {"ok", "refused", "invalid", "bare"}
Places == {"dispatch", "resend", "queue", "wire", "local", "remote", "orphan", "retry"}
          \cup Replies

Init ==
    /\ submitted = {} /\ libaryCB = {} /\ timers = {} /\ expired = {}
    /\ copies = {} /\ connected = FALSE /\ found = {} /\ dropped = {}
    /\ failing = {} /\ robbed = {}
    /\ calls = [r \in Reqs |-> 0] /\ effects = [r \in Reqs |-> 0]
    /\ refused = [r \in Reqs |-> 0]
    /\ retries = [r \in Reqs |-> 0] /\ connLosses = 0

invoked(r) == calls' = [calls EXCEPT ![r] = @ + 1]

----------------------------------------------------------------------------
\* server/server.go.

\* Mutant of withTimer: a request without a timeout is given one, instead.
withTimer_swapped(r) == IF r \in Timed THEN timers ELSE timers \cup {r}

withTimer(r) == IF r \in Timed THEN timers \cup {r} ELSE timers

\* AcquireRequest: a new request, or one that a failing call has released.
acquired(r) ==
    {failing} \cup {(failing \ {f}) \cup {[f EXCEPT !.holds = {r}]} :
                    f \in {g \in failing : g.holds = {}}}

\* AsyncExecWithGroupAndTimeout up to Dispatch.  Without a timeout StopAt is now.
AsyncExec(r) ==
    /\ r \notin submitted
    /\ submitted' = submitted \cup {r}
    /\ libaryCB' = libaryCB \cup {r}
    /\ timers' = withTimer(r)
    /\ expired' = IF r \in Timed THEN expired ELSE expired \cup {r}
    /\ copies' = copies \cup {[req |-> r, at |-> "dispatch", local |-> TRUE]}
    /\ failing' \in acquired(r)
    /\ UNCHANGED <<found, calls, robbed, connected, dropped, retries, connLosses, storeVars>>

\* BuildRequest fails.
BuildFails(r) ==
    /\ r \notin submitted
    /\ submitted' = submitted \cup {r}
    /\ invoked(r)
    /\ UNCHANGED <<libaryCB, timers, expired, found, failing, robbed, flowVars, storeVars>>

\* done, doneError and execTimeout load the callback ...
load(r, who) ==
    found' = IF r \in libaryCB THEN found \cup {[req |-> r, who |-> who]} ELSE found

\* Mutant of deleted: the callback stays.
deleted_kept(r) == libaryCB

deleted(r) == libaryCB \ {r}

\* ... and then delete it and invoke it, whether or not another one did.
Respond(h) ==
    /\ found' = found \ {h}
    /\ libaryCB' = deleted(h.req)
    /\ invoked(h.req)
    /\ UNCHANGED <<submitted, timers, expired, failing, robbed, flowVars, storeVars>>

\* execTimeout.
ExecTimeout(r) ==
    /\ r \in timers
    /\ timers' = timers \ {r}
    /\ load(r, "timer")
    /\ UNCHANGED <<submitted, libaryCB, expired, calls, failing, robbed, flowVars, storeVars>>

\* StopAt passes.
Expire(r) ==
    /\ r \in submitted \ expired
    /\ expired' = expired \cup {r}
    /\ UNCHANGED <<submitted, libaryCB, timers, found, calls, failing, robbed, flowVars, storeVars>>

----------------------------------------------------------------------------
\* proxy/proxy.go.

move(c, place) == copies' = (copies \ {c}) \cup {[c EXCEPT !.at = place]}
consume(c) == copies' = copies \ {c}

outgoing(c) == c.at \in {"dispatch", "resend"}

\* DispatchTo: to the local store.
SendLocal(c) ==
    /\ outgoing(c)
    /\ copies' = (copies \ {c}) \cup {[c EXCEPT !.at = "local", !.local = TRUE]}
    /\ UNCHANGED <<callVars, connected, dropped, retries, connLosses, storeVars>>

\* To the other store, through its backend; getConn connects if need be.
SendRemote(c) ==
    /\ outgoing(c)
    /\ connected' = TRUE
    /\ copies' = (copies \ {c}) \cup {[c EXCEPT !.at = "queue", !.local = FALSE]}
    /\ UNCHANGED <<callVars, dropped, retries, connLosses, storeVars>>

\* retryWithRaftError: try again later, unless it is too late.
RetryLater(c) ==
    /\ c.req \notin expired /\ retries[c.req] < MaxRetries
    /\ retries' = [retries EXCEPT ![c.req] = @ + 1]
    /\ move(c, "retry")
    /\ UNCHANGED <<callVars, connected, dropped, connLosses, storeVars>>

GiveUp(c) ==
    /\ c.req \in expired
    /\ consume(c)
    /\ load(c.req, "proxy")
    /\ UNCHANGED <<submitted, libaryCB, timers, expired, calls, failing, robbed, connected,
                   dropped, retries, connLosses, storeVars>>

retryWithRaftError(c) == RetryLater(c) \/ GiveUp(c)

\* The shard has no leader.
NoLeader(c) == outgoing(c) /\ retryWithRaftError(c)

\* Dispatch fails (not connected, queue disposed, replica removed), and
\* AsyncExec puts the request back into the pool, which resets it ...
DispatchFails(c) ==
    /\ c.at = "dispatch"
    /\ consume(c)
    /\ failing' = failing \cup {[req |-> c.req, holds |-> {}]}
    /\ UNCHANGED <<submitted, libaryCB, timers, expired, found, calls, robbed,
                   connected, dropped, retries, connLosses, storeVars>>

\* ... and only then deletes what is kept under its id: nothing, or the
\* callback of the call that has taken the request since.
AfterError(f) ==
    /\ failing' = failing \ {f}
    /\ libaryCB' = libaryCB \ f.holds
    /\ robbed' = robbed \cup (libaryCB \cap f.holds)
    /\ invoked(f.req)
    /\ UNCHANGED <<submitted, timers, expired, found, flowVars, storeVars>>

\* It fails in doRetry, which ignores the error.
ResendFails(c) ==
    /\ c.at = "resend"
    /\ consume(c)
    /\ dropped' = dropped \cup {c.req}
    /\ UNCHANGED <<callVars, connected, retries, connLosses, storeVars>>

DoRetry(c) ==
    /\ c.at = "retry"
    /\ move(c, "resend")
    /\ UNCHANGED <<callVars, connected, dropped, retries, connLosses, storeVars>>

\* done, with the result.
DoneOk(c) ==
    /\ c.at = "ok"
    /\ consume(c)
    /\ load(c.req, "reply")
    /\ UNCHANGED <<submitted, libaryCB, timers, expired, calls, failing, robbed, connected,
                   dropped, retries, connLosses, storeVars>>

\* done, with an error that is not to be retried (RaftEntryTooLarge).
DoneInvalid(c) ==
    /\ c.at = "invalid"
    /\ consume(c)
    /\ load(c.req, "reply")
    /\ UNCHANGED <<submitted, libaryCB, timers, expired, calls, failing, robbed, connected,
                   dropped, retries, connLosses, storeVars>>

\* done, with an error of rpc.onMessage: it does not carry the request, and
\* doneError only logs it.
DoneBare(c) ==
    /\ c.at = "bare"
    /\ consume(c)
    /\ dropped' = dropped \cup {c.req}
    /\ UNCHANGED <<callVars, connected, retries, connLosses, storeVars>>

\* done, with a raft error or a stale result.
DoneRefused(c) == c.at = "refused" /\ retryWithRaftError(c)

----------------------------------------------------------------------------
\* proxy/backend.go and raftstore/rpc.go.

\* writeLoop: Flush.
Flush(c) ==
    /\ c.at = "queue" /\ connected
    /\ move(c, "wire")
    /\ UNCHANGED <<callVars, connected, dropped, retries, connLosses, storeVars>>

\* Mutant of afterFlush: a request that could not be flushed is sent again.
afterFlush_again(c) ==
    {(copies \ {c}) \cup {[c EXCEPT !.at = "retry"], [c EXCEPT !.at = "wire"]}}

\* What becomes of a request whose Flush fails: it may have been sent.
afterFlush(c) ==
    {copies \ {c}} \cup
    IF connected THEN {(copies \ {c}) \cup {[c EXCEPT !.at = "wire"]}} ELSE {}

\* writeLoop: Flush fails, and errorDone reports it.
FlushFails(c) ==
    /\ c.at = "queue"
    /\ copies' \in afterFlush(c)
    /\ load(c.req, "writer")
    /\ UNCHANGED <<submitted, libaryCB, timers, expired, calls, failing, robbed, connected,
                   dropped, retries, connLosses, storeVars>>

\* rpc.onMessage: the request is in the other store, or OnRequest fails there.
OnMessage(c) ==
    /\ c.at = "wire"
    /\ move(c, "remote") \/ move(c, "bare")
    /\ UNCHANGED <<callVars, connected, dropped, retries, connLosses, storeVars>>

onWire(c) == ~c.local /\ c.at \in {"wire"} \cup Replies

\* readLoop ends.  What is on the connection is lost; the other store answers
\* to a session that is gone.
ConnLost ==
    /\ connected /\ connLosses < MaxLost
    /\ connLosses' = connLosses + 1
    /\ connected' = FALSE
    /\ copies' = {IF c.at = "remote" THEN [c EXCEPT !.at = "orphan"] ELSE c :
                  c \in {d \in copies : ~onWire(d)}}
    /\ dropped' = dropped \cup {c.req : c \in {d \in copies : onWire(d) \/ d.at = "remote"}}
    /\ UNCHANGED <<callVars, retries, storeVars>>

----------------------------------------------------------------------------
\* The replicas (ReplicaPipeline).

inStore(c) == c.at \in {"local", "remote", "orphan"}

\* The reply, which onResp drops if the session is gone.
reply(c, kind) == IF c.at = "orphan" THEN consume(c) ELSE move(c, kind)

\* The command takes effect.
Execute(c) ==
    /\ inStore(c)
    /\ effects' = [effects EXCEPT ![c.req] = @ + 1]
    /\ \/ reply(c, "ok") /\ UNCHANGED refused
       \/ reply(c, "refused") /\ refused' = [refused EXCEPT ![c.req] = @ + 1]
    /\ UNCHANGED <<callVars, connected, dropped, retries, connLosses>>

\* It does not.
Refuse(c) ==
    /\ inStore(c)
    /\ reply(c, "refused") \/ reply(c, "invalid")
    /\ UNCHANGED <<callVars, connected, dropped, retries, connLosses, storeVars>>

\* The replica is destroyed, and forgets it.
Forget(c) ==
    /\ inStore(c)
    /\ consume(c)
    /\ dropped' = dropped \cup {c.req}
    /\ UNCHANGED <<callVars, connected, retries, connLosses, storeVars>>

----------------------------------------------------------------------------
\* What happens to a copy.
Step(c) ==
    \/ SendLocal(c) \/ SendRemote(c) \/ NoLeader(c) \/ DispatchFails(c)
    \/ ResendFails(c) \/ DoRetry(c)
    \/ DoneOk(c) \/ DoneInvalid(c) \/ DoneBare(c) \/ DoneRefused(c)
    \/ Flush(c) \/ FlushFails(c) \/ OnMessage(c)
    \/ Execute(c) \/ Refuse(c) \/ Forget(c)

Next ==
    \/ \E r \in Reqs : AsyncExec(r) \/ BuildFails(r) \/ ExecTimeout(r) \/ Expire(r)
    \/ \E h \in found : Respond(h)
    \/ \E f \in failing : AfterError(f)
    \/ \E c \in copies : Step(c)
    \/ ConnLost

Spec == Init /\ [][Next]_vars

\* Goroutines go on, timers fire and time passes.
Copy == [req : Reqs, at : Places, local : BOOLEAN]
Failure == [req : Reqs, holds : {{}} \cup {{q} : q \in Reqs}]
Handler == [req : Reqs, who : {"timer", "proxy", "reply", "writer"}]

FairSpec ==
    /\ Spec
    /\ \A r \in Reqs : WF_vars(ExecTimeout(r)) /\ WF_vars(Expire(r))
    /\ \A f \in Failure : WF_vars(f \in failing /\ AfterError(f))
    /\ \A h \in Handler : WF_vars(h \in found /\ Respond(h))
    /\ \A c \in Copy : WF_vars(c \in copies /\ Step(c))

----------------------------------------------------------------------------
\* The type of every variable; only calls that asked for one have a timer.
TypeOK ==
    /\ libaryCB \cup timers \cup expired \cup dropped \subseteq submitted
    /\ submitted \subseteq Reqs /\ timers \subseteq Timed
    /\ failing \subseteq Failure /\ robbed \subseteq submitted
    /\ copies \subseteq Copy /\ found \subseteq Handler
    /\ connected \in BOOLEAN /\ connLosses \in 0 .. MaxLost
    /\ retries \in [Reqs -> 0 .. MaxRetries]
    /\ \A r \in Reqs : {calls[r], effects[r], refused[r]} \subseteq Nat

\* A command takes effect a second time only if a replica refused it although
\* it took effect: neither a timeout, nor a connection that fails, nor a reply
\* that comes late makes the proxy send a request again.
NotSentTwice == \A r \in Reqs : effects[r] <= 1 + refused[r]

\* Every call with a timeout has its callback invoked (execTimeout), and every
\* other one, too, unless its only copy or its reply was lost: with the
\* connection, in a store that was destroyed, or in one that refused it without
\* naming it.  The exception to both: a call whose Dispatch failed deletes, for
\* a request it has already released, the callback of the call that reused it.
EveryCallAnswered ==
    \A r \in Reqs :
        r \in submitted ~>
            calls[r] > 0 \/ r \in robbed \/ (r \notin Timed /\ r \in dropped)

\* Callbacks of calls with a timeout do not stay in libaryCB for ever.
CallbacksReleased == \A r \in Timed : r \in libaryCB ~> r \notin libaryCB
=============================================================================

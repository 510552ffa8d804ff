------------------------- MODULE PeerStorageProofs -------------------------
(***************************************************************************)
(* Proofs about PeerStorage.  The invariant says of every version that a   *)
(* crash may bring back what the properties say of the current one, and    *)
(* of the queue of the apply worker how the jobs in it continue the apply  *)
(* state on disk.                                                          *)
(***************************************************************************)
EXTENDS PeerStorage, WellFoundedInduction, TLAPS

Log == UNION {[S -> {"agreed", "lost"}] : S \in SUBSET Indexes}
MetaState == [state : {"normal", "applying"}, last : 0 .. MaxIndex, commit : 0 .. MaxIndex,
              applied : 0 .. MaxIndex, trunc : 0 .. MaxIndex, log : Log]
Result == [first : 0 .. MaxIndex, state : ApplyState]

\* The type of every variable, with the records and functions spelled out.
Types ==
    /\ agreed \in AgreedLogs /\ pendingSnap \in 0 .. MaxIndex
    /\ metas \in Seq(MetaState) /\ metas # <<>>
    /\ datas \in Seq(SUBSET Indexes) /\ datas # <<>> /\ files \subseteq Indexes
    /\ alive \in BOOLEAN /\ ps \in ApplyState
    /\ lastReady \in 0 .. MaxIndex /\ lastCompact \in 0 .. MaxIndex
    /\ jobs \in Seq(Job)
    /\ step \in {"start", "written", "removed", "installed", "cleaned"}
    /\ delegate \in ApplyState \cup {NoDelegate}
    /\ results \in Seq(Result)
    /\ fatal = FALSE /\ unsynced \in BOOLEAN /\ snapshotLost \in BOOLEAN
    /\ crashes \in 0 .. MaxCrashes
    /\ stable \in Log

Versions == Range(metas)

\* What holds of a version m of the metadata, when raft was told that st is
\* stable and cur is the current version.
goodVersion(m, st, cur) ==
    /\ m.trunc <= m.applied /\ m.applied <= m.commit /\ m.commit <= m.last
    /\ \A i \in m.trunc + 1 .. m.last : i \in DOMAIN m.log
    /\ \A i \in DOMAIN st : i > m.trunc => i \in DOMAIN m.log /\ m.log[i] = st[i]
    /\ m.state = cur.state
    /\ \A i \in DOMAIN cur.log : i \in DOMAIN m.log /\ m.log[i] = cur.log[i]
    /\ writes(m.applied) = writes(cur.applied)

\* A crash brings back a version that fits: its indexes are in order, its log
\* is readable and holds what is stable, and replaying it writes nothing twice.
VersionsInv == \A m \in Versions : goodVersion(m, stable, Meta)

\* f[k] is the applied index once the first k jobs of js are done: they lead
\* from a to r.
isPlan(f, js, a, r) ==
    /\ f[0] = a /\ f[Len(js)] = r
    /\ \A k, l \in 0 .. Len(js) : k <= l => f[k] <= f[l]
    /\ \A k \in 1 .. Len(js) :
          IF js[k].kind = "apply"
          THEN js[k].from = f[k - 1] + 1 /\ js[k].to = f[k] /\ js[k].from <= js[k].to
          ELSE f[k] = f[k - 1]

hasPlan(js, a, r) == \E f \in [0 .. Len(js) -> 0 .. MaxIndex] : isPlan(f, js, a, r)

none(js, kind) == \A k \in 1 .. Len(js) : js[k].kind # kind

\* No job before a registration or a snapshot applies entries.
appliesLast(js) ==
    \A k, l \in 1 .. Len(js) :
       k < l /\ js[k].kind = "apply" => js[l].kind \in {"apply", "compact"}

\* The last registration is of the state m on disk.
registers(js, m) ==
    \A k \in 1 .. Len(js) :
       (js[k].kind = "register" /\ \A l \in 1 .. Len(js) : k < l => js[l].kind # "register")
          => js[k].from = m.applied /\ js[k].to = m.trunc

\* There is at most one snapshot, the one that m waits for.
snapshots(js, m) ==
    \A k \in 1 .. Len(js) : js[k].kind = "snapshot" =>
       /\ js[k].from = m.trunc /\ m.state = "applying"
       /\ \A l \in 1 .. Len(js) : js[l].kind = "snapshot" => k = l

\* The queue js, with delegate d, continues the state m on disk up to r.
goodQueue(js, d, r, m) ==
    /\ hasPlan(js, m.applied, r) /\ r <= m.commit
    /\ appliesLast(js) /\ registers(js, m) /\ snapshots(js, m)
    /\ none(js, "register") => d = [applied |-> m.applied, trunc |-> m.trunc]

QueueInv ==
    IF alive THEN goodQueue(jobs, delegate, lastReady, Meta)
    ELSE jobs = <<>> /\ results = <<>> /\ delegate = NoDelegate

\* The step belongs to the first job.
goodStep(js, st) ==
    /\ st = "written" => /\ js # <<>> /\ js[1].kind = "apply"
                         /\ agreed[js[1].from].kind \in {"write", "compact"}
    /\ st \in {"removed", "installed", "cleaned"} => js # <<>> /\ js[1].kind = "snapshot"

StepInv == goodStep(jobs, step)

\* The results rs lead from the event worker's apply state p to m.
goodResults(p, rs, m) ==
    /\ p.applied + Len(rs) = m.applied /\ p.trunc <= m.trunc
    /\ \A k \in 1 .. Len(rs) :
          /\ rs[k].state.applied = p.applied + k
          /\ p.trunc <= rs[k].state.trunc /\ rs[k].state.trunc <= m.trunc
          /\ rs[k].first > 0 => /\ rs[k].first < rs[k].state.trunc
                                /\ rs[k].state.trunc < rs[k].state.applied
          /\ \A l \in 1 .. Len(rs) : k < l => rs[k].state.trunc <= rs[l].state.trunc

\* Deletions of the log stay behind p.
compacts(js, p) == \A k \in 1 .. Len(js) : js[k].kind = "compact" => js[k].to <= p.trunc + 1

readable(p, m) == \A i \in p.trunc + 1 .. m.last : i \in DOMAIN m.log

ViewInv == alive => goodResults(ps, results, Meta) /\ compacts(jobs, ps) /\ readable(ps, Meta)

\* d holds the writes up to the applied index, or one more.
matches(d, applied) ==
    LET later == writes(MaxIndex) \ writes(applied)
    IN d = writes(applied) \/ (later # {} /\ d = writes(Min(later)))

\* The data of a normal replica, with that of every version of it that a crash
\* may bring back and that does not lack a snapshot.
NormalInv ==
    ~snapshotLost /\ Meta.state = "normal" =>
       /\ \A d \in Range(datas) : d = Data \/ ~unsynced => matches(d, Meta.applied)
       /\ step = "written" /\ agreed[jobs[1].from].kind = "write" =>
             \A d \in Range(datas) : d = writes(jobs[1].from)

\* While a snapshot waits or the store is down, a crash brings back the apply
\* state on disk.  A snapshot that is being applied and did not fail has its job,
\* and its data once it is installed.
ApplyingInv ==
    /\ ~alive \/ ~none(jobs, "snapshot") =>
          \A m \in Versions : m.applied = Meta.applied /\ m.trunc = Meta.trunc
    /\ ~snapshotLost /\ Meta.state = "applying" =>
          /\ Meta.applied = Meta.trunc
          /\ alive => ~none(jobs, "snapshot")
          /\ step \in {"installed", "cleaned"} => unsynced /\ Data = writes(Meta.applied)

\* A snapshot that raft holds is beyond the commit index on disk.
PendingInv == pendingSnap # 0 => pendingSnap > Meta.commit

StorageInv ==
    /\ Types /\ VersionsInv /\ QueueInv /\ StepInv /\ ViewInv /\ NormalInv /\ ApplyingInv
    /\ PendingInv


----------------------------------------------------------------------------
(* Sequences, and the least element of a set.                              *)

\* A set of numbers has a least element.
LEMMA MinOf ==
    ASSUME NEW T, T \subseteq Nat, T # {}
    PROVE  Min(T) \in T /\ \A x \in T : Min(T) <= x
<1> DEFINE less == {ss \in Nat \X Nat : ss[1] < ss[2]}
<1>1. IsWellFoundedOn(less, Nat)
  BY NatLessThanWellFounded DEF OpToRel
<1> HIDE DEF less
<1>2. PICK x \in T : \A y \in T : <<y, x>> \notin less
  BY <1>1, WFMin
<1>3. ASSUME NEW y \in T PROVE x <= y
  <2>1. x \in Nat /\ y \in Nat /\ <<y, x>> \notin less
    BY <1>2
  <2> QED
    BY <2>1 DEF less
<1> QED
  BY <1>3 DEF Min

\* A sequence of one element: what a synced write leaves.
LEMMA OneIs ==
    ASSUME NEW S, NEW e \in S
    PROVE  <<e>> \in Seq(S) /\ <<e>> # <<>> /\ Range(<<e>>) = {e} /\ Last(<<e>>) = e
BY DEF Range, Last

\* One element more: what a write without sync adds.
LEMMA AppendIs ==
    ASSUME NEW S, NEW s \in Seq(S), NEW e \in S
    PROVE  /\ Append(s, e) \in Seq(S) /\ Append(s, e) # <<>>
           /\ Range(Append(s, e)) = Range(s) \cup {e} /\ Last(Append(s, e)) = e
<1> DEFINE t == Append(s, e)
<1>1. t \in Seq(S) /\ Len(t) = Len(s) + 1 /\ t[Len(t)] = e
      /\ \A k \in 1 .. Len(s) : t[k] = s[k]
  OBVIOUS
<1>2. DOMAIN t = 1 .. Len(s) + 1 /\ DOMAIN s = 1 .. Len(s) /\ Len(s) \in Nat
  BY <1>1
<1> HIDE DEF t
<1>3. Range(t) \subseteq Range(s) \cup {e}
  <2> SUFFICES ASSUME NEW k \in 1 .. Len(s) + 1 PROVE t[k] \in Range(s) \cup {e}
    BY <1>2 DEF Range
  <2>1. CASE k = Len(s) + 1
    BY <2>1, <1>1
  <2>2. CASE k \in 1 .. Len(s)
    BY <2>2, <1>1, <1>2 DEF Range
  <2> QED
    BY <2>1, <2>2, <1>2
<1>4. Range(s) \cup {e} \subseteq Range(t)
  <2>1. ASSUME NEW k \in 1 .. Len(s) PROVE s[k] \in Range(t)
    <3>1. k \in DOMAIN t /\ t[k] = s[k]
      BY <1>1, <1>2
    <3> QED
      BY <3>1 DEF Range
  <2>2. e \in Range(t)
    <3>1. Len(t) \in DOMAIN t /\ t[Len(t)] = e
      BY <1>1, <1>2
    <3> QED
      BY <3>1 DEF Range
  <2> QED
    BY <2>1, <2>2, <1>2 DEF Range
<1>5. Last(t) = e /\ t # <<>>
  BY <1>1, <1>2 DEF Last
<1> QED
  BY <1>1, <1>3, <1>4, <1>5 DEF t

\* The last element is one of the elements.
LEMMA LastIs ==
    ASSUME NEW S, NEW s \in Seq(S), s # <<>>
    PROVE  Last(s) \in Range(s) /\ Range(s) \subseteq S
<1>1. DOMAIN s = 1 .. Len(s) /\ Len(s) \in 1 .. Len(s) /\ \A k \in 1 .. Len(s) : s[k] \in S
  OBVIOUS
<1> QED
  BY <1>1 DEF Last, Range

\* The elements of a sequence after the first one.
LEMMA TailIs ==
    ASSUME NEW S, NEW s \in Seq(S), s # <<>>
    PROVE  /\ Tail(s) \in Seq(S) /\ Len(Tail(s)) = Len(s) - 1 /\ Len(s) \in Nat /\ Len(s) > 0
           /\ \A k \in 1 .. Len(s) - 1 : Tail(s)[k] = s[k + 1]
           /\ Head(s) = s[1] /\ s[1] \in S
OBVIOUS

\* The elements of a sequence with one more.
LEMMA AppendElements ==
    ASSUME NEW S, NEW s \in Seq(S), NEW e \in S
    PROVE  /\ Append(s, e) \in Seq(S) /\ Len(Append(s, e)) = Len(s) + 1 /\ Len(s) \in Nat
           /\ \A k \in 1 .. Len(s) : Append(s, e)[k] = s[k]
           /\ Append(s, e)[Len(s) + 1] = e /\ Append(s, e) # <<>>
OBVIOUS

\* Replacing the first element.
LEMMA ReplaceHead ==
    ASSUME NEW S, NEW s \in Seq(S), s # <<>>, NEW e \in S
    PROVE  /\ <<e>> \o Tail(s) \in Seq(S) /\ Len(<<e>> \o Tail(s)) = Len(s)
           /\ (<<e>> \o Tail(s))[1] = e /\ Len(s) \in Nat /\ Len(s) > 0
           /\ \A k \in 2 .. Len(s) : (<<e>> \o Tail(s))[k] = s[k]
<1>1. Tail(s) \in Seq(S) /\ Len(Tail(s)) = Len(s) - 1
  OBVIOUS
<1> QED
  BY <1>1

\* Two jobs at the end of the queue are added one after the other.
LEMMA AppendTwo ==
    ASSUME NEW S, NEW s \in Seq(S), NEW a \in S, NEW b \in S
    PROVE  s \o <<a, b>> = Append(Append(s, a), b)
OBVIOUS

----------------------------------------------------------------------------
(* The queue of the apply worker.                                          *)

\* A plan leads forward, and an apply job in it moves on.
LEMMA PlanOrder ==
    ASSUME NEW js \in Seq(Job), NEW a \in 0 .. MaxIndex, NEW r \in 0 .. MaxIndex,
           hasPlan(js, a, r)
    PROVE  /\ a <= r
           /\ \A k \in 1 .. Len(js) : js[k].kind = "apply" =>
                 a < js[k].from /\ js[k].from <= js[k].to /\ js[k].to <= r
           /\ js # <<>> /\ js[1].kind = "apply" => js[1].from = a + 1
<1>1. PICK f \in [0 .. Len(js) -> 0 .. MaxIndex] : isPlan(f, js, a, r)
  BY DEF hasPlan
<1>2. Len(js) \in Nat /\ (js # <<>> => Len(js) > 0)
  OBVIOUS
<1>3. a <= r
  BY <1>1, <1>2 DEF isPlan
<1>4. ASSUME NEW k \in 1 .. Len(js), js[k].kind = "apply"
      PROVE  a < js[k].from /\ js[k].from <= js[k].to /\ js[k].to <= r
  <2>1. js[k].from = f[k - 1] + 1 /\ js[k].to = f[k] /\ js[k].from <= js[k].to
    BY <1>1, <1>4 DEF isPlan
  <2>2. 0 \in 0 .. Len(js) /\ Len(js) \in 0 .. Len(js) /\ k - 1 \in 0 .. Len(js)
        /\ k \in 0 .. Len(js)
    BY <1>2
  <2>3. f[0] <= f[k - 1] /\ f[k] <= f[Len(js)] /\ f[0] = a /\ f[Len(js)] = r
    BY <1>1, <1>2, <2>2 DEF isPlan
  <2>4. f[k - 1] \in 0 .. MaxIndex /\ f[k] \in 0 .. MaxIndex
    BY <2>2
  <2> QED
    BY <2>1, <2>3, <2>4, BoundsAssumption
<1>5. ASSUME js # <<>>, js[1].kind = "apply" PROVE js[1].from = a + 1
  <2>1. 1 \in 1 .. Len(js) /\ 1 - 1 = 0
    BY <1>2, <1>5
  <2> QED
    BY <1>1, <1>5, <2>1 DEF isPlan
<1> QED
  BY <1>3, <1>4, <1>5

\* Without apply jobs a plan stays where it is.
LEMMA PlanIdle ==
    ASSUME NEW js \in Seq(Job), NEW a \in 0 .. MaxIndex, none(js, "apply")
    PROVE  hasPlan(js, a, a)
<1> DEFINE f == [k \in 0 .. Len(js) |-> a]
<1>1. f \in [0 .. Len(js) -> 0 .. MaxIndex]
  OBVIOUS
<1>2. Len(js) \in Nat
  OBVIOUS
<1>3. isPlan(f, js, a, a)
  BY <1>2, BoundsAssumption DEF isPlan, none
<1> QED
  BY <1>1, <1>3 DEF hasPlan

\* A job is queued.
LEMMA PlanAppend ==
    ASSUME NEW js \in Seq(Job), NEW a \in 0 .. MaxIndex, NEW r \in 0 .. MaxIndex,
           NEW q \in 0 .. MaxIndex, hasPlan(js, a, r), NEW j \in Job,
           IF j.kind = "apply" THEN j.from = r + 1 /\ j.to = q /\ j.from <= j.to ELSE q = r
    PROVE  hasPlan(Append(js, j), a, q)
<1>1. PICK f \in [0 .. Len(js) -> 0 .. MaxIndex] : isPlan(f, js, a, r)
  BY DEF hasPlan
<1> DEFINE t == Append(js, j)
           g == [k \in 0 .. Len(js) + 1 |-> IF k <= Len(js) THEN f[k] ELSE q]
<1>2. /\ t \in Seq(Job) /\ Len(t) = Len(js) + 1 /\ Len(js) \in Nat
      /\ \A k \in 1 .. Len(js) : t[k] = js[k]
      /\ t[Len(js) + 1] = j
  BY AppendElements
<1>3. g \in [0 .. Len(t) -> 0 .. MaxIndex]
  BY <1>2
<1> HIDE DEF t
<1>4. f[Len(js)] = r /\ r <= q
  BY <1>1, BoundsAssumption DEF isPlan, Job
<1>5. g[0] = a /\ g[Len(t)] = q
  BY <1>1, <1>2 DEF isPlan
<1>6. ASSUME NEW k \in 0 .. Len(t), NEW l \in 0 .. Len(t), k <= l PROVE g[k] <= g[l]
  <2>1. CASE l <= Len(js)
    <3>1. k \in 0 .. Len(js) /\ l \in 0 .. Len(js)
      BY <1>2, <1>6, <2>1
    <3> QED
      BY <1>1, <1>2, <1>6, <3>1 DEF isPlan
  <2>2. CASE ~(l <= Len(js))
    <3>1. g[l] = q
      BY <1>2, <2>2
    <3>2. CASE k <= Len(js)
      <4>1. k \in 0 .. Len(js) /\ Len(js) \in 0 .. Len(js)
        BY <1>2, <3>2
      <4>2. f[k] <= r /\ f[k] \in 0 .. MaxIndex
        BY <1>1, <1>4, <4>1, <3>2 DEF isPlan
      <4> QED
        BY <1>2, <1>4, <3>1, <3>2, <4>2, BoundsAssumption
    <3>3. CASE ~(k <= Len(js))
      BY <1>2, <3>1, <3>3, BoundsAssumption
    <3> QED
      BY <3>2, <3>3
  <2> QED
    BY <2>1, <2>2
<1>7. ASSUME NEW k \in 1 .. Len(t)
      PROVE  IF t[k].kind = "apply"
             THEN t[k].from = g[k - 1] + 1 /\ t[k].to = g[k] /\ t[k].from <= t[k].to
             ELSE g[k] = g[k - 1]
  <2>1. CASE k \in 1 .. Len(js)
    <3>1. g[k] = f[k] /\ g[k - 1] = f[k - 1] /\ t[k] = js[k]
      BY <1>2, <2>1
    <3> QED
      BY <1>1, <3>1, <2>1 DEF isPlan
  <2>2. CASE k = Len(js) + 1
    <3>1. g[k] = q /\ g[k - 1] = r /\ t[k] = j
      BY <1>2, <1>4, <2>2
    <3> QED
      BY <3>1
  <2> QED
    BY <1>2, <2>1, <2>2
<1> HIDE DEF g
<1>8. isPlan(g, t, a, q)
  BY <1>5, <1>6, <1>7 DEF isPlan
<1> QED
  BY <1>3, <1>8 DEF hasPlan, t

\* The first job is done.
LEMMA PlanTail ==
    ASSUME NEW js \in Seq(Job), js # <<>>, NEW a \in 0 .. MaxIndex, NEW r \in 0 .. MaxIndex,
           hasPlan(js, a, r)
    PROVE  hasPlan(Tail(js), IF js[1].kind = "apply" THEN js[1].to ELSE a, r)
<1>1. PICK f \in [0 .. Len(js) -> 0 .. MaxIndex] : isPlan(f, js, a, r)
  BY DEF hasPlan
<1> DEFINE t == Tail(js)
           g == [k \in 0 .. Len(js) - 1 |-> f[k + 1]]
           b == IF js[1].kind = "apply" THEN js[1].to ELSE a
<1>2. /\ t \in Seq(Job) /\ Len(t) = Len(js) - 1 /\ Len(js) \in Nat /\ Len(js) > 0
      /\ \A k \in 1 .. Len(js) - 1 : t[k] = js[k + 1]
  BY TailIs
<1>3. g \in [0 .. Len(t) -> 0 .. MaxIndex]
  <2>1. \A k \in 0 .. Len(js) - 1 : k + 1 \in 0 .. Len(js)
    BY <1>2
  <2> QED
    BY <1>2, <2>1
<1> HIDE DEF t
<1>4. g[0] = b /\ g[Len(t)] = r
  <2>1. 1 \in 1 .. Len(js) /\ 1 - 1 = 0
    BY <1>2
  <2>2. f[1] = b
    BY <1>1, <2>1 DEF isPlan
  <2>3. g[0] = f[1] /\ g[Len(t)] = f[Len(js)]
    BY <1>2
  <2> QED
    BY <1>1, <2>2, <2>3 DEF isPlan
<1>5. ASSUME NEW k \in 0 .. Len(t), NEW l \in 0 .. Len(t), k <= l PROVE g[k] <= g[l]
  <2>1. k + 1 \in 0 .. Len(js) /\ l + 1 \in 0 .. Len(js) /\ k + 1 <= l + 1
    BY <1>2, <1>5
  <2>2. f[k + 1] <= f[l + 1]
    BY <1>1, <2>1 DEF isPlan
  <2> QED
    BY <1>2, <2>2
<1>6. ASSUME NEW k \in 1 .. Len(t)
      PROVE  IF t[k].kind = "apply"
             THEN t[k].from = g[k - 1] + 1 /\ t[k].to = g[k] /\ t[k].from <= t[k].to
             ELSE g[k] = g[k - 1]
  <2>1. k + 1 \in 1 .. Len(js) /\ (k + 1) - 1 = k /\ (k - 1) + 1 = k /\ t[k] = js[k + 1]
    BY <1>2
  <2>2. g[k] = f[k + 1] /\ g[k - 1] = f[k]
    BY <1>2, <2>1
  <2> HIDE DEF g
  <2> QED
    BY <1>1, <2>1, <2>2 DEF isPlan
<1> HIDE DEF g
<1>7. isPlan(g, t, b, r)
  BY <1>4, <1>5, <1>6 DEF isPlan
<1> QED
  BY <1>3, <1>7 DEF hasPlan, t

\* One entry of the first job is done.
LEMMA PlanAdvance ==
    ASSUME NEW js \in Seq(Job), js # <<>>, NEW a \in 0 .. MaxIndex, NEW r \in 0 .. MaxIndex,
           hasPlan(js, a, r), js[1].kind = "apply", js[1].from < js[1].to,
           NEW j \in Job, j = [js[1] EXCEPT !.from = @ + 1]
    PROVE  hasPlan(<<j>> \o Tail(js), a + 1, r)
<1>1. PICK f \in [0 .. Len(js) -> 0 .. MaxIndex] : isPlan(f, js, a, r)
  BY DEF hasPlan
<1> DEFINE t == <<j>> \o Tail(js)
           g == [k \in 0 .. Len(js) |-> IF k = 0 THEN a + 1 ELSE f[k]]
<1>2. /\ t \in Seq(Job) /\ Len(t) = Len(js) /\ t[1] = j /\ Len(js) \in Nat /\ Len(js) > 0
      /\ \A k \in 2 .. Len(js) : t[k] = js[k]
  BY ReplaceHead
<1>3. /\ js[1] \in Job /\ j.kind = "apply" /\ j.from = js[1].from + 1 /\ j.to = js[1].to
      /\ js[1].from \in Nat /\ js[1].to \in Nat
  <2>1. js[1] \in Job
    BY TailIs
  <2>2. js[1].from \in Nat /\ js[1].to \in Nat
    BY <2>1, BoundsAssumption DEF Job
  <2>3. j.kind = "apply" /\ j.from = js[1].from + 1 /\ j.to = js[1].to
    BY <2>1 DEF Job
  <2> QED
    BY <2>1, <2>2, <2>3
<1>4. js[1].from = a + 1 /\ js[1].to = f[1] /\ f[1] \in 0 .. MaxIndex
  <2>1. 1 \in 1 .. Len(js) /\ 1 - 1 = 0 /\ 1 \in 0 .. Len(js)
    BY <1>2
  <2> QED
    BY <1>1, <2>1 DEF isPlan
<1>5. a + 1 < f[1] /\ a + 1 \in 0 .. MaxIndex
  BY <1>3, <1>4, BoundsAssumption
<1>6. g \in [0 .. Len(t) -> 0 .. MaxIndex]
  BY <1>2, <1>5
<1> HIDE DEF t
<1>7. g[0] = a + 1 /\ g[Len(t)] = r
  BY <1>1, <1>2 DEF isPlan
<1>8. ASSUME NEW k \in 0 .. Len(t), NEW l \in 0 .. Len(t), k <= l PROVE g[k] <= g[l]
  <2>1. CASE k = 0 /\ l = 0
    BY <1>2, <2>1, BoundsAssumption
  <2>2. CASE k = 0 /\ l # 0
    <3>1. 1 \in 0 .. Len(js) /\ l \in 0 .. Len(js) /\ 1 <= l
      BY <1>2, <2>2
    <3>2. f[1] <= f[l] /\ f[l] \in 0 .. MaxIndex /\ g[l] = f[l] /\ g[0] = a + 1
      BY <1>1, <1>2, <2>2, <3>1 DEF isPlan
    <3> QED
      BY <1>4, <1>5, <2>2, <3>2, BoundsAssumption
  <2>3. CASE k # 0
    <3>1. l # 0 /\ k \in 0 .. Len(js) /\ l \in 0 .. Len(js)
      BY <1>2, <1>8, <2>3
    <3> QED
      BY <1>1, <1>2, <1>8, <2>3, <3>1 DEF isPlan
  <2> QED
    BY <2>1, <2>2, <2>3
<1>9. ASSUME NEW k \in 1 .. Len(t)
      PROVE  IF t[k].kind = "apply"
             THEN t[k].from = g[k - 1] + 1 /\ t[k].to = g[k] /\ t[k].from <= t[k].to
             ELSE g[k] = g[k - 1]
  <2>1. CASE k = 1
    <3>1. g[1] = f[1] /\ g[1 - 1] = a + 1 /\ t[1] = j
      BY <1>2
    <3>2. j.from = (a + 1) + 1 /\ j.to = f[1] /\ j.from <= j.to
      BY <1>3, <1>4, <1>5
    <3> QED
      BY <1>3, <2>1, <3>1, <3>2
  <2>2. CASE k # 1
    <3>1. k \in 2 .. Len(js) /\ k \in 1 .. Len(js)
      BY <1>2, <2>2
    <3>2. g[k] = f[k] /\ g[k - 1] = f[k - 1] /\ t[k] = js[k]
      BY <1>2, <3>1
    <3> HIDE DEF g
    <3> QED
      BY <1>1, <3>1, <3>2 DEF isPlan
  <2> QED
    BY <2>1, <2>2
<1> HIDE DEF g
<1>10. isPlan(g, t, a + 1, r)
  BY <1>7, <1>8, <1>9 DEF isPlan
<1> QED
  BY <1>6, <1>10 DEF hasPlan, t

\* What a job at the end changes of the shape of the queue.
LEMMA ShapeAppend ==
    ASSUME NEW js \in Seq(Job), NEW j \in Job
    PROVE  LET t == Append(js, j) IN
           /\ t \in Seq(Job) /\ t # <<>> /\ (js # <<>> => t[1] = js[1])
           /\ \A kind : none(t, kind) <=> none(js, kind) /\ j.kind # kind
           /\ (IF j.kind \in {"apply", "compact"} THEN appliesLast(js) ELSE none(js, "apply"))
                 => appliesLast(t)
           /\ \A m : (IF j.kind = "register" THEN j.from = m.applied /\ j.to = m.trunc
                      ELSE registers(js, m))
                 => registers(t, m)
           /\ \A m : (IF j.kind = "snapshot"
                      THEN none(js, "snapshot") /\ j.from = m.trunc /\ m.state = "applying"
                      ELSE snapshots(js, m))
                 => snapshots(t, m)
           /\ \A p : compacts(js, p) /\ (j.kind = "compact" => j.to <= p.trunc + 1)
                 => compacts(t, p)
<1> DEFINE t == Append(js, j)
<1>1. /\ t \in Seq(Job) /\ Len(t) = Len(js) + 1 /\ Len(js) \in Nat /\ t # <<>>
      /\ \A k \in 1 .. Len(js) : t[k] = js[k]
      /\ t[Len(js) + 1] = j
  BY AppendElements
<1> HIDE DEF t
<1>2. \A k \in 1 .. Len(t) : (k \in 1 .. Len(js) /\ t[k] = js[k]) \/ (k = Len(t) /\ t[k] = j)
  BY <1>1
<1>3. Len(t) \in 1 .. Len(t) /\ t[Len(t)] = j
      /\ \A k \in 1 .. Len(js) : k \in 1 .. Len(t) /\ t[k] = js[k] /\ k < Len(t)
  BY <1>1
<1>4. js # <<>> => t[1] = js[1]
  <2>1. js # <<>> => 1 \in 1 .. Len(js)
    OBVIOUS
  <2> QED
    BY <1>1, <2>1
<1>5. ASSUME NEW kind PROVE none(t, kind) <=> none(js, kind) /\ j.kind # kind
  BY <1>2, <1>3 DEF none
<1>6. ASSUME IF j.kind \in {"apply", "compact"} THEN appliesLast(js) ELSE none(js, "apply")
      PROVE  appliesLast(t)
  <2> SUFFICES ASSUME NEW k \in 1 .. Len(t), NEW l \in 1 .. Len(t), k < l, t[k].kind = "apply"
               PROVE  t[l].kind \in {"apply", "compact"}
    BY DEF appliesLast
  <2>1. k \in 1 .. Len(js) /\ t[k] = js[k]
    BY <1>1, <1>2
  <2> QED
    BY <1>2, <1>6, <2>1 DEF appliesLast, none
<1>7. ASSUME NEW m, IF j.kind = "register" THEN j.from = m.applied /\ j.to = m.trunc
                    ELSE registers(js, m)
      PROVE  registers(t, m)
  <2> SUFFICES ASSUME NEW k \in 1 .. Len(t), t[k].kind = "register",
                      \A l \in 1 .. Len(t) : k < l => t[l].kind # "register"
               PROVE  t[k].from = m.applied /\ t[k].to = m.trunc
    BY DEF registers
  <2>1. CASE k \in 1 .. Len(js) /\ t[k] = js[k]
    <3>1. j.kind # "register" /\ \A l \in 1 .. Len(js) : k < l => js[l].kind # "register"
      BY <1>3, <2>1
    <3> QED
      BY <1>7, <2>1, <3>1 DEF registers
  <2>2. CASE k = Len(t) /\ t[k] = j
    BY <1>7, <2>2
  <2> QED
    BY <1>2, <2>1, <2>2
<1>8. ASSUME NEW m, IF j.kind = "snapshot"
                    THEN none(js, "snapshot") /\ j.from = m.trunc /\ m.state = "applying"
                    ELSE snapshots(js, m)
      PROVE  snapshots(t, m)
  BY <1>2, <1>3, <1>8 DEF snapshots, none
<1>9. ASSUME NEW p, compacts(js, p), j.kind = "compact" => j.to <= p.trunc + 1
      PROVE  compacts(t, p)
  BY <1>2, <1>9 DEF compacts
<1> QED
  BY <1>1, <1>4, <1>5, <1>6, <1>7, <1>8, <1>9 DEF t

\* The queue keeps its shape when its first job is done.
LEMMA ShapeTail ==
    ASSUME NEW js \in Seq(Job), js # <<>>
    PROVE  LET t == Tail(js) IN
           /\ t \in Seq(Job)
           /\ \A kind : none(js, kind) <=> none(t, kind) /\ js[1].kind # kind
           /\ appliesLast(js) => appliesLast(t)
           /\ \A m : registers(js, m) => registers(t, m)
           /\ \A m : snapshots(js, m) => snapshots(t, m)
           /\ \A p : compacts(js, p) => compacts(t, p)
<1> DEFINE t == Tail(js)
<1>1. /\ t \in Seq(Job) /\ Len(t) = Len(js) - 1 /\ Len(js) \in Nat /\ Len(js) > 0
      /\ \A k \in 1 .. Len(js) - 1 : t[k] = js[k + 1]
  BY TailIs
<1> HIDE DEF t
<1>2. \A k \in 1 .. Len(t) : k + 1 \in 1 .. Len(js) /\ t[k] = js[k + 1]
  BY <1>1
<1>3. \A k \in 1 .. Len(js) : k = 1 \/ (k - 1 \in 1 .. Len(t) /\ t[k - 1] = js[k])
  BY <1>1
<1>4. 1 \in 1 .. Len(js)
  BY <1>1
<1>5. ASSUME NEW kind PROVE none(js, kind) <=> none(t, kind) /\ js[1].kind # kind
  BY <1>2, <1>3, <1>4 DEF none
<1>6. ASSUME appliesLast(js) PROVE appliesLast(t)
  <2> SUFFICES ASSUME NEW k \in 1 .. Len(t), NEW l \in 1 .. Len(t), k < l, t[k].kind = "apply"
               PROVE  t[l].kind \in {"apply", "compact"}
    BY DEF appliesLast
  <2>1. k + 1 < l + 1
    BY <1>1
  <2> QED
    BY <1>2, <1>6, <2>1 DEF appliesLast
<1>7. ASSUME NEW m, registers(js, m) PROVE registers(t, m)
  <2> SUFFICES ASSUME NEW k \in 1 .. Len(t), t[k].kind = "register",
                      \A l \in 1 .. Len(t) : k < l => t[l].kind # "register"
               PROVE  t[k].from = m.applied /\ t[k].to = m.trunc
    BY DEF registers
  <2>1. ASSUME NEW l \in 1 .. Len(js), k + 1 < l PROVE js[l].kind # "register"
    <3>1. l # 1 /\ k < l - 1
      BY <1>1, <2>1
    <3> QED
      BY <1>3, <3>1
  <2> QED
    BY <1>2, <1>7, <2>1 DEF registers
<1>8. ASSUME NEW m, snapshots(js, m) PROVE snapshots(t, m)
  <2> SUFFICES ASSUME NEW k \in 1 .. Len(t), t[k].kind = "snapshot"
               PROVE  /\ t[k].from = m.trunc /\ m.state = "applying"
                      /\ \A l \in 1 .. Len(t) : t[l].kind = "snapshot" => k = l
    BY DEF snapshots
  <2>1. js[k + 1].kind = "snapshot" /\ k + 1 \in 1 .. Len(js) /\ t[k] = js[k + 1]
    BY <1>2
  <2>2. ASSUME NEW l \in 1 .. Len(t), t[l].kind = "snapshot" PROVE k = l
    <3>1. js[l + 1].kind = "snapshot" /\ l + 1 \in 1 .. Len(js)
      BY <1>2, <2>2
    <3>2. k + 1 = l + 1
      BY <1>8, <2>1, <3>1 DEF snapshots
    <3> QED
      BY <1>1, <3>2
  <2> QED
    BY <1>8, <2>1, <2>2 DEF snapshots
<1>9. ASSUME NEW p, compacts(js, p) PROVE compacts(t, p)
  BY <1>2, <1>9 DEF compacts
<1> QED
  BY <1>1, <1>5, <1>6, <1>7, <1>8, <1>9 DEF t

\* The queue keeps its shape when the first job is replaced by one of its kind.
LEMMA ShapeAdvance ==
    ASSUME NEW js \in Seq(Job), js # <<>>, NEW j \in Job, js[1].kind = "apply", j.kind = "apply"
    PROVE  LET t == <<j>> \o Tail(js) IN
           /\ t \in Seq(Job) /\ t # <<>>
           /\ \A kind : none(js, kind) <=> none(t, kind)
           /\ appliesLast(js) => appliesLast(t)
           /\ \A m : registers(js, m) => registers(t, m)
           /\ \A m : snapshots(js, m) => snapshots(t, m)
           /\ \A p : compacts(js, p) => compacts(t, p)
<1> DEFINE t == <<j>> \o Tail(js)
<1>1. /\ t \in Seq(Job) /\ Len(t) = Len(js) /\ t[1] = j /\ Len(js) \in Nat /\ Len(js) > 0
      /\ \A k \in 2 .. Len(js) : t[k] = js[k]
  BY ReplaceHead
<1> HIDE DEF t
<1>2. t # <<>>
  BY <1>1
<1>3. \A k \in 1 .. Len(js) : (k = 1 /\ t[k].kind = "apply" /\ js[k].kind = "apply") \/ t[k] = js[k]
  BY <1>1
<1>4. \A k \in 1 .. Len(js) : t[k].kind = js[k].kind
  BY <1>3
<1>5. \A kind : none(js, kind) <=> none(t, kind)
  BY <1>1, <1>4 DEF none
<1>6. appliesLast(js) => appliesLast(t)
  BY <1>1, <1>4 DEF appliesLast
<1>7. ASSUME NEW m, registers(js, m) PROVE registers(t, m)
  <2> SUFFICES ASSUME NEW k \in 1 .. Len(js), t[k].kind = "register",
                      \A l \in 1 .. Len(js) : k < l => t[l].kind # "register"
               PROVE  t[k].from = m.applied /\ t[k].to = m.trunc
    BY <1>1 DEF registers
  <2> QED
    BY <1>3, <1>4, <1>7 DEF registers
<1>8. \A m : snapshots(js, m) => snapshots(t, m)
  BY <1>1, <1>3 DEF snapshots
<1>9. \A p : compacts(js, p) => compacts(t, p)
  BY <1>1, <1>3 DEF compacts
<1> QED
  BY <1>1, <1>2, <1>5, <1>6, <1>7, <1>8, <1>9 DEF t

----------------------------------------------------------------------------
(* What the invariant says of the current state.                           *)

\* A log is a function from some of the indexes.
LEMMA LogIs ==
    /\ \A S \in SUBSET Indexes : \A f \in [S -> {"agreed", "lost"}] : f \in Log
    /\ \A f \in Log : /\ DOMAIN f \subseteq Indexes /\ f \in [DOMAIN f -> {"agreed", "lost"}]
                      /\ Range(f) \subseteq {"agreed", "lost"}
BY DEF Log, Range

\* The current versions are among the versions.
LEMMA Current ==
    ASSUME Types
    PROVE  /\ Meta \in Versions /\ Versions \subseteq MetaState /\ Meta \in MetaState
           /\ Data \in Range(datas) /\ Range(datas) \subseteq SUBSET Indexes
           /\ Data \subseteq Indexes
BY LastIs DEF Types, Meta, Data, Versions

\* The indexes of a version are numbers.
LEMMA MetaFields ==
    ASSUME NEW m \in MetaState
    PROVE  /\ m.last \in Nat /\ m.commit \in Nat /\ m.applied \in Nat /\ m.trunc \in Nat
           /\ m.last <= MaxIndex /\ m.commit <= MaxIndex
           /\ m.applied <= MaxIndex /\ m.trunc <= MaxIndex
           /\ m.log \in Log /\ DOMAIN m.log \subseteq Indexes
           /\ m.state \in {"normal", "applying"}
BY LogIs, BoundsAssumption DEF MetaState

\* The first job, when the apply worker runs it.
LEMMA HeadIs ==
    ASSUME StorageInv, NEW kind, runs(kind)
    PROVE  /\ jobs \in Seq(Job) /\ jobs # <<>> /\ Head(jobs) = jobs[1] /\ jobs[1] \in Job
           /\ 1 \in 1 .. Len(jobs) /\ jobs[1].kind = kind
           /\ jobs[1].from \in 0 .. MaxIndex /\ jobs[1].to \in 0 .. MaxIndex
           /\ alive /\ goodQueue(jobs, delegate, lastReady, Meta)
<1>1. jobs \in Seq(Job) /\ jobs # <<>> /\ alive
  BY DEF StorageInv, Types, runs, running
<1>2. Head(jobs) = jobs[1] /\ jobs[1] \in Job /\ 1 \in 1 .. Len(jobs)
  BY <1>1
<1>3. jobs[1].kind = kind
  BY <1>2 DEF runs
<1>4. goodQueue(jobs, delegate, lastReady, Meta)
  BY <1>1 DEF StorageInv, QueueInv
<1> QED
  BY <1>1, <1>2, <1>3, <1>4 DEF Job

\* An entry that is applied comes right after the applied index, and the
\* delegate has the state on disk.
LEMMA ApplyFacts ==
    ASSUME StorageInv, runs("apply")
    PROVE  /\ jobs[1].from = Meta.applied + 1 /\ jobs[1].from <= jobs[1].to
           /\ jobs[1].to <= lastReady /\ lastReady <= Meta.commit
           /\ delegate = [applied |-> Meta.applied, trunc |-> Meta.trunc]
           /\ none(jobs, "register") /\ none(jobs, "snapshot")
<1>1. /\ jobs \in Seq(Job) /\ jobs # <<>> /\ jobs[1] \in Job /\ 1 \in 1 .. Len(jobs)
      /\ jobs[1].kind = "apply" /\ goodQueue(jobs, delegate, lastReady, Meta)
  BY HeadIs
<1>2. Meta \in MetaState /\ lastReady \in 0 .. MaxIndex
  BY Current DEF StorageInv, Types
<1>3. Meta.applied \in 0 .. MaxIndex
  BY <1>2 DEF MetaState
<1>4. /\ hasPlan(jobs, Meta.applied, lastReady) /\ lastReady <= Meta.commit /\ appliesLast(jobs)
      /\ none(jobs, "register") => delegate = [applied |-> Meta.applied, trunc |-> Meta.trunc]
  BY <1>1 DEF goodQueue
<1>5. /\ jobs[1].from = Meta.applied + 1 /\ jobs[1].from <= jobs[1].to
      /\ jobs[1].to <= lastReady
  BY <1>1, <1>2, <1>3, <1>4, PlanOrder
<1>6. \A k \in 1 .. Len(jobs) : jobs[k].kind \in {"apply", "compact"}
  <2> TAKE k \in 1 .. Len(jobs)
  <2>1. k = 1 \/ 1 < k
    BY <1>1
  <2> QED
    BY <1>1, <1>4, <2>1 DEF appliesLast
<1>7. none(jobs, "register") /\ none(jobs, "snapshot")
  BY <1>6 DEF none
<1> QED
  BY <1>4, <1>5, <1>7

\* A snapshot that is applied is the one that the state on disk waits for.
LEMMA SnapshotFacts ==
    ASSUME StorageInv, runs("snapshot")
    PROVE  /\ jobs[1].from = Meta.trunc /\ Meta.state = "applying"
           /\ none(Tail(jobs), "snapshot")
<1>1. /\ jobs \in Seq(Job) /\ jobs # <<>> /\ 1 \in 1 .. Len(jobs)
      /\ jobs[1].kind = "snapshot" /\ snapshots(jobs, Meta)
  BY HeadIs DEF goodQueue
<1>2. jobs[1].from = Meta.trunc /\ Meta.state = "applying"
      /\ \A l \in 1 .. Len(jobs) : jobs[l].kind = "snapshot" => 1 = l
  BY <1>1 DEF snapshots
<1>3. /\ Len(Tail(jobs)) = Len(jobs) - 1 /\ Len(jobs) \in Nat
      /\ \A k \in 1 .. Len(jobs) - 1 : Tail(jobs)[k] = jobs[k + 1]
  BY <1>1, TailIs
<1>4. ASSUME NEW k \in 1 .. Len(Tail(jobs)) PROVE Tail(jobs)[k].kind # "snapshot"
  <2>1. Tail(jobs)[k] = jobs[k + 1] /\ k + 1 \in 1 .. Len(jobs) /\ k + 1 # 1
    BY <1>3
  <2> QED
    BY <1>2, <2>1
<1> QED
  BY <1>2, <1>4 DEF none

\* When a snapshot may be taken over, nothing is left to apply or to report.
LEMMA CompleteFacts ==
    ASSUME StorageInv, running, ~isApplyingSnapshot, isApplyComplete
    PROVE  /\ none(jobs, "apply") /\ none(jobs, "snapshot") /\ results = <<>>
           /\ lastReady = Meta.applied /\ step = "start" /\ alive
<1>1. alive /\ jobs \in Seq(Job) /\ results \in Seq(Result) /\ lastReady \in 0 .. MaxIndex
      /\ ps \in ApplyState
  BY DEF running, StorageInv, Types
<1>2. Meta \in MetaState /\ goodVersion(Meta, stable, Meta)
  BY Current DEF StorageInv, VersionsInv
<1>3. /\ Meta.applied \in 0 .. MaxIndex /\ Meta.commit \in 0 .. MaxIndex
      /\ Meta.applied <= Meta.commit /\ Meta.commit = ps.applied
      /\ ps.applied \in 0 .. MaxIndex
  BY <1>1, <1>2 DEF goodVersion, MetaState, isApplyComplete, ApplyState
<1>4. hasPlan(jobs, Meta.applied, lastReady) /\ lastReady <= Meta.commit
  BY <1>1 DEF StorageInv, QueueInv, goodQueue
<1>5. ps.applied + Len(results) = Meta.applied /\ Len(results) \in Nat
  BY <1>1 DEF StorageInv, ViewInv, goodResults
<1>6. Len(results) = 0 /\ Meta.commit = Meta.applied
  BY <1>3, <1>5, BoundsAssumption
<1>7. /\ Meta.applied <= lastReady
      /\ \A k \in 1 .. Len(jobs) : jobs[k].kind = "apply" =>
            Meta.applied < jobs[k].from /\ jobs[k].from <= jobs[k].to /\ jobs[k].to <= lastReady
  BY <1>1, <1>3, <1>4, PlanOrder
<1>8. lastReady = Meta.applied
  BY <1>1, <1>3, <1>4, <1>6, <1>7, BoundsAssumption
<1>9. none(jobs, "apply")
  <2> SUFFICES ASSUME NEW k \in 1 .. Len(jobs), jobs[k].kind = "apply" PROVE FALSE
    BY DEF none
  <2>1. jobs[k] \in Job
    BY <1>1
  <2>2. jobs[k].from \in Nat /\ jobs[k].to \in Nat
    BY <2>1, BoundsAssumption DEF Job
  <2> QED
    BY <1>3, <1>7, <1>8, <2>2, BoundsAssumption
<1>10. none(jobs, "snapshot")
  BY <1>1 DEF none, isApplyingSnapshot, Range
<1>11. step = "start"
  <2>1. jobs # <<>> => 1 \in 1 .. Len(jobs)
    BY <1>1
  <2> QED
    BY <1>9, <1>10, <2>1 DEF none, StorageInv, StepInv, goodStep, Types
<1> QED
  BY <1>1, <1>6, <1>8, <1>9, <1>10, <1>11

----------------------------------------------------------------------------
(* Types.                                                                  *)

\* The variables have their types at the start.
LEMMA InitTypes == Init => Types
<1> SUFFICES ASSUME Init PROVE Types
  OBVIOUS
<1> DEFINE m == [state |-> "normal", last |-> 0, commit |-> 0, applied |-> 0,
                 trunc |-> 0, log |-> emptyLog]
           j == [kind |-> "register", from |-> 0, to |-> 0]
<1>1. 0 \in 0 .. MaxIndex /\ 0 \in 0 .. MaxCrashes
  BY BoundsAssumption
<1>2. emptyLog \in Log
  <2>1. {} \in SUBSET Indexes /\ emptyLog \in [{} -> {"agreed", "lost"}]
    BY DEF emptyLog
  <2> QED
    BY <2>1, LogIs
<1>3. m \in MetaState /\ j \in Job /\ [applied |-> 0, trunc |-> 0] \in ApplyState
  BY <1>1, <1>2 DEF MetaState, Job, ApplyState
<1>4. <<m>> \in Seq(MetaState) /\ <<m>> # <<>>
  BY <1>3, OneIs
<1>5. <<j>> \in Seq(Job)
  BY <1>3, OneIs
<1>6. <<{}>> \in Seq(SUBSET Indexes) /\ <<{}>> # <<>>
  BY OneIs
<1>7. <<>> \in Seq(Result)
  OBVIOUS
<1>8. agreed \in AgreedLogs
  BY LogsAssumption DEF Init
<1> QED
  BY <1>1, <1>2, <1>3, <1>4, <1>5, <1>6, <1>7, <1>8 DEF Init, Types

\* Entries from .. last at the end of a log.
LEMMA AppendsToLog ==
    ASSUME NEW log \in Log, NEW from \in 1 .. MaxIndex + 1, NEW last \in 0 .. MaxIndex, NEW n
    PROVE  LET new == doAppendEntries(log, from, last, n) IN
           /\ new \in Log
           /\ \A i : i \in DOMAIN new <=> (i \in DOMAIN log /\ i < from) \/ i \in from .. last
           /\ \A i \in DOMAIN new : i < from => new[i] = log[i]
<1> DEFINE D == {x \in DOMAIN log : x < from} \cup from .. last
<1>1. D \in SUBSET Indexes
  BY LogIs, BoundsAssumption DEF Indexes
<1>2. \A i \in DOMAIN log : log[i] \in {"agreed", "lost"}
  BY LogIs
<1>3. doAppendEntries(log, from, last, n) =
        [i \in D |-> IF i < from THEN log[i] ELSE IF i <= n THEN "agreed" ELSE "lost"]
  BY DEF doAppendEntries
<1>4. \A i \in D : i < from => i \in DOMAIN log
  BY <1>1, BoundsAssumption DEF Indexes
<1>5. doAppendEntries(log, from, last, n) \in [D -> {"agreed", "lost"}]
  BY <1>2, <1>3, <1>4
<1> HIDE DEF D
<1>6. doAppendEntries(log, from, last, n) \in Log
  BY <1>1, <1>5, LogIs
<1>7. \A i \in D : i < from => doAppendEntries(log, from, last, n)[i] = log[i]
  BY <1>3
<1> QED
  BY <1>5, <1>6, <1>7 DEF D

\* What raft hands out: entries after the commit index, which follow the log.
ReadyIs(from, last, n, commit) ==
    /\ from \in 1 .. MaxIndex + 1 /\ last \in 0 .. MaxIndex /\ commit \in 0 .. MaxIndex
    /\ Meta.commit <= commit /\ commit <= last
    /\ Meta.commit < from /\ from <= Meta.last + 1 /\ from <= last + 1

\* The state that saveReady writes.
readyMeta(from, last, n, commit) ==
    [Meta EXCEPT !.log = doAppendEntries(@, from, last, n), !.last = last, !.commit = commit]

\* What a Ready without a snapshot saves.
LEMMA ReadyFacts ==
    ASSUME StorageInv, NEW from \in 1 .. MaxIndex + 1, NEW last \in 0 .. MaxIndex,
           NEW n \in from - 1 .. last, NEW commit \in Meta.commit .. last,
           HandleReady(from, last, n, commit)
    PROVE  /\ ReadyIs(from, last, n, commit) /\ alive
           /\ readyMeta(from, last, n, commit) \in MetaState
           /\ \/ metas' = <<readyMeta(from, last, n, commit)>>
              \/ /\ metas' = metas /\ commit = Meta.commit
                 /\ from = Meta.last + 1 /\ last = Meta.last
           /\ stable' = doAppendEntries(Meta.log, from, last, n) /\ stable' \in Log
<1>1. Meta \in MetaState
  BY Current DEF StorageInv
<1>2. /\ Meta.commit \in 0 .. MaxIndex /\ Meta.last \in 0 .. MaxIndex /\ Meta.log \in Log
  BY <1>1 DEF MetaState
<1>3. readyOfRaft(from, last, n, commit) /\ saveReady(from, last, n, commit) /\ alive
      /\ stable' = doAppendEntries(Meta.log, from, last, n)
  BY DEF HandleReady, running
<1>4. /\ Meta.commit < from /\ from <= Meta.last + 1
      /\ last >= from \/ (from = Meta.last + 1 /\ last = Meta.last)
  BY <1>2, <1>3, BoundsAssumption DEF readyOfRaft
<1>5. ReadyIs(from, last, n, commit)
  BY <1>2, <1>4, BoundsAssumption DEF ReadyIs
<1>6. stable' \in Log
  BY <1>2, <1>3, AppendsToLog
<1>7. readyMeta(from, last, n, commit) \in MetaState
  BY <1>1, <1>3, <1>5, <1>6 DEF readyMeta, ReadyIs, MetaState
<1>8. \/ metas' = <<readyMeta(from, last, n, commit)>>
      \/ /\ metas' = metas /\ commit = Meta.commit
         /\ from = Meta.last + 1 /\ last = Meta.last
  <2>1. CASE last >= from \/ commit # Meta.commit
    BY <1>3, <2>1 DEF saveReady, writeSync, readyMeta
  <2>2. CASE ~(last >= from \/ commit # Meta.commit)
    BY <1>3, <1>4, <2>2 DEF saveReady
  <2> QED
    BY <2>1, <2>2
<1> QED
  BY <1>3, <1>5, <1>6, <1>7, <1>8

\* The queue after one entry.
LEMMA NextEntryFacts ==
    ASSUME StorageInv, runs("apply"), nextEntry
    PROVE  /\ jobs' \in Seq(Job) /\ hasPlan(jobs', Meta.applied + 1, lastReady)
           /\ appliesLast(jobs') /\ none(jobs', "register") /\ none(jobs', "snapshot")
           /\ \A m : registers(jobs', m) /\ snapshots(jobs', m)
           /\ \A p : compacts(jobs, p) => compacts(jobs', p)
<1>1. /\ jobs \in Seq(Job) /\ jobs # <<>> /\ Head(jobs) = jobs[1] /\ jobs[1] \in Job
      /\ jobs[1].kind = "apply" /\ goodQueue(jobs, delegate, lastReady, Meta)
  BY HeadIs
<1>2. /\ jobs[1].from = Meta.applied + 1 /\ jobs[1].from <= jobs[1].to
      /\ none(jobs, "register") /\ none(jobs, "snapshot")
  BY ApplyFacts
<1>3. Meta \in MetaState /\ lastReady \in 0 .. MaxIndex
  BY Current DEF StorageInv, Types
<1>4. /\ Meta.applied \in 0 .. MaxIndex
      /\ jobs[1].from \in 0 .. MaxIndex /\ jobs[1].to \in 0 .. MaxIndex
  BY <1>1, <1>3 DEF MetaState, Job
<1>5. hasPlan(jobs, Meta.applied, lastReady) /\ appliesLast(jobs)
  BY <1>1 DEF goodQueue
<1>6. CASE jobs[1].from = jobs[1].to
  <2>1. jobs' = Tail(jobs)
    BY <1>1, <1>6 DEF nextEntry
  <2>2. hasPlan(jobs', Meta.applied + 1, lastReady)
    BY <1>1, <1>2, <1>3, <1>4, <1>5, <1>6, <2>1, PlanTail
  <2>3. /\ jobs' \in Seq(Job) /\ appliesLast(jobs')
        /\ none(jobs', "register") /\ none(jobs', "snapshot")
        /\ \A p : compacts(jobs, p) => compacts(jobs', p)
    BY <1>1, <1>2, <1>5, <2>1, ShapeTail
  <2>4. \A m : registers(jobs', m) /\ snapshots(jobs', m)
    BY <2>3 DEF registers, snapshots, none
  <2> QED
    BY <2>2, <2>3, <2>4
<1>7. CASE jobs[1].from # jobs[1].to
  <2> DEFINE j == [jobs[1] EXCEPT !.from = @ + 1]
  <2>1. jobs' = <<j>> \o Tail(jobs)
    BY <1>1, <1>7 DEF nextEntry
  <2>2. jobs[1].from < jobs[1].to /\ jobs[1].from + 1 \in 0 .. MaxIndex
    BY <1>2, <1>4, <1>7, BoundsAssumption
  <2>3. j \in Job /\ j.kind = "apply"
    BY <1>1, <2>2 DEF Job
  <2>4. j = [jobs[1] EXCEPT !.from = @ + 1]
    OBVIOUS
  <2> HIDE DEF j
  <2>5. hasPlan(jobs', Meta.applied + 1, lastReady)
    BY <1>1, <1>3, <1>4, <1>5, <2>1, <2>2, <2>3, <2>4, PlanAdvance
  <2>6. /\ jobs' \in Seq(Job) /\ appliesLast(jobs')
        /\ none(jobs', "register") /\ none(jobs', "snapshot")
        /\ \A p : compacts(jobs, p) => compacts(jobs', p)
    BY <1>1, <1>2, <1>5, <2>1, <2>3, ShapeAdvance
  <2>7. \A m : registers(jobs', m) /\ snapshots(jobs', m)
    BY <2>6 DEF registers, snapshots, none
  <2> QED
    BY <2>5, <2>6, <2>7
<1> QED
  BY <1>6, <1>7

\* The indexes of the entry that is applied.
LEMMA EntryFacts ==
    ASSUME StorageInv, runs("apply")
    PROVE  /\ Meta \in MetaState /\ Meta.applied \in 0 .. MaxIndex /\ Meta.trunc \in 0 .. MaxIndex
           /\ Meta.applied + 1 \in Indexes /\ Meta.applied + 1 <= Meta.commit
           /\ Meta.trunc <= Meta.applied /\ Meta.commit \in 0 .. MaxIndex
           /\ Meta.applied + 1 <= lastReady
           /\ Head(jobs) = jobs[1] /\ jobs[1].from = Meta.applied + 1
           /\ agreed[Meta.applied + 1] \in Entry /\ agreed[Meta.applied + 1].to \in Nat
           /\ agreed[Meta.applied + 1].to < Meta.applied + 1
<1>1. /\ Head(jobs) = jobs[1] /\ jobs[1].from = Meta.applied + 1 /\ jobs[1].from <= jobs[1].to
      /\ jobs[1].to <= lastReady /\ lastReady <= Meta.commit
  BY HeadIs, ApplyFacts
<1>2. Meta \in MetaState /\ goodVersion(Meta, stable, Meta) /\ lastReady \in 0 .. MaxIndex
      /\ jobs[1].to \in 0 .. MaxIndex /\ agreed \in AgreedLogs
  BY Current, HeadIs DEF StorageInv, VersionsInv, Types
<1>3. /\ Meta.applied \in 0 .. MaxIndex /\ Meta.trunc \in 0 .. MaxIndex
      /\ Meta.commit \in 0 .. MaxIndex
  BY <1>2 DEF MetaState
<1>4. Meta.trunc <= Meta.applied
  BY <1>2 DEF goodVersion
<1>5. Meta.applied + 1 \in Indexes /\ Meta.applied + 1 <= Meta.commit
      /\ Meta.applied + 1 <= lastReady
  BY <1>1, <1>2, <1>3, BoundsAssumption DEF Indexes
<1>6. agreed[Meta.applied + 1] \in Entry /\ agreed[Meta.applied + 1].to < Meta.applied + 1
  BY <1>2, <1>5 DEF AgreedLogs
<1>7. agreed[Meta.applied + 1].to \in Nat
  BY <1>6 DEF Entry, Indexes
<1> QED
  BY <1>1, <1>2, <1>3, <1>4, <1>5, <1>6, <1>7

\* The apply state after an empty entry.
LEMMA EmptyFacts ==
    ASSUME StorageInv, ApplyEmpty
    PROVE  LET m == [Meta EXCEPT !.applied = Meta.applied + 1] IN
           /\ runs("apply") /\ nextEntry /\ m \in MetaState /\ metas' = Append(metas, m)
           /\ delegate' = [applied |-> m.applied, trunc |-> m.trunc] /\ delegate' \in ApplyState
           /\ results' = Append(results, [first |-> 0, state |-> delegate'])
           /\ agreed[Meta.applied + 1].kind = "empty"
<1> DEFINE m == [Meta EXCEPT !.applied = Meta.applied + 1]
<1>1. runs("apply") /\ nextEntry
  BY DEF ApplyEmpty, applying
<1>2. /\ Meta \in MetaState /\ Meta.applied + 1 \in Indexes /\ Meta.trunc \in 0 .. MaxIndex
      /\ Head(jobs).from = Meta.applied + 1 /\ Meta.applied \in 0 .. MaxIndex
  BY <1>1, EntryFacts
<1>3. delegate = [applied |-> Meta.applied, trunc |-> Meta.trunc]
  BY <1>1, ApplyFacts
<1>4. Meta.applied + 1 \in 0 .. MaxIndex
  BY <1>2, BoundsAssumption DEF Indexes
<1>5. m \in MetaState /\ m.applied = Meta.applied + 1 /\ m.trunc = Meta.trunc
  BY <1>2, <1>4 DEF MetaState
<1>6. /\ delegate' = [delegate EXCEPT !.applied = @ + 1]
      /\ metas' = Append(metas, [Meta EXCEPT !.applied = delegate'.applied, !.trunc = delegate'.trunc])
      /\ results' = Append(results, [first |-> 0, state |-> delegate'])
      /\ agreed[Head(jobs).from].kind = "empty"
  BY DEF ApplyEmpty, writeNoSync, applying
<1>7. delegate' = [applied |-> Meta.applied + 1, trunc |-> Meta.trunc]
  BY <1>3, <1>6
<1>8. [Meta EXCEPT !.applied = delegate'.applied, !.trunc = delegate'.trunc] = m
  BY <1>2, <1>7 DEF MetaState
<1>9. delegate' \in ApplyState
  BY <1>2, <1>4, <1>7 DEF ApplyState
<1> QED
  BY <1>1, <1>2, <1>5, <1>6, <1>7, <1>8, <1>9

\* The apply state after a command: a compaction moves the truncated index, by
\* more than one and to before the entry.
LEMMA CommandFacts ==
    ASSUME StorageInv, ApplyMeta
    PROVE  \E to \in 0 .. MaxIndex, first \in 0 .. MaxIndex :
           LET m == [Meta EXCEPT !.applied = Meta.applied + 1, !.trunc = to] IN
           /\ runs("apply") /\ nextEntry /\ m \in MetaState /\ metas' = <<m>>
           /\ delegate' = [applied |-> m.applied, trunc |-> m.trunc] /\ delegate' \in ApplyState
           /\ results' = Append(results, [first |-> first, state |-> delegate'])
           /\ Meta.trunc <= to /\ to <= Meta.applied
           /\ first > 0 => first < to /\ to < Meta.applied + 1
           /\ agreed[Meta.applied + 1].kind \in {"write", "compact"} /\ step = "written"
<1> DEFINE e == agreed[Meta.applied + 1]
           to == compactTo(e)
           first == IF to > Meta.trunc THEN Meta.trunc + 1 ELSE 0
           m == [Meta EXCEPT !.applied = Meta.applied + 1, !.trunc = to]
<1>1. runs("apply") /\ nextEntry /\ step = "written"
  BY DEF ApplyMeta, applying
<1>2. /\ Meta \in MetaState /\ Meta.applied + 1 \in Indexes /\ Meta.trunc \in 0 .. MaxIndex
      /\ Head(jobs).from = Meta.applied + 1 /\ Meta.applied \in 0 .. MaxIndex
      /\ Meta.trunc <= Meta.applied /\ e.to \in Nat /\ e.to < Meta.applied + 1
  BY <1>1, EntryFacts
<1>3. delegate = [applied |-> Meta.applied, trunc |-> Meta.trunc]
  BY <1>1, ApplyFacts
<1>4. Meta.applied + 1 \in 0 .. MaxIndex
  BY <1>2, BoundsAssumption DEF Indexes
<1>5. /\ delegate.applied = Meta.applied /\ delegate.trunc = Meta.trunc
  BY <1>3
<1>6. /\ to \in 0 .. MaxIndex /\ Meta.trunc <= to /\ to <= Meta.applied
      /\ to > Meta.trunc => Meta.trunc + 1 < to
  BY <1>2, <1>5, BoundsAssumption DEF compactTo
<1>7. /\ delegate' = [applied |-> Meta.applied + 1, trunc |-> to]
      /\ metas' = <<[Meta EXCEPT !.applied = delegate'.applied, !.trunc = to]>>
      /\ results' = Append(results, [first |-> first, state |-> delegate'])
      /\ e.kind \in {"write", "compact"}
  BY <1>2, <1>5 DEF ApplyMeta, writeSync, applying
<1> HIDE DEF to
<1>8. m \in MetaState /\ m.applied = Meta.applied + 1 /\ m.trunc = to
  BY <1>2, <1>4, <1>6 DEF MetaState
<1>9. [Meta EXCEPT !.applied = delegate'.applied, !.trunc = to] = m
  BY <1>7
<1>10. delegate' \in ApplyState
  BY <1>4, <1>6, <1>7 DEF ApplyState
<1>11. first \in 0 .. MaxIndex /\ (first > 0 => first < to /\ to < Meta.applied + 1)
  BY <1>2, <1>6, BoundsAssumption
<1> HIDE DEF first, m
<1>12. /\ runs("apply") /\ nextEntry /\ m \in MetaState /\ metas' = <<m>>
       /\ delegate' = [applied |-> m.applied, trunc |-> m.trunc] /\ delegate' \in ApplyState
       /\ results' = Append(results, [first |-> first, state |-> delegate'])
       /\ Meta.trunc <= to /\ to <= Meta.applied
       /\ first > 0 => first < to /\ to < Meta.applied + 1
       /\ agreed[Meta.applied + 1].kind \in {"write", "compact"} /\ step = "written"
  BY <1>1, <1>6, <1>7, <1>8, <1>9, <1>10, <1>11
<1> QED
  BY <1>6, <1>11, <1>12 DEF m

\* The log after entries are deleted: what the event worker may ask for stays.
LEMMA CompactFacts ==
    ASSUME StorageInv, CompactRaftLog
    PROVE  \E log \in Log :
           LET m == [Meta EXCEPT !.log = log] IN
           /\ m \in MetaState /\ (metas' = Append(metas, m) \/ metas' = metas)
           /\ \A i \in DOMAIN log : i \in DOMAIN Meta.log /\ log[i] = Meta.log[i]
           /\ \A i \in DOMAIN Meta.log : i > ps.trunc => i \in DOMAIN log
<1> DEFINE j == jobs[1]
           from == IF j.from = 0 THEN Min(DOMAIN Meta.log \cup {j.to}) ELSE j.from
           log == [i \in DOMAIN Meta.log \ (from .. j.to - 1) |-> Meta.log[i]]
<1>1. /\ runs("compact") /\ Head(jobs) = j /\ 1 \in 1 .. Len(jobs) /\ j.kind = "compact"
      /\ j.from \in 0 .. MaxIndex /\ j.to \in 0 .. MaxIndex /\ alive
  BY HeadIs DEF CompactRaftLog
<1>2. Meta \in MetaState /\ ps \in ApplyState
  BY Current DEF StorageInv, Types
<1>3. Meta.log \in Log /\ DOMAIN Meta.log \subseteq Indexes
      /\ \A i \in DOMAIN Meta.log : Meta.log[i] \in {"agreed", "lost"}
  BY <1>2, MetaFields, LogIs
<1>4. from \in Nat
  <2>1. DOMAIN Meta.log \cup {j.to} \subseteq Nat /\ DOMAIN Meta.log \cup {j.to} # {}
    BY <1>1, <1>3, BoundsAssumption DEF Indexes
  <2>2. Min(DOMAIN Meta.log \cup {j.to}) \in DOMAIN Meta.log \cup {j.to}
    BY <2>1, MinOf
  <2> QED
    BY <1>1, <2>1, <2>2, BoundsAssumption
<1>5. j.to <= ps.trunc + 1 /\ ps.trunc \in Nat
  BY <1>1, <1>2, BoundsAssumption DEF StorageInv, ViewInv, compacts, ApplyState
<1>6. metas' = Append(metas, [Meta EXCEPT !.log = log]) \/ metas' = metas
  BY <1>1 DEF CompactRaftLog, writeNoSync
<1> HIDE DEF from
<1>7. log \in Log
  <2>1. DOMAIN Meta.log \ (from .. j.to - 1) \in SUBSET Indexes
    BY <1>3
  <2>2. log \in [DOMAIN Meta.log \ (from .. j.to - 1) -> {"agreed", "lost"}]
    BY <1>3
  <2> QED
    BY <2>1, <2>2, LogIs
<1>8. \A i \in DOMAIN log : i \in DOMAIN Meta.log /\ log[i] = Meta.log[i]
  OBVIOUS
<1>9. ASSUME NEW i \in DOMAIN Meta.log, i > ps.trunc PROVE i \in DOMAIN log
  <2>1. i \in Nat
    BY <1>3 DEF Indexes
  <2>2. i \notin from .. j.to - 1
    BY <1>1, <1>4, <1>5, <1>9, <2>1, BoundsAssumption
  <2> QED
    BY <2>2
<1> HIDE DEF log
<1>10. [Meta EXCEPT !.log = log] \in MetaState
  BY <1>2, <1>7 DEF MetaState
<1> QED
  BY <1>6, <1>7, <1>8, <1>9, <1>10

\* The state that a Ready with the snapshot s saves.
takenMeta(s, last, n, commit) ==
    [state |-> "applying", last |-> last, commit |-> commit, applied |-> s, trunc |-> s,
     log |-> doAppendEntries(emptyLog, s + 1, last, n)]

\* What it writes to the metadata.
LEMMA TakenIs ==
    ASSUME StorageInv, NEW s \in Indexes, NEW last \in Indexes, NEW n \in s .. last,
           NEW commit \in s .. last, SnapshotReady(s, last, n, commit)
    PROVE  LET m == takenMeta(s, last, n, commit) IN
           /\ m \in MetaState /\ metas' = <<m>> /\ s \in 0 .. MaxIndex
           /\ m.applied = s /\ m.trunc = s /\ m.state = "applying" /\ m.commit = commit
           /\ m.last = last /\ s <= commit /\ commit <= last
           /\ stable' = m.log /\ m.log \in Log
           /\ \A i \in s + 1 .. last : i \in DOMAIN m.log
<1> DEFINE log == doAppendEntries(emptyLog, s + 1, last, n)
<1>1. /\ s \in 0 .. MaxIndex /\ last \in 0 .. MaxIndex /\ commit \in 0 .. MaxIndex
      /\ s + 1 \in 1 .. MaxIndex + 1 /\ s <= commit /\ commit <= last
  BY BoundsAssumption DEF Indexes
<1>2. emptyLog \in Log
  <2>1. {} \in SUBSET Indexes /\ emptyLog \in [{} -> {"agreed", "lost"}]
    BY DEF emptyLog
  <2> QED
    BY <2>1, LogIs
<1>3. log \in Log /\ \A i \in s + 1 .. last : i \in DOMAIN log
  BY <1>1, <1>2, AppendsToLog
<1>4. metas' = <<takenMeta(s, last, n, commit)>> /\ stable' = log
  BY DEF SnapshotReady, writeSync, takenMeta
<1> HIDE DEF log
<1>5. takenMeta(s, last, n, commit) =
        [state |-> "applying", last |-> last, commit |-> commit, applied |-> s, trunc |-> s,
         log |-> log]
  BY DEF takenMeta, log
<1>6. takenMeta(s, last, n, commit) \in MetaState
  BY <1>1, <1>3, <1>5 DEF MetaState
<1> QED
  BY <1>1, <1>3, <1>4, <1>5, <1>6

\* The snapshot job and the registration are queued.
LEMMA TakeOverFacts ==
    ASSUME StorageInv, NEW s \in Indexes, NEW last \in Indexes, NEW n \in s .. last,
           NEW commit \in s .. last, SnapshotReady(s, last, n, commit)
    PROVE  LET snap == [kind |-> "snapshot", from |-> s, to |-> s]
               reg == [kind |-> "register", from |-> s, to |-> s]
               js == Append(jobs, snap) IN
           /\ snap \in Job /\ reg \in Job /\ js \in Seq(Job) /\ jobs' = Append(js, reg)
           /\ none(jobs, "apply") /\ none(jobs, "snapshot") /\ results = <<>>
           /\ step = "start" /\ alive
           /\ Meta.trunc < s /\ ps.trunc < s
<1>1. running /\ ~isApplyingSnapshot /\ isApplyComplete /\ pendingSnap = s
  BY DEF SnapshotReady, waitsForApply
<1>2. none(jobs, "apply") /\ none(jobs, "snapshot") /\ results = <<>> /\ step = "start" /\ alive
  BY <1>1, CompleteFacts
<1>3. s \in 0 .. MaxIndex /\ s # 0
  BY BoundsAssumption DEF Indexes
<1>4. /\ [kind |-> "snapshot", from |-> s, to |-> s] \in Job
      /\ [kind |-> "register", from |-> s, to |-> s] \in Job
  BY <1>3 DEF Job
<1>5. jobs \in Seq(Job) /\ ps \in ApplyState
  BY DEF StorageInv, Types
<1>6. /\ Append(jobs, [kind |-> "snapshot", from |-> s, to |-> s]) \in Seq(Job)
      /\ jobs' = Append(Append(jobs, [kind |-> "snapshot", from |-> s, to |-> s]),
                        [kind |-> "register", from |-> s, to |-> s])
  BY <1>4, <1>5, AppendTwo DEF SnapshotReady
<1>7. Meta.trunc < s /\ ps.trunc < s
  <2>1. /\ Meta \in MetaState /\ goodVersion(Meta, stable, Meta) /\ ps.trunc <= Meta.trunc
        /\ s > Meta.commit
    BY <1>1, <1>2, <1>3, Current DEF StorageInv, VersionsInv, ViewInv, goodResults, PendingInv
  <2>2. /\ Meta.trunc <= Meta.commit /\ Meta.trunc \in Nat /\ Meta.commit \in Nat /\ ps.trunc \in Nat
    BY <1>5, <2>1, MetaFields, BoundsAssumption DEF goodVersion, ApplyState
  <2> QED
    BY <1>3, <2>1, <2>2, BoundsAssumption
<1> QED
  BY <1>2, <1>4, <1>6, <1>7

\* The queue after a restart.
LEMMA RestartFacts ==
    ASSUME StorageInv, Restart
    PROVE  LET reg == [kind |-> "register", from |-> Meta.applied, to |-> Meta.trunc]
               snap == [kind |-> "snapshot", from |-> Meta.trunc, to |-> Meta.trunc] IN
           /\ reg \in Job /\ snap \in Job
           /\ jobs' = IF Meta.state = "applying" THEN Append(<<snap>>, reg) ELSE <<reg>>
           /\ fatal' = FALSE /\ lastReady' = Meta.applied /\ lastReady' \in 0 .. MaxIndex
           /\ ps' = [applied |-> Meta.applied, trunc |-> Meta.trunc] /\ ps' \in ApplyState
           /\ results = <<>> /\ ~alive /\ delegate = NoDelegate /\ step = "start"
<1> DEFINE reg == [kind |-> "register", from |-> Meta.applied, to |-> Meta.trunc]
           snap == [kind |-> "snapshot", from |-> Meta.trunc, to |-> Meta.trunc]
<1>1. /\ Meta \in MetaState /\ goodVersion(Meta, stable, Meta)
  BY Current DEF StorageInv, VersionsInv
<1>2. Meta.applied \in 0 .. MaxIndex /\ Meta.trunc \in 0 .. MaxIndex /\ Meta.last \in 0 .. MaxIndex
      /\ Meta.commit \in 0 .. MaxIndex
  BY <1>1 DEF MetaState
<1>3. reg \in Job /\ snap \in Job /\ [applied |-> Meta.applied, trunc |-> Meta.trunc] \in ApplyState
  BY <1>2 DEF Job, ApplyState
<1>4. ~alive /\ results = <<>> /\ delegate = NoDelegate /\ jobs = <<>>
  BY DEF Restart, StorageInv, QueueInv
<1>5. step = "start"
  BY <1>4 DEF StorageInv, StepInv, goodStep, Types
<1>6. loadable(Meta)
  <2>1. /\ Meta.trunc <= Meta.commit /\ Meta.commit <= Meta.last /\ Meta.applied <= Meta.commit
        /\ \A i \in Meta.trunc + 1 .. Meta.last : i \in DOMAIN Meta.log
    BY <1>1, <1>2, BoundsAssumption DEF goodVersion
  <2>2. Meta.last = Meta.trunc \/ Meta.last \in Meta.trunc + 1 .. Meta.last
    BY <1>2, <2>1, BoundsAssumption
  <2> QED
    BY <2>1, <2>2 DEF loadable
<1>7. jobs' = IF Meta.state = "applying" THEN Append(<<snap>>, reg) ELSE <<reg>>
  <2>1. CASE Meta.state = "applying"
    <3>1. jobs' = [i \in 1 .. 1 |-> snap] \o <<reg>>
      BY <2>1 DEF Restart
    <3>2. [i \in 1 .. 1 |-> snap] = <<snap>>
      OBVIOUS
    <3>3. <<snap>> \o <<reg>> = Append(<<snap>>, reg)
      <4> HIDE DEF snap, reg
      <4> QED
        OBVIOUS
    <3> QED
      BY <2>1, <3>1, <3>2, <3>3
  <2>2. CASE Meta.state # "applying"
    <3>1. jobs' = [i \in 1 .. 0 |-> snap] \o <<reg>>
      BY <2>2 DEF Restart
    <3>2. [i \in 1 .. 0 |-> snap] = <<>>
      OBVIOUS
    <3>3. <<>> \o <<reg>> = <<reg>>
      <4> HIDE DEF reg
      <4> QED
        OBVIOUS
    <3> QED
      BY <2>2, <3>1, <3>2, <3>3
  <2> QED
    BY <2>1, <2>2
<1> QED
  BY <1>2, <1>3, <1>4, <1>5, <1>6, <1>7 DEF Restart, initLastReady

\* What doPostApply takes over: doApplyCompactRaftLog finds entries to count.
LEMMA PostFacts ==
    ASSUME StorageInv, PostApply
    PROVE  LET r == results[1]
               j == compactJob(lastCompact, r.state.trunc) IN
           /\ alive /\ results # <<>> /\ r \in Result /\ ps' = r.state /\ ps' \in ApplyState
           /\ results' = Tail(results) /\ fatal' = FALSE
           /\ IF r.first > 0 THEN j \in Job /\ jobs' = Append(jobs, j) ELSE jobs' = jobs
           /\ j.kind = "compact" /\ j.to = r.state.trunc + 1
           /\ lastCompact' \in 0 .. MaxIndex
           /\ r.state.applied = ps.applied + 1
<1> DEFINE r == results[1]
           j == compactJob(lastCompact, r.state.trunc)
<1>1. /\ alive /\ results # <<>> /\ results \in Seq(Result) /\ lastCompact \in 0 .. MaxIndex
      /\ lastReady \in 0 .. MaxIndex /\ Meta \in MetaState /\ ps \in ApplyState
  BY Current DEF PostApply, running, StorageInv, Types
<1>2. Head(results) = r /\ r \in Result /\ 1 \in 1 .. Len(results) /\ Len(results) \in Nat
  BY <1>1
<1>3. /\ r.state \in ApplyState /\ r.first \in 0 .. MaxIndex
      /\ r.state.trunc \in 0 .. MaxIndex /\ r.state.applied \in 0 .. MaxIndex
      /\ ps.applied \in 0 .. MaxIndex /\ Meta.applied \in 0 .. MaxIndex
  BY <1>1, <1>2 DEF Result, ApplyState, MetaState
<1>4. /\ ps.applied + Len(results) = Meta.applied /\ r.state.applied = ps.applied + 1
      /\ r.first > 0 => r.first < r.state.trunc /\ r.state.trunc < r.state.applied
  BY <1>1, <1>2 DEF StorageInv, ViewInv, goodResults
<1>5. Meta.applied <= lastReady
  <2>1. hasPlan(jobs, Meta.applied, lastReady) /\ jobs \in Seq(Job)
    BY <1>1 DEF StorageInv, QueueInv, goodQueue, Types
  <2> QED
    BY <1>1, <1>3, <2>1, PlanOrder
<1>6. r.first > 0 => /\ r.first < lastReady /\ r.state.trunc < lastReady
                     /\ r.state.trunc + 1 \in 0 .. MaxIndex
  <2> SUFFICES ASSUME r.first > 0
               PROVE  /\ r.first < lastReady /\ r.state.trunc < lastReady
                      /\ r.state.trunc + 1 \in 0 .. MaxIndex
    OBVIOUS
  <2>1. ps.applied + 1 <= Meta.applied
    BY <1>1, <1>2, <1>3, <1>4
  <2>2. r.first < r.state.trunc /\ r.state.trunc < lastReady
    BY <1>1, <1>3, <1>4, <1>5, <2>1
  <2> HIDE DEF r
  <2> QED
    BY <1>1, <1>3, <2>2, BoundsAssumption
<1>7. ~(r.first > 0 /\ sizeHintFails(r))
  BY <1>1, <1>3, <1>6, BoundsAssumption DEF sizeHintFails
<1>8. j.kind = "compact" /\ j.to = r.state.trunc + 1 /\ (r.first > 0 => j \in Job)
  BY <1>1, <1>6 DEF compactJob, Job
<1>9. /\ ps' = r.state /\ fatal' = (r.first > 0 /\ sizeHintFails(r)) /\ results' = Tail(results)
      /\ jobs' = IF r.first > 0 THEN Append(jobs, j) ELSE jobs
      /\ lastCompact' = IF r.first > 0 THEN r.state.trunc + 1 ELSE lastCompact
  BY <1>2 DEF PostApply
<1>10. fatal' = FALSE
  BY <1>7, <1>9
<1> HIDE DEF j
<1>11. lastCompact' \in 0 .. MaxIndex
  BY <1>1, <1>6, <1>9
<1>12. IF r.first > 0 THEN j \in Job /\ jobs' = Append(jobs, j) ELSE jobs' = jobs
  BY <1>8, <1>9
<1> QED
  BY <1>1, <1>2, <1>3, <1>4, <1>8, <1>9, <1>10, <1>11, <1>12 DEF j

\* One more version, job or result has the type of the others.
LEMMA OneMore ==
    ASSUME Types
    PROVE  /\ \A m \in MetaState : /\ <<m>> \in Seq(MetaState) /\ <<m>> # <<>>
                                    /\ Append(metas, m) \in Seq(MetaState)
                                    /\ Append(metas, m) # <<>>
           /\ \A d \in SUBSET Indexes : <<d>> \in Seq(SUBSET Indexes) /\ <<d>> # <<>>
           /\ \A j \in Job : <<j>> \in Seq(Job) /\ Append(jobs, j) \in Seq(Job)
           /\ \A i, j \in Job : Append(<<i>>, j) \in Seq(Job)
           /\ \A r \in Result : Append(results, r) \in Seq(Result)
<1>1. metas \in Seq(MetaState) /\ jobs \in Seq(Job) /\ results \in Seq(Result)
  BY DEF Types
<1>2. ASSUME NEW m \in MetaState
      PROVE  /\ <<m>> \in Seq(MetaState) /\ <<m>> # <<>>
             /\ Append(metas, m) \in Seq(MetaState) /\ Append(metas, m) # <<>>
  BY <1>1, OneIs, AppendIs
<1>3. ASSUME NEW d \in SUBSET Indexes PROVE <<d>> \in Seq(SUBSET Indexes) /\ <<d>> # <<>>
  BY OneIs
<1>4. ASSUME NEW j \in Job PROVE <<j>> \in Seq(Job) /\ Append(jobs, j) \in Seq(Job)
  BY <1>1, OneIs, AppendIs
<1>5. ASSUME NEW i \in Job, NEW j \in Job PROVE Append(<<i>>, j) \in Seq(Job)
  <2>1. <<i>> \in Seq(Job)
    BY OneIs
  <2> QED
    BY <2>1, AppendIs
<1>6. ASSUME NEW r \in Result PROVE Append(results, r) \in Seq(Result)
  BY <1>1, AppendIs
<1> QED
  BY <1>2, <1>3, <1>4, <1>5, <1>6

\* The variables keep their types: the event worker.
LEMMA LoopTypes ==
    ASSUME StorageInv,
           \/ \E from \in 1 .. MaxIndex + 1, last \in 0 .. MaxIndex :
                \E n \in from - 1 .. last, commit \in Meta.commit .. last :
                   HandleReady(from, last, n, commit)
           \/ \E s \in Indexes : RecvSnapshot(s) \/ ReceiveFile(s) \/ GCFile(s)
           \/ \E s \in Indexes, last \in Indexes :
                \E n \in s .. last, commit \in s .. last : SnapshotReady(s, last, n, commit)
           \/ PostApply
    PROVE  Types'
<1>0. Types
  BY DEF StorageInv
<1>1. ASSUME NEW from \in 1 .. MaxIndex + 1, NEW last \in 0 .. MaxIndex,
             NEW n \in from - 1 .. last, NEW commit \in Meta.commit .. last,
             HandleReady(from, last, n, commit)
      PROVE  Types'
  <2>1. /\ ReadyIs(from, last, n, commit) /\ stable' \in Log
        /\ readyMeta(from, last, n, commit) \in MetaState
        /\ metas' = <<readyMeta(from, last, n, commit)>> \/ metas' = metas
    BY <1>1, ReadyFacts
  <2>2. metas' \in Seq(MetaState) /\ metas' # <<>>
    BY <1>0, <2>1, OneMore DEF Types
  <2>3. jobs' \in Seq(Job) /\ lastReady' \in 0 .. MaxIndex
    <3>1. CASE delegate # NoDelegate /\ commit > lastReady
      <4>1. [kind |-> "apply", from |-> lastReady + 1, to |-> commit] \in Job
        BY <1>0, <2>1, <3>1, BoundsAssumption DEF Types, Job, ReadyIs
      <4> QED
        BY <1>0, <1>1, <2>1, <3>1, <4>1, OneMore
        DEF Types, HandleReady, applyCommittedEntries, ReadyIs
    <3>2. CASE ~(delegate # NoDelegate /\ commit > lastReady)
      BY <1>0, <1>1, <3>2 DEF Types, HandleReady, applyCommittedEntries
    <3> QED
      BY <3>1, <3>2
  <2> QED
    BY <1>0, <1>1, <2>1, <2>2, <2>3 DEF Types, HandleReady
<1>2. ASSUME NEW s \in Indexes, RecvSnapshot(s) \/ ReceiveFile(s) \/ GCFile(s) PROVE Types'
  <2>1. s \in 0 .. MaxIndex
    BY BoundsAssumption DEF Indexes
  <2> QED
    BY <1>0, <1>2, <2>1
    DEF Types, RecvSnapshot, ReceiveFile, GCFile, diskVars, loopVars, workerVars, historyVars
<1>3. ASSUME NEW s \in Indexes, NEW last \in Indexes, NEW n \in s .. last,
             NEW commit \in s .. last, SnapshotReady(s, last, n, commit)
      PROVE  Types'
  <2> DEFINE m == takenMeta(s, last, n, commit)
             js == Append(jobs, [kind |-> "snapshot", from |-> s, to |-> s])
  <2>1. /\ m \in MetaState /\ metas' = <<m>> /\ s \in 0 .. MaxIndex /\ stable' \in Log
        /\ js \in Seq(Job) /\ [kind |-> "register", from |-> s, to |-> s] \in Job
        /\ jobs' = Append(js, [kind |-> "register", from |-> s, to |-> s])
    BY SMTT(30), <1>3, TakenIs, TakeOverFacts
  <2> HIDE DEF m, js
  <2>2. metas' \in Seq(MetaState) /\ metas' # <<>> /\ jobs' \in Seq(Job)
    BY <2>1, OneIs, AppendIs
  <2>3. [applied |-> s, trunc |-> s] \in ApplyState /\ 0 \in 0 .. MaxIndex
    BY <2>1, BoundsAssumption DEF ApplyState
  <2> QED
    BY <1>0, <1>3, <2>1, <2>2, <2>3 DEF Types, SnapshotReady
<1>4. CASE PostApply
  <2>1. /\ ps' \in ApplyState /\ results' = Tail(results) /\ fatal' = FALSE
        /\ results # <<>> /\ lastCompact' \in 0 .. MaxIndex
        /\ jobs' = jobs \/ \E j \in Job : jobs' = Append(jobs, j)
    BY <1>4, PostFacts
  <2>2. results' \in Seq(Result) /\ jobs' \in Seq(Job)
    BY <1>0, <2>1, TailIs, OneMore DEF Types
  <2> QED
    BY <1>0, <1>4, <2>1, <2>2 DEF Types, PostApply, diskVars, historyVars
<1> QED
  BY <1>1, <1>2, <1>3, <1>4

\* The variables keep their types: the apply worker, crashes and restarts.
LEMMA WorkerTypes ==
    ASSUME StorageInv, Worker \/ Crash \/ Restart
    PROVE  Types'
<1>0. Types /\ Meta \in MetaState
  BY Current DEF StorageInv
<1>1. CASE Register
  <2>1. /\ jobs # <<>> /\ Head(jobs) = jobs[1] /\ jobs[1].from \in 0 .. MaxIndex
        /\ jobs[1].to \in 0 .. MaxIndex
    BY <1>1, HeadIs DEF Register
  <2>2. jobs' \in Seq(Job) /\ delegate' \in ApplyState
    BY <1>0, <1>1, <2>1, TailIs DEF Types, Register, ApplyState
  <2> QED
    BY <1>0, <1>1, <2>2 DEF Types, Register, diskVars, loopVars, historyVars
<1>2. CASE ApplyEmpty
  <2>1. /\ \E m \in MetaState : metas' = Append(metas, m)
        /\ delegate' \in ApplyState /\ runs("apply") /\ nextEntry
        /\ results' = Append(results, [first |-> 0, state |-> delegate'])
    BY <1>2, EmptyFacts
  <2>2. jobs' \in Seq(Job)
    BY <2>1, NextEntryFacts
  <2>3. [first |-> 0, state |-> delegate'] \in Result
    BY <2>1, BoundsAssumption DEF Result
  <2>4. metas' \in Seq(MetaState) /\ metas' # <<>> /\ results' \in Seq(Result)
    BY <1>0, <2>1, <2>3, OneMore
  <2> QED
    BY <1>0, <1>2, <2>1, <2>2, <2>4 DEF Types, ApplyEmpty, loopVars, historyVars
<1>3. CASE ApplyData
  <2>1. datas' \in Seq(SUBSET Indexes) /\ datas' # <<>> /\ unsynced' \in BOOLEAN
    <3>1. runs("apply")
      BY <1>3 DEF ApplyData, applying
    <3>2. Data \cup {Head(jobs).from} \in SUBSET Indexes
      BY <1>0, <3>1, EntryFacts, Current
    <3> QED
      BY <1>0, <1>3, <3>2, OneMore DEF Types, ApplyData, writeData
  <2> QED
    BY <1>0, <1>3, <2>1 DEF Types, ApplyData, loopVars
<1>4. CASE ApplyMeta
  <2>1. /\ \E m \in MetaState : metas' = <<m>>
        /\ delegate' \in ApplyState /\ runs("apply") /\ nextEntry
        /\ \E f \in 0 .. MaxIndex : results' = Append(results, [first |-> f, state |-> delegate'])
    BY <1>4, CommandFacts
  <2>2. jobs' \in Seq(Job)
    BY <2>1, NextEntryFacts
  <2>3. \A f \in 0 .. MaxIndex : [first |-> f, state |-> delegate'] \in Result
    BY <2>1 DEF Result
  <2>4. metas' \in Seq(MetaState) /\ metas' # <<>> /\ results' \in Seq(Result)
    BY <1>0, <2>1, <2>3, OneMore
  <2> QED
    BY <1>0, <1>4, <2>1, <2>2, <2>4 DEF Types, ApplyMeta, loopVars, historyVars
<1>5. CASE CompactRaftLog
  <2>1. \/ \E m \in MetaState : metas' = Append(metas, m)
        \/ metas' = metas
    BY <1>5, CompactFacts
  <2>2. metas' \in Seq(MetaState) /\ metas' # <<>>
    BY <1>0, <2>1, OneMore DEF Types
  <2>3. jobs' \in Seq(Job)
    BY <1>0, <1>5, TailIs DEF Types, CompactRaftLog, runs
  <2> QED
    BY <1>0, <1>5, <2>2, <2>3 DEF Types, CompactRaftLog, loopVars, historyVars
<1>6. CASE SnapshotRemove
  <2>1. datas' \in Seq(SUBSET Indexes) /\ datas' # <<>>
    <3>1. {} \in SUBSET Indexes
      OBVIOUS
    <3> QED
      BY <1>0, <1>6, <3>1, AppendIs DEF Types, SnapshotRemove
  <2> QED
    BY <1>0, <1>6, <2>1 DEF Types, SnapshotRemove, loopVars, historyVars
<1>7. CASE SnapshotInstall
  <2>1. datas' \in Seq(SUBSET Indexes) /\ datas' # <<>>
    <3>1. Head(jobs).from \in 0 .. MaxIndex
      BY <1>7, HeadIs DEF SnapshotInstall
    <3>2. writes(Head(jobs).from) \in SUBSET Indexes
      BY <3>1, BoundsAssumption DEF writes, Indexes
    <3> QED
      BY <1>0, <1>7, <3>2, AppendIs DEF Types, SnapshotInstall
  <2>2. snapshotLost' \in BOOLEAN
    BY <1>7 DEF SnapshotInstall
  <2> QED
    BY <1>0, <1>7, <2>1, <2>2 DEF Types, SnapshotInstall, loopVars
<1>8. CASE SnapshotClean
  BY <1>0, <1>8 DEF Types, SnapshotClean, loopVars, historyVars
<1>9. CASE SnapshotDone
  <2>1. [Meta EXCEPT !.state = "normal"] \in MetaState
    BY <1>0 DEF MetaState
  <2>2. metas' \in Seq(MetaState) /\ metas' # <<>>
    BY <1>9, <2>1, OneIs DEF SnapshotDone, writeSync
  <2>3. jobs' \in Seq(Job)
    BY <1>0, <1>9, TailIs DEF Types, SnapshotDone, runs
  <2> QED
    BY <1>0, <1>9, <2>2, <2>3 DEF Types, SnapshotDone, loopVars, historyVars
<1>10. CASE SnapshotMissing
  <2>1. jobs' \in Seq(Job)
    BY <1>0, <1>10, TailIs DEF Types, SnapshotMissing, runs
  <2> QED
    BY <1>0, <1>10, <2>1 DEF Types, SnapshotMissing, diskVars, loopVars
<1>13. CASE SnapshotFails
  <2>1. jobs' \in Seq(Job)
    BY <1>0, <1>13, TailIs DEF Types, SnapshotFails, runs
  <2>2. Head(jobs).from \in 0 .. MaxIndex
    BY <1>13, HeadIs DEF SnapshotFails
  <2>3. PICK d \in SUBSET writes(Head(jobs).from) : datas' = Append(datas, d)
    BY <1>13 DEF SnapshotFails
  <2>4. d \in SUBSET Indexes
    BY <2>2, BoundsAssumption DEF writes, Indexes
  <2>5. datas' \in Seq(SUBSET Indexes) /\ datas' # <<>>
    BY <1>0, <2>3, <2>4, AppendIs DEF Types
  <2> QED
    BY <1>0, <1>13, <2>1, <2>5 DEF Types, SnapshotFails, loopVars
<1>11. CASE Crash
  <2>1. /\ \E m \in MetaState : metas' = <<m>>
        /\ \E d \in SUBSET Indexes : datas' = <<d>>
        /\ snapshotLost' \in BOOLEAN
    BY <1>0, <1>11, Current DEF Crash, Versions
  <2>2. /\ metas' \in Seq(MetaState) /\ metas' # <<>>
        /\ datas' \in Seq(SUBSET Indexes) /\ datas' # <<>>
    BY <2>1, OneIs
  <2>3. crashes' \in 0 .. MaxCrashes
    BY <1>0, <1>11, BoundsAssumption DEF Types, Crash
  <2>4. jobs' \in Seq(Job) /\ results' \in Seq(Result) /\ pendingSnap' \in 0 .. MaxIndex
    BY <1>11, BoundsAssumption DEF Crash
  <2> QED
    BY <1>0, <1>11, <2>1, <2>2, <2>3, <2>4 DEF Types, Crash, loopVars
<1>12. CASE Restart
  <2>1. /\ fatal' = FALSE /\ lastReady' \in 0 .. MaxIndex /\ ps' \in ApplyState
        /\ \/ \E a, b \in Job : jobs' = Append(<<a>>, b)
           \/ \E b \in Job : jobs' = <<b>>
    BY <1>12, RestartFacts
  <2>2. jobs' \in Seq(Job)
    BY <1>0, <2>1, OneMore
  <2>3. lastCompact' \in 0 .. MaxIndex
    BY <1>12, BoundsAssumption DEF Restart
  <2> QED
    BY <1>0, <1>12, <2>1, <2>2, <2>3 DEF Types, Restart, diskVars, historyVars
<1> QED
  BY <1>1, <1>2, <1>3, <1>4, <1>5, <1>6, <1>7, <1>8, <1>9, <1>10, <1>11, <1>12, <1>13
  DEF Worker

----------------------------------------------------------------------------
(* VersionsInv.                                                            *)

\* At the start there is one version, with an empty log.
LEMMA InitVersions == Init => VersionsInv
<1> SUFFICES ASSUME Init PROVE VersionsInv
  OBVIOUS
<1> DEFINE c == [state |-> "normal", last |-> 0, commit |-> 0, applied |-> 0,
                 trunc |-> 0, log |-> emptyLog]
<1>1. metas = <<c>> /\ stable = emptyLog /\ DOMAIN emptyLog = {}
  BY DEF Init, emptyLog
<1>2. Versions = {c} /\ Meta = c
  BY <1>1, OneIs DEF Versions, Meta
<1> QED
  BY <1>1, <1>2 DEF VersionsInv, goodVersion

\* A synced write leaves one version.
LEMMA VersionsSynced ==
    ASSUME agreed' = agreed, NEW c \in MetaState, metas' = <<c>>, goodVersion(c, stable', c)
    PROVE  VersionsInv' /\ Versions' = {c} /\ Meta' = c
<1>1. Versions' = {c} /\ Meta' = c
  BY OneIs DEF Versions, Meta
<1> QED
  BY <1>1 DEF VersionsInv, goodVersion, writes

\* A write without sync adds one.
LEMMA VersionsAdded ==
    ASSUME agreed' = agreed, Types, NEW c \in MetaState, metas' = Append(metas, c),
           stable' = stable, \A m \in Versions \cup {c} : goodVersion(m, stable, c)
    PROVE  VersionsInv'
<1>1. Versions' = Versions \cup {c} /\ Meta' = c
  BY AppendIs DEF Versions, Meta, Types
<1>2. ASSUME NEW m \in Versions \cup {c} PROVE goodVersion(m, stable, Meta)'
  <2>1. goodVersion(m, stable, c)
    BY <1>2
  <2> QED
    BY <1>1, <2>1 DEF goodVersion, writes
<1> QED
  BY <1>1, <1>2 DEF VersionsInv

\* Other steps change neither the metadata nor what is stable.
LEMMA VersionsKept ==
    ASSUME agreed' = agreed, VersionsInv, metas' = metas, stable' = stable
    PROVE  VersionsInv'
BY DEF VersionsInv, Versions, Meta, goodVersion, writes

\* The current version is a good one.
LEMMA CurrentGood ==
    ASSUME StorageInv
    PROVE  /\ Meta \in MetaState /\ Meta \in Versions /\ goodVersion(Meta, stable, Meta)
           /\ Meta.last \in Nat /\ Meta.commit \in Nat /\ Meta.applied \in Nat
           /\ Meta.trunc \in Nat /\ Meta.log \in Log /\ DOMAIN Meta.log \subseteq Indexes
           /\ Meta.trunc <= Meta.applied /\ Meta.applied <= Meta.commit
           /\ Meta.commit <= Meta.last /\ Meta.last <= MaxIndex
           /\ \A i \in Meta.trunc + 1 .. Meta.last : i \in DOMAIN Meta.log
<1>1. Meta \in MetaState /\ Meta \in Versions
  BY Current DEF StorageInv
<1>2. goodVersion(Meta, stable, Meta)
  BY <1>1 DEF StorageInv, VersionsInv
<1> QED
  BY <1>1, <1>2, MetaFields DEF goodVersion

\* A Ready saves a log that holds what raft is then told to be stable.
LEMMA ReadyVersions ==
    ASSUME StorageInv, NEW from \in 1 .. MaxIndex + 1, NEW last \in 0 .. MaxIndex,
           NEW n \in from - 1 .. last, NEW commit \in Meta.commit .. last,
           HandleReady(from, last, n, commit)
    PROVE  VersionsInv'
<1> DEFINE c == readyMeta(from, last, n, commit)
           new == doAppendEntries(Meta.log, from, last, n)
<1>1. /\ ReadyIs(from, last, n, commit) /\ c \in MetaState /\ stable' = new
      /\ \/ metas' = <<c>>
         \/ metas' = metas /\ from = Meta.last + 1 /\ last = Meta.last
  BY ReadyFacts
<1>2. agreed' = agreed
  BY DEF HandleReady
<1>3. /\ Meta.last \in Nat /\ Meta.commit \in Nat /\ Meta.applied \in Nat
      /\ Meta.trunc \in Nat /\ Meta.log \in Log /\ DOMAIN Meta.log \subseteq Indexes
      /\ Meta.trunc <= Meta.applied /\ Meta.applied <= Meta.commit /\ Meta \in MetaState
      /\ \A i \in Meta.trunc + 1 .. Meta.last : i \in DOMAIN Meta.log
  BY CurrentGood
<1>4. /\ \A i : i \in DOMAIN new <=> (i \in DOMAIN Meta.log /\ i < from) \/ i \in from .. last
      /\ \A i \in DOMAIN new : i < from => new[i] = Meta.log[i]
  BY <1>3, AppendsToLog
<1>5. /\ c.log = new /\ c.last = last /\ c.commit = commit /\ c.applied = Meta.applied
      /\ c.trunc = Meta.trunc
  BY <1>3 DEF readyMeta, MetaState
<1> HIDE DEF c, new
<1>6. CASE metas' = <<c>>
  <2>1. ASSUME NEW i \in c.trunc + 1 .. c.last PROVE i \in DOMAIN c.log
    <3>1. i \in Nat /\ i >= Meta.trunc + 1 /\ i <= last
      BY <1>3, <1>5
    <3>2. CASE i < from
      <4>1. i \in Meta.trunc + 1 .. Meta.last
        BY <1>1, <1>3, <3>1, <3>2 DEF ReadyIs
      <4> QED
        BY <1>3, <1>4, <1>5, <3>2, <4>1
    <3>3. CASE ~(i < from)
      BY <1>4, <1>5, <3>1, <3>3
    <3> QED
      BY <3>2, <3>3
  <2>2. c.trunc <= c.applied /\ c.applied <= c.commit /\ c.commit <= c.last
    BY <1>1, <1>3, <1>5, BoundsAssumption DEF ReadyIs
  <2>3. goodVersion(c, stable', c)
    BY <1>1, <1>5, <2>1, <2>2 DEF goodVersion
  <2> QED
    BY <1>1, <1>2, <1>6, <2>3, VersionsSynced
<1>7. CASE metas' = metas /\ from = Meta.last + 1 /\ last = Meta.last
  <2>1. ASSUME NEW m \in Versions, NEW i \in DOMAIN new
        PROVE  i \in DOMAIN m.log /\ m.log[i] = new[i]
    <3>1. i \in DOMAIN Meta.log /\ new[i] = Meta.log[i]
      <4>1. i \notin from .. last
        BY <1>3, <1>7
      <4> QED
        BY <1>4, <4>1
    <3> QED
      BY <3>1 DEF StorageInv, VersionsInv, goodVersion
  <2>2. Versions' = Versions /\ Meta' = Meta
    BY <1>7 DEF Versions, Meta
  <2>3. ASSUME NEW m \in Versions PROVE goodVersion(m, stable, Meta)'
    <3>1. goodVersion(m, stable, Meta)
      BY DEF StorageInv, VersionsInv
    <3> QED
      BY <1>1, <1>2, <2>1, <2>2, <3>1 DEF goodVersion, writes
  <2> QED
    BY <2>2, <2>3 DEF VersionsInv
<1> QED
  BY <1>1, <1>6, <1>7

\* The writes up to an entry that is not one.
LEMMA SameWrites ==
    ASSUME NEW n \in Nat, agreed[n + 1].kind # "write"
    PROVE  writes(n + 1) = writes(n)
<1>1. \A i \in 1 .. n + 1 : i \in 1 .. n \/ i = n + 1
  OBVIOUS
<1>2. \A i \in 1 .. n : i \in 1 .. n + 1
  OBVIOUS
<1> QED
  BY <1>1, <1>2 DEF writes

\* Every version stays good.
LEMMA NextVersions ==
    ASSUME StorageInv, Next
    PROVE  VersionsInv'
<1>0. Types /\ VersionsInv
  BY DEF StorageInv
<1>1. CASE \E from \in 1 .. MaxIndex + 1, last \in 0 .. MaxIndex :
             \E n \in from - 1 .. last, commit \in Meta.commit .. last :
                HandleReady(from, last, n, commit)
  BY <1>1, ReadyVersions
<1>2. ASSUME NEW s \in Indexes, NEW last \in Indexes, NEW n \in s .. last,
             NEW commit \in s .. last, SnapshotReady(s, last, n, commit)
      PROVE  VersionsInv'
  <2> DEFINE c == takenMeta(s, last, n, commit)
  <2>1. /\ c \in MetaState /\ metas' = <<c>> /\ s \in 0 .. MaxIndex
        /\ c.applied = s /\ c.trunc = s /\ c.commit = commit /\ c.last = last
        /\ s <= commit /\ commit <= last /\ stable' = c.log
        /\ \A i \in s + 1 .. last : i \in DOMAIN c.log
    BY <1>2, TakenIs
  <2>2. agreed' = agreed
    BY <1>2 DEF SnapshotReady
  <2> HIDE DEF c
  <2>3. goodVersion(c, stable', c)
    BY <2>1, BoundsAssumption DEF goodVersion
  <2> QED
    BY <2>1, <2>2, <2>3, VersionsSynced
<1>3. CASE ApplyEmpty
  <2> DEFINE c == [Meta EXCEPT !.applied = Meta.applied + 1]
  <2>1. /\ runs("apply") /\ c \in MetaState /\ metas' = Append(metas, c)
        /\ agreed[Meta.applied + 1].kind = "empty"
    BY <1>3, EmptyFacts
  <2>2. stable' = stable /\ agreed' = agreed
    BY <1>3 DEF ApplyEmpty, historyVars
  <2>3. /\ c.last = Meta.last /\ c.commit = Meta.commit /\ c.applied = Meta.applied + 1
        /\ c.trunc = Meta.trunc /\ c.log = Meta.log /\ c.state = Meta.state
    BY CurrentGood DEF MetaState
  <2>4. writes(c.applied) = writes(Meta.applied)
    BY <2>1, <2>3, CurrentGood, SameWrites
  <2>5. /\ Meta.applied + 1 <= Meta.commit /\ goodVersion(Meta, stable, Meta)
        /\ Meta.trunc \in Nat /\ Meta.applied \in Nat /\ Meta.trunc <= Meta.applied
    BY <2>1, EntryFacts, CurrentGood
  <2> HIDE DEF c
  <2>6. goodVersion(c, stable, c)
    BY <2>3, <2>5 DEF goodVersion
  <2>7. ASSUME NEW m \in Versions PROVE goodVersion(m, stable, c)
    BY <1>0, <2>3, <2>4 DEF VersionsInv, goodVersion
  <2> QED
    BY <1>0, <2>1, <2>2, <2>6, <2>7, VersionsAdded
<1>4. CASE ApplyMeta
  <2>1. PICK to \in 0 .. MaxIndex :
          /\ [Meta EXCEPT !.applied = Meta.applied + 1, !.trunc = to] \in MetaState
          /\ metas' = <<[Meta EXCEPT !.applied = Meta.applied + 1, !.trunc = to]>>
          /\ runs("apply") /\ Meta.trunc <= to /\ to <= Meta.applied
    BY <1>4, CommandFacts
  <2> DEFINE c == [Meta EXCEPT !.applied = Meta.applied + 1, !.trunc = to]
  <2>2. stable' = stable /\ agreed' = agreed
    BY <1>4 DEF ApplyMeta, historyVars
  <2>3. /\ c.last = Meta.last /\ c.commit = Meta.commit /\ c.applied = Meta.applied + 1
        /\ c.trunc = to /\ c.log = Meta.log /\ c.state = Meta.state
    BY CurrentGood DEF MetaState
  <2>4. /\ Meta.applied + 1 <= Meta.commit /\ goodVersion(Meta, stable, Meta)
        /\ Meta.trunc \in Nat /\ Meta.applied \in Nat /\ to \in Nat /\ Meta.last \in Nat
    BY <2>1, EntryFacts, CurrentGood, BoundsAssumption
  <2>5. c \in MetaState /\ metas' = <<c>>
    BY <2>1
  <2> HIDE DEF c
  <2>6. \A i \in c.trunc + 1 .. c.last : i \in Meta.trunc + 1 .. Meta.last
    BY <2>1, <2>3, <2>4
  <2>7. stable \in Log
    BY <1>0 DEF Types
  <2>8. \A i \in DOMAIN stable : i > to => i > Meta.trunc
    BY <2>1, <2>4, <2>7, LogIs DEF Indexes
  <2>9. goodVersion(c, stable', c)
    BY <2>1, <2>2, <2>3, <2>4, <2>6, <2>8 DEF goodVersion
  <2> QED
    BY <2>2, <2>5, <2>9, VersionsSynced
<1>5. CASE CompactRaftLog
  <2>1. PICK log \in Log :
          /\ [Meta EXCEPT !.log = log] \in MetaState
          /\ metas' = Append(metas, [Meta EXCEPT !.log = log]) \/ metas' = metas
          /\ \A i \in DOMAIN log : i \in DOMAIN Meta.log /\ log[i] = Meta.log[i]
          /\ \A i \in DOMAIN Meta.log : i > ps.trunc => i \in DOMAIN log
    BY <1>5, CompactFacts
  <2> DEFINE c == [Meta EXCEPT !.log = log]
  <2>2. stable' = stable /\ agreed' = agreed /\ alive
    BY <1>5 DEF CompactRaftLog, historyVars, runs, running
  <2>3. /\ c.last = Meta.last /\ c.commit = Meta.commit /\ c.applied = Meta.applied
        /\ c.trunc = Meta.trunc /\ c.log = log /\ c.state = Meta.state
    BY CurrentGood DEF MetaState
  <2>4. /\ goodVersion(Meta, stable, Meta) /\ DOMAIN Meta.log \subseteq Indexes
        /\ Meta.trunc \in Nat /\ ps.trunc \in Nat /\ ps.trunc <= Meta.trunc
    <3>1. ps \in ApplyState /\ ps.trunc <= Meta.trunc
      BY <1>0, <2>2 DEF StorageInv, ViewInv, goodResults, Types
    <3> QED
      BY <3>1, CurrentGood, BoundsAssumption DEF ApplyState
  <2>5. c \in MetaState /\ (metas' = Append(metas, c) \/ metas' = metas)
    BY <2>1
  <2> HIDE DEF c
  <2>6. \A i \in DOMAIN Meta.log : i > Meta.trunc => i > ps.trunc
    BY <2>4 DEF Indexes
  <2>7. goodVersion(c, stable, c)
    <3>1. ASSUME NEW i \in c.trunc + 1 .. c.last PROVE i \in DOMAIN c.log
      <4>1. i \in Nat /\ i > Meta.trunc /\ i \in DOMAIN Meta.log
        BY <2>3, <2>4, CurrentGood DEF goodVersion
      <4> QED
        BY <2>1, <2>3, <2>6, <4>1
    <3>2. ASSUME NEW i \in DOMAIN stable, i > c.trunc
          PROVE  i \in DOMAIN c.log /\ c.log[i] = stable[i]
      <4>1. i \in DOMAIN Meta.log /\ Meta.log[i] = stable[i] /\ i > Meta.trunc
        BY <2>3, <2>4, <3>2 DEF goodVersion
      <4> QED
        BY <2>1, <2>3, <2>6, <4>1
    <3> QED
      BY <2>3, <2>4, <3>1, <3>2 DEF goodVersion
  <2>8. ASSUME NEW m \in Versions PROVE goodVersion(m, stable, c)
    BY <1>0, <2>1, <2>3 DEF VersionsInv, goodVersion
  <2> QED
    BY <1>0, <2>2, <2>5, <2>7, <2>8, VersionsAdded, VersionsKept
<1>6. CASE SnapshotDone
  <2> DEFINE c == [Meta EXCEPT !.state = "normal"]
  <2>1. /\ stable' = stable /\ agreed' = agreed /\ metas' = <<c>>
    BY <1>6 DEF SnapshotDone, writeSync, historyVars
  <2>2. c \in MetaState
    BY CurrentGood DEF MetaState
  <2>3. /\ c.last = Meta.last /\ c.commit = Meta.commit /\ c.applied = Meta.applied
        /\ c.trunc = Meta.trunc /\ c.log = Meta.log
    BY CurrentGood DEF MetaState
  <2>4. goodVersion(Meta, stable, Meta)
    BY CurrentGood
  <2> HIDE DEF c
  <2>5. goodVersion(c, stable', c)
    BY <2>1, <2>3, <2>4 DEF goodVersion
  <2> QED
    BY <2>1, <2>2, <2>5, VersionsSynced
<1>7. CASE Crash
  <2>1. PICK m \in Versions : metas' = <<m>>
    BY <1>7 DEF Crash, Versions
  <2>2. m \in MetaState /\ goodVersion(m, stable, Meta)
    BY <1>0, Current DEF VersionsInv
  <2>3. stable' = stable /\ agreed' = agreed
    BY <1>7 DEF Crash
  <2>4. goodVersion(m, stable', m)
    BY <2>2, <2>3 DEF goodVersion
  <2> QED
    BY <2>1, <2>2, <2>3, <2>4, VersionsSynced
<1>8. CASE \/ \E s \in Indexes : RecvSnapshot(s) \/ ReceiveFile(s) \/ GCFile(s)
           \/ PostApply \/ Register \/ ApplyData \/ SnapshotRemove \/ SnapshotInstall
           \/ SnapshotClean \/ SnapshotMissing \/ SnapshotFails \/ Restart
  <2>1. agreed' = agreed /\ metas' = metas /\ stable' = stable
    BY <1>8 DEF RecvSnapshot, ReceiveFile, GCFile, PostApply, Register, ApplyData,
                SnapshotRemove, SnapshotInstall, SnapshotClean, SnapshotMissing, SnapshotFails,
                Restart, diskVars, historyVars
  <2> QED
    BY <1>0, <2>1, VersionsKept
<1> QED
  BY <1>1, <1>2, <1>3, <1>4, <1>5, <1>6, <1>7, <1>8 DEF Next, Worker

----------------------------------------------------------------------------
(* QueueInv.                                                               *)

\* The current version after a write.
LEMMA MetaWritten ==
    ASSUME Types
    PROVE  /\ \A c \in MetaState : metas' = <<c>> => Meta' = c /\ Versions' = {c}
           /\ \A c \in MetaState : metas' = Append(metas, c) =>
                 Meta' = c /\ Versions' = Versions \cup {c}
           /\ metas' = metas => Meta' = Meta /\ Versions' = Versions
<1>1. ASSUME NEW c \in MetaState, metas' = <<c>> PROVE Meta' = c /\ Versions' = {c}
  BY <1>1, OneIs DEF Meta, Versions
<1>2. ASSUME NEW c \in MetaState, metas' = Append(metas, c)
      PROVE  Meta' = c /\ Versions' = Versions \cup {c}
  BY <1>2, AppendIs DEF Meta, Versions, Types
<1> QED
  BY <1>1, <1>2 DEF Meta, Versions

\* Of the metadata, the queue depends on the apply state, the state of the
\* replica and the commit index.
LEMMA QueueFrame ==
    ASSUME NEW js, NEW d, NEW r \in Nat, NEW m \in MetaState, NEW c \in MetaState,
           goodQueue(js, d, r, m), c.applied = m.applied, c.trunc = m.trunc,
           c.state = m.state, m.commit <= c.commit
    PROVE  goodQueue(js, d, r, c)
<1>1. r <= c.commit
  BY MetaFields DEF goodQueue
<1> QED
  BY <1>1 DEF goodQueue, registers, snapshots

\* A job that neither applies entries nor registers is done.
LEMMA QueueTail ==
    ASSUME NEW js \in Seq(Job), js # <<>>, NEW d, NEW r \in 0 .. MaxIndex,
           NEW m \in MetaState, goodQueue(js, d, r, m),
           js[1].kind \in {"compact", "snapshot"}
    PROVE  goodQueue(Tail(js), d, r, m)
<1>1. m.applied \in 0 .. MaxIndex
  BY DEF MetaState
<1>2. hasPlan(Tail(js), m.applied, r)
  BY <1>1, PlanTail DEF goodQueue
<1> QED
  BY <1>2, ShapeTail DEF goodQueue

\* The jobs in the queue, the delegate and the metadata when the store runs.
LEMMA QueueIs ==
    ASSUME StorageInv, running
    PROVE  /\ alive /\ jobs \in Seq(Job) /\ lastReady \in 0 .. MaxIndex /\ lastReady \in Nat
           /\ Meta \in MetaState /\ goodQueue(jobs, delegate, lastReady, Meta)
<1>1. Types /\ alive /\ goodQueue(jobs, delegate, lastReady, Meta)
  BY DEF StorageInv, QueueInv, running
<1>2. jobs \in Seq(Job) /\ lastReady \in 0 .. MaxIndex
  BY <1>1 DEF Types
<1>3. lastReady \in Nat
  BY <1>2, BoundsAssumption
<1> QED
  BY <1>1, <1>2, <1>3, Current

\* Committed entries are queued after those that were queued before.
LEMMA ReadyQueue ==
    ASSUME StorageInv, NEW from \in 1 .. MaxIndex + 1, NEW last \in 0 .. MaxIndex,
           NEW n \in from - 1 .. last, NEW commit \in Meta.commit .. last,
           HandleReady(from, last, n, commit)
    PROVE  QueueInv'
<1> DEFINE j == [kind |-> "apply", from |-> lastReady + 1, to |-> commit]
           c == readyMeta(from, last, n, commit)
<1>1. /\ alive /\ jobs \in Seq(Job) /\ lastReady \in 0 .. MaxIndex /\ lastReady \in Nat
      /\ Meta \in MetaState /\ goodQueue(jobs, delegate, lastReady, Meta)
  BY QueueIs DEF HandleReady
<1>2. /\ alive' /\ delegate' = delegate /\ applyCommittedEntries(commit)
  BY <1>1 DEF HandleReady
<1>3. /\ ReadyIs(from, last, n, commit) /\ c \in MetaState
      /\ \/ metas' = <<c>>
         \/ metas' = metas /\ commit = Meta.commit
  BY ReadyFacts
<1>4. /\ c.commit = commit /\ c.applied = Meta.applied /\ c.trunc = Meta.trunc
      /\ c.state = Meta.state
  BY <1>1 DEF readyMeta, MetaState
<1> HIDE DEF c
<1>5. Types
  BY DEF StorageInv
<1>6. Meta' \in {c, Meta}
  BY <1>3, <1>5, MetaWritten
<1>7. /\ Meta' \in MetaState /\ Meta'.commit = commit /\ Meta'.applied = Meta.applied
      /\ Meta'.trunc = Meta.trunc /\ Meta'.state = Meta.state
  BY <1>1, <1>3, <1>4, <1>5, <1>6, MetaWritten
<1>8. Meta.commit <= commit /\ commit \in 0 .. MaxIndex
  BY <1>3 DEF ReadyIs
<1>9. goodQueue(jobs, delegate, lastReady, Meta')
  BY <1>1, <1>7, <1>8, QueueFrame
<1>10. CASE delegate # NoDelegate /\ commit > lastReady
  <2>1. jobs' = Append(jobs, j) /\ lastReady' = commit
    BY <1>2, <1>10 DEF applyCommittedEntries
  <2>2. j \in Job /\ j.kind = "apply" /\ j.from = lastReady + 1 /\ j.to = commit /\ j.from <= j.to
    BY <1>1, <1>8, <1>10, BoundsAssumption DEF Job
  <2> HIDE DEF j
  <2>3. Meta'.applied \in 0 .. MaxIndex
    BY <1>7 DEF MetaState
  <2>4. hasPlan(jobs', Meta'.applied, commit)
    BY <1>1, <1>8, <1>9, <2>1, <2>2, <2>3, PlanAppend DEF goodQueue
  <2>5. /\ appliesLast(jobs') /\ registers(jobs', Meta') /\ snapshots(jobs', Meta')
        /\ none(jobs', "register") => none(jobs, "register")
    BY <1>1, <1>9, <2>1, <2>2, ShapeAppend DEF goodQueue
  <2>6. commit <= Meta'.commit
    BY <1>7, <1>8, BoundsAssumption
  <2>7. goodQueue(jobs', delegate', lastReady', Meta')
    BY <1>2, <1>9, <2>1, <2>4, <2>5, <2>6 DEF goodQueue
  <2> QED
    BY <1>2, <2>7 DEF QueueInv
<1>11. CASE ~(delegate # NoDelegate /\ commit > lastReady)
  <2>1. jobs' = jobs /\ lastReady' = lastReady
    BY <1>2, <1>11 DEF applyCommittedEntries
  <2> QED
    BY <1>2, <1>9, <2>1 DEF QueueInv
<1> QED
  BY <1>10, <1>11

\* A snapshot is queued with its registration when nothing is to be applied.
LEMMA TakeOverQueue ==
    ASSUME StorageInv, NEW s \in Indexes, NEW last \in Indexes, NEW n \in s .. last,
           NEW commit \in s .. last, SnapshotReady(s, last, n, commit)
    PROVE  QueueInv'
<1> DEFINE m == takenMeta(s, last, n, commit)
           snap == [kind |-> "snapshot", from |-> s, to |-> s]
           reg == [kind |-> "register", from |-> s, to |-> s]
           js == Append(jobs, snap)
<1>1. /\ m \in MetaState /\ metas' = <<m>> /\ s \in 0 .. MaxIndex
      /\ snap \in Job /\ reg \in Job /\ js \in Seq(Job) /\ jobs' = Append(js, reg)
      /\ none(jobs, "apply") /\ none(jobs, "snapshot") /\ alive
      /\ m.applied = s /\ m.trunc = s /\ m.state = "applying" /\ m.commit = commit
      /\ s <= commit
  <2>1. /\ m \in MetaState /\ metas' = <<m>> /\ s \in 0 .. MaxIndex
        /\ m.applied = s /\ m.trunc = s /\ m.state = "applying" /\ m.commit = commit
        /\ s <= commit
    BY TakenIs
  <2>2. /\ snap \in Job /\ reg \in Job /\ js \in Seq(Job) /\ jobs' = Append(js, reg)
        /\ none(jobs, "apply") /\ none(jobs, "snapshot") /\ alive
    BY TakeOverFacts
  <2> QED
    BY <2>1, <2>2
<1>2. jobs \in Seq(Job) /\ Types
  BY DEF StorageInv, Types
<1>3. Meta' = m
  BY <1>1, <1>2, MetaWritten
<1>4. /\ snap.kind = "snapshot" /\ snap.from = s
      /\ reg.kind = "register" /\ reg.from = s /\ reg.to = s
  OBVIOUS
<1>5. alive' /\ lastReady' = s
  BY <1>1 DEF SnapshotReady
<1> HIDE DEF m, snap, reg
<1>6. none(js, "apply") /\ snapshots(js, m)
  BY <1>1, <1>2, <1>4, ShapeAppend
<1> HIDE DEF js
<1>7. /\ jobs' \in Seq(Job) /\ none(jobs', "apply") /\ snapshots(jobs', m)
      /\ registers(jobs', m) /\ ~none(jobs', "register")
  BY <1>1, <1>4, <1>6, ShapeAppend
<1>8. hasPlan(jobs', s, s)
  BY <1>1, <1>7, PlanIdle
<1>9. appliesLast(jobs')
  BY <1>7 DEF appliesLast, none
<1>10. goodQueue(jobs', delegate', lastReady', m)
  BY <1>1, <1>5, <1>7, <1>8, <1>9 DEF goodQueue
<1> QED
  BY <1>3, <1>5, <1>10 DEF QueueInv

\* After a restart the queue begins with what is on disk.
LEMMA RestartQueue ==
    ASSUME StorageInv, Restart
    PROVE  QueueInv'
<1> DEFINE reg == [kind |-> "register", from |-> Meta.applied, to |-> Meta.trunc]
           snap == [kind |-> "snapshot", from |-> Meta.trunc, to |-> Meta.trunc]
<1>1. /\ reg \in Job /\ snap \in Job
      /\ jobs' = IF Meta.state = "applying" THEN Append(<<snap>>, reg) ELSE <<reg>>
      /\ lastReady' = Meta.applied
  BY RestartFacts
<1>2. /\ alive' /\ metas' = metas /\ delegate' = delegate
  BY DEF Restart, diskVars
<1>3. Types /\ Meta \in MetaState /\ Meta.applied \in 0 .. MaxIndex /\ Meta.applied <= Meta.commit
  BY Current, CurrentGood DEF StorageInv, MetaState
<1>4. Meta' = Meta
  BY <1>2, <1>3, MetaWritten
<1>5. /\ snap.kind = "snapshot" /\ snap.from = Meta.trunc
      /\ reg.kind = "register" /\ reg.from = Meta.applied /\ reg.to = Meta.trunc
  OBVIOUS
<1> HIDE DEF reg, snap
<1>6. ASSUME NEW js \in Seq(Job), jobs' = Append(js, reg), none(js, "apply"), snapshots(js, Meta)
      PROVE  goodQueue(jobs', delegate', lastReady', Meta)
  <2>1. /\ jobs' \in Seq(Job) /\ none(jobs', "apply") /\ snapshots(jobs', Meta)
        /\ registers(jobs', Meta) /\ ~none(jobs', "register")
    <3>1. reg \in Job
      BY <1>1
    <3> QED
      BY <1>5, <1>6, <3>1, ShapeAppend
  <2>2. hasPlan(jobs', Meta.applied, Meta.applied)
    BY <1>3, <2>1, PlanIdle
  <2>3. appliesLast(jobs')
    BY <2>1 DEF appliesLast, none
  <2> QED
    BY <1>1, <1>3, <2>1, <2>2, <2>3 DEF goodQueue
<1>7. <<>> \in Seq(Job) /\ Append(<<>>, reg) = <<reg>> /\ Append(<<>>, snap) = <<snap>>
  BY <1>1
<1>8. none(<<>>, "apply") /\ none(<<>>, "snapshot") /\ snapshots(<<>>, Meta)
  BY DEF none, snapshots
<1>9. CASE Meta.state = "applying"
  <2>1. <<snap>> \in Seq(Job) /\ none(<<snap>>, "apply") /\ snapshots(<<snap>>, Meta)
    <3>1. snap \in Job
      BY <1>1
    <3>2. LET t == Append(<<>>, snap) IN
          t \in Seq(Job) /\ none(t, "apply") /\ snapshots(t, Meta)
      BY <1>5, <1>7, <1>8, <1>9, <3>1, ShapeAppend
    <3> QED
      BY <1>7, <3>2
  <2> QED
    BY <1>1, <1>2, <1>4, <1>6, <1>9, <2>1 DEF QueueInv
<1>10. CASE Meta.state # "applying"
  BY <1>1, <1>2, <1>4, <1>6, <1>7, <1>8, <1>10 DEF QueueInv
<1> QED
  BY <1>9, <1>10

\* At the start the registration is queued.
LEMMA InitQueue == Init => QueueInv
<1> SUFFICES ASSUME Init PROVE QueueInv
  OBVIOUS
<1> DEFINE c == [state |-> "normal", last |-> 0, commit |-> 0, applied |-> 0,
                 trunc |-> 0, log |-> emptyLog]
           reg == [kind |-> "register", from |-> 0, to |-> 0]
<1>1. metas = <<c>> /\ jobs = <<reg>> /\ alive /\ lastReady = 0
  BY DEF Init
<1>2. Meta = c
  BY <1>1, OneIs DEF Meta
<1>3. /\ c.applied = 0 /\ c.trunc = 0 /\ c.commit = 0
      /\ reg.kind = "register" /\ reg.from = 0 /\ reg.to = 0
  OBVIOUS
<1> HIDE DEF c
<1>4. Len(jobs) = 1 /\ jobs[1] = reg /\ 0 \in 0 .. MaxIndex /\ reg \in Job
  BY <1>1, BoundsAssumption DEF Job
<1>5. jobs \in Seq(Job)
  BY <1>1, <1>4, OneIs
<1> HIDE DEF reg
<1>6. \A k \in 1 .. Len(jobs) : jobs[k] = reg
  BY <1>4
<1>7. none(jobs, "apply") /\ appliesLast(jobs) /\ registers(jobs, c) /\ snapshots(jobs, c)
  BY <1>3, <1>6 DEF none, appliesLast, registers, snapshots
<1>8. ~none(jobs, "register")
  BY <1>3, <1>4 DEF none
<1>9. hasPlan(jobs, 0, 0)
  BY <1>4, <1>5, <1>7, PlanIdle
<1>10. goodQueue(jobs, delegate, lastReady, c)
  BY <1>1, <1>3, <1>7, <1>8, <1>9 DEF goodQueue
<1> QED
  BY <1>1, <1>2, <1>10 DEF QueueInv

\* The queue always continues the state on disk.
LEMMA NextQueue ==
    ASSUME StorageInv, Next
    PROVE  QueueInv'
<1>0. Types
  BY DEF StorageInv
<1>1. CASE \E from \in 1 .. MaxIndex + 1, last \in 0 .. MaxIndex :
             \E n \in from - 1 .. last, commit \in Meta.commit .. last :
                HandleReady(from, last, n, commit)
  BY <1>1, ReadyQueue
<1>2. CASE \E s \in Indexes, last \in Indexes :
             \E n \in s .. last, commit \in s .. last : SnapshotReady(s, last, n, commit)
  BY <1>2, TakeOverQueue
<1>3. CASE Restart
  BY <1>3, RestartQueue
<1>4. CASE Crash
  BY <1>4 DEF Crash, QueueInv
<1>5. CASE \/ \E s \in Indexes : RecvSnapshot(s) \/ ReceiveFile(s) \/ GCFile(s)
           \/ ApplyData \/ SnapshotRemove \/ SnapshotInstall \/ SnapshotClean
  <2>1. running /\ UNCHANGED <<metas, alive, lastReady, jobs, delegate>>
    BY <1>5 DEF RecvSnapshot, ReceiveFile, GCFile, ApplyData, SnapshotRemove,
                SnapshotInstall, SnapshotClean, applying, runs, diskVars, loopVars, workerVars
  <2>2. alive /\ goodQueue(jobs, delegate, lastReady, Meta) /\ Meta' = Meta
    BY <1>0, <2>1, QueueIs, MetaWritten
  <2> QED
    BY <2>1, <2>2 DEF QueueInv
<1>6. CASE PostApply
  <2>1. running /\ UNCHANGED <<metas, alive, lastReady, delegate>>
    BY <1>6 DEF PostApply, diskVars
  <2>2. /\ alive /\ goodQueue(jobs, delegate, lastReady, Meta) /\ Meta' = Meta
        /\ jobs \in Seq(Job) /\ lastReady \in 0 .. MaxIndex /\ Meta \in MetaState
    BY <1>0, <2>1, QueueIs, MetaWritten
  <2>3. \/ jobs' = jobs
        \/ \E j \in Job : j.kind = "compact" /\ jobs' = Append(jobs, j)
    BY <1>6, PostFacts
  <2>4. ASSUME NEW j \in Job, j.kind = "compact", jobs' = Append(jobs, j)
        PROVE  goodQueue(jobs', delegate, lastReady, Meta)
    <3>1. Meta.applied \in 0 .. MaxIndex
      BY <2>2 DEF MetaState
    <3>2. hasPlan(jobs', Meta.applied, lastReady)
      BY <2>2, <2>4, <3>1, PlanAppend DEF goodQueue
    <3> QED
      BY <2>2, <2>4, <3>2, ShapeAppend DEF goodQueue
  <2> QED
    BY <2>1, <2>2, <2>3, <2>4 DEF QueueInv
<1>7. CASE Register
  <2>1. /\ running /\ runs("register") /\ jobs' = Tail(jobs)
        /\ delegate' = [applied |-> Head(jobs).from, trunc |-> Head(jobs).to]
        /\ UNCHANGED <<metas, alive, lastReady>>
    BY <1>7 DEF Register, diskVars, loopVars, runs
  <2>2. /\ alive /\ goodQueue(jobs, delegate, lastReady, Meta) /\ Meta' = Meta
        /\ jobs \in Seq(Job) /\ lastReady \in 0 .. MaxIndex /\ Meta \in MetaState
    BY <1>0, <2>1, QueueIs, MetaWritten
  <2>3. /\ jobs # <<>> /\ Head(jobs) = jobs[1] /\ jobs[1].kind = "register"
        /\ 1 \in 1 .. Len(jobs)
    BY <2>1, HeadIs
  <2>4. Meta.applied \in 0 .. MaxIndex
    BY <2>2 DEF MetaState
  <2>5. hasPlan(jobs', Meta.applied, lastReady)
    BY <2>1, <2>2, <2>3, <2>4, PlanTail DEF goodQueue
  <2>6. appliesLast(jobs') /\ registers(jobs', Meta) /\ snapshots(jobs', Meta)
    BY <2>1, <2>2, <2>3, ShapeTail DEF goodQueue
  <2>7. ASSUME none(jobs', "register")
        PROVE  delegate' = [applied |-> Meta.applied, trunc |-> Meta.trunc]
    <3>1. /\ Len(Tail(jobs)) = Len(jobs) - 1 /\ Len(jobs) \in Nat
          /\ \A k \in 1 .. Len(jobs) - 1 : Tail(jobs)[k] = jobs[k + 1]
      BY <2>2, <2>3, TailIs
    <3>2. ASSUME NEW l \in 1 .. Len(jobs), 1 < l PROVE jobs[l].kind # "register"
      <4>1. l - 1 \in 1 .. Len(jobs) - 1 /\ (l - 1) + 1 = l
        BY <3>1, <3>2
      <4> QED
        BY <2>1, <2>7, <3>1, <4>1 DEF none
    <3>3. jobs[1].from = Meta.applied /\ jobs[1].to = Meta.trunc
      BY <2>2, <2>3, <3>2 DEF goodQueue, registers
    <3> QED
      BY <2>1, <2>3, <3>3
  <2>8. goodQueue(jobs', delegate', lastReady, Meta)
    BY <2>2, <2>5, <2>6, <2>7 DEF goodQueue
  <2> QED
    BY <2>1, <2>2, <2>8 DEF QueueInv
<1>8. CASE ApplyEmpty \/ ApplyMeta
  <2>1. runs("apply") /\ nextEntry /\ UNCHANGED <<alive, lastReady>>
    BY <1>8 DEF ApplyEmpty, ApplyMeta, applying, loopVars
  <2>2. /\ Meta'.applied = Meta.applied + 1 /\ Meta'.commit = Meta.commit
        /\ delegate' = [applied |-> Meta'.applied, trunc |-> Meta'.trunc]
    <3>1. Meta \in MetaState
      BY <1>0, Current
    <3>2. CASE ApplyEmpty
      <4> DEFINE m == [Meta EXCEPT !.applied = Meta.applied + 1]
      <4>1. /\ m \in MetaState /\ metas' = Append(metas, m)
            /\ delegate' = [applied |-> m.applied, trunc |-> m.trunc]
        BY <3>2, EmptyFacts
      <4>2. Meta' = m
        BY <1>0, <4>1, MetaWritten
      <4> QED
        BY <3>1, <4>1, <4>2 DEF MetaState
    <3>3. CASE ApplyMeta
      <4>1. PICK to \in 0 .. MaxIndex :
              LET m == [Meta EXCEPT !.applied = Meta.applied + 1, !.trunc = to] IN
              /\ m \in MetaState /\ metas' = <<m>>
              /\ delegate' = [applied |-> m.applied, trunc |-> m.trunc]
        BY <3>3, CommandFacts
      <4> DEFINE m == [Meta EXCEPT !.applied = Meta.applied + 1, !.trunc = to]
      <4>2. Meta' = m
        BY <1>0, <4>1, MetaWritten
      <4> QED
        BY <3>1, <4>1, <4>2 DEF MetaState
    <3> QED
      BY <1>8, <3>2, <3>3
  <2>3. /\ alive /\ goodQueue(jobs, delegate, lastReady, Meta)
    BY <2>1, HeadIs
  <2>4. /\ jobs' \in Seq(Job) /\ hasPlan(jobs', Meta'.applied, lastReady)
        /\ appliesLast(jobs') /\ registers(jobs', Meta') /\ snapshots(jobs', Meta')
    BY <2>1, <2>2, NextEntryFacts
  <2>5. goodQueue(jobs', delegate', lastReady', Meta')
    BY <2>1, <2>2, <2>3, <2>4 DEF goodQueue
  <2> QED
    BY <2>1, <2>3, <2>5 DEF QueueInv
<1>9. CASE CompactRaftLog \/ SnapshotDone \/ SnapshotMissing \/ SnapshotFails
  <2>1. /\ running /\ jobs # <<>> /\ jobs' = Tail(jobs)
        /\ UNCHANGED <<alive, lastReady, delegate>>
    BY <1>9 DEF CompactRaftLog, SnapshotDone, SnapshotMissing, SnapshotFails, runs, loopVars
  <2>2. /\ alive /\ goodQueue(jobs, delegate, lastReady, Meta) /\ Meta \in MetaState
        /\ jobs \in Seq(Job) /\ lastReady \in 0 .. MaxIndex /\ lastReady \in Nat
    BY <2>1, QueueIs
  <2>3. jobs[1].kind \in {"compact", "snapshot"}
    BY <1>9, HeadIs DEF CompactRaftLog, SnapshotDone, SnapshotMissing, SnapshotFails
  <2>4. goodQueue(Tail(jobs), delegate, lastReady, Meta)
    BY <2>1, <2>2, <2>3, QueueTail
  <2>5. CASE CompactRaftLog
    <3>1. PICK log \in Log : /\ [Meta EXCEPT !.log = log] \in MetaState
                             /\ \/ metas' = Append(metas, [Meta EXCEPT !.log = log])
                                \/ metas' = metas
      BY <2>5, CompactFacts
    <3>2. Meta' = [Meta EXCEPT !.log = log] \/ Meta' = Meta
      BY <1>0, <3>1, MetaWritten
    <3>3. /\ Meta' \in MetaState /\ Meta'.applied = Meta.applied /\ Meta'.trunc = Meta.trunc
          /\ Meta'.state = Meta.state /\ Meta'.commit = Meta.commit /\ Meta.commit \in Nat
      BY <2>2, <3>1, <3>2, MetaFields DEF MetaState
    <3>4. Meta.commit <= Meta'.commit
      BY <3>3
    <3>5. goodQueue(Tail(jobs), delegate, lastReady, Meta')
      BY <2>2, <2>4, <3>3, <3>4, QueueFrame
    <3> QED
      BY <2>1, <2>2, <3>5 DEF QueueInv
  <2>6. CASE SnapshotDone
    <3> DEFINE c == [Meta EXCEPT !.state = "normal"]
    <3>1. c \in MetaState /\ metas' = <<c>>
      BY <2>2, <2>6 DEF MetaState, SnapshotDone, writeSync
    <3>2. Meta' = c
      BY <1>0, <3>1, MetaWritten
    <3>3. /\ c.applied = Meta.applied /\ c.trunc = Meta.trunc /\ c.commit = Meta.commit
      BY <2>2 DEF MetaState
    <3>4. none(Tail(jobs), "snapshot")
      BY <2>6, SnapshotFacts DEF SnapshotDone
    <3> HIDE DEF c
    <3>5. goodQueue(Tail(jobs), delegate, lastReady, c)
      BY <2>4, <3>3, <3>4 DEF goodQueue, registers, snapshots, none
    <3> QED
      BY <2>1, <2>2, <3>2, <3>5 DEF QueueInv
  <2>7. CASE SnapshotMissing \/ SnapshotFails
    <3>1. Meta' = Meta
      BY <1>0, <2>7, MetaWritten DEF SnapshotMissing, SnapshotFails, diskVars
    <3> QED
      BY <2>1, <2>2, <2>4, <3>1 DEF QueueInv
  <2> QED
    BY <1>9, <2>5, <2>6, <2>7
<1> QED
  BY <1>1, <1>2, <1>3, <1>4, <1>5, <1>6, <1>7, <1>8, <1>9 DEF Next, Worker

----------------------------------------------------------------------------
(* StepInv.                                                                *)

\* The first job stays the first when others are queued.
LEMMA SameHead ==
    ASSUME Types, StepInv, agreed' = agreed, step' = step,
           jobs' = jobs \/ \E j \in Job : jobs' = Append(jobs, j)
    PROVE  StepInv'
<1>1. jobs \in Seq(Job)
  BY DEF Types
<1>2. jobs # <<>> => jobs' # <<>> /\ jobs'[1] = jobs[1]
  BY <1>1, ShapeAppend
<1> QED
  BY <1>2 DEF StepInv, goodStep

\* The step belongs to the first job.
LEMMA NextStep ==
    ASSUME StorageInv, Next
    PROVE  StepInv'
<1>0. Types /\ StepInv
  BY DEF StorageInv
<1>1. ASSUME NEW from \in 1 .. MaxIndex + 1, NEW last \in 0 .. MaxIndex,
             NEW n \in from - 1 .. last, NEW commit \in Meta.commit .. last,
             HandleReady(from, last, n, commit)
      PROVE  StepInv'
  <2>1. ReadyIs(from, last, n, commit) /\ lastReady \in 0 .. MaxIndex
    BY <1>0, <1>1, ReadyFacts DEF Types
  <2>2. commit > lastReady =>
          [kind |-> "apply", from |-> lastReady + 1, to |-> commit] \in Job
    BY <2>1, BoundsAssumption DEF ReadyIs, Job
  <2>3. jobs' = jobs \/ \E j \in Job : jobs' = Append(jobs, j)
    BY <1>1, <2>2 DEF HandleReady, applyCommittedEntries
  <2> QED
    BY <1>0, <1>1, <2>3, SameHead DEF HandleReady
<1>2. CASE \/ \E s \in Indexes : RecvSnapshot(s) \/ ReceiveFile(s) \/ GCFile(s)
           \/ PostApply
  <2>1. agreed' = agreed /\ step' = step
    BY <1>2 DEF RecvSnapshot, ReceiveFile, GCFile, PostApply, workerVars
  <2>2. jobs' = jobs \/ \E j \in Job : jobs' = Append(jobs, j)
    BY <1>2, PostFacts DEF RecvSnapshot, ReceiveFile, GCFile, workerVars
  <2> QED
    BY <1>0, <2>1, <2>2, SameHead
<1>3. ASSUME step' = "start" PROVE StepInv'
  BY <1>3 DEF StepInv, goodStep
<1>4. CASE \E s \in Indexes, last \in Indexes :
             \E n \in s .. last, commit \in s .. last : SnapshotReady(s, last, n, commit)
  <2>1. step = "start"
    BY <1>4, TakeOverFacts
  <2>2. step' = step
    BY <1>4 DEF SnapshotReady
  <2> QED
    BY <1>3, <2>1, <2>2
<1>5. CASE Register \/ CompactRaftLog
  <2>1. jobs[1].kind \in {"register", "compact"} /\ step' = step
    BY <1>5, HeadIs DEF Register, CompactRaftLog
  <2>2. step = "start"
    BY <1>0, <2>1 DEF StepInv, goodStep, Types
  <2> QED
    BY <1>3, <2>1, <2>2
<1>6. CASE ApplyEmpty
  <2>1. /\ jobs[1].kind = "apply" /\ agreed[jobs[1].from].kind = "empty" /\ step' = step
    BY <1>6, HeadIs DEF ApplyEmpty, applying
  <2>2. step = "start"
    BY <1>0, <2>1 DEF StepInv, goodStep, Types
  <2> QED
    BY <1>3, <2>1, <2>2
<1>7. CASE ApplyData
  <2>1. /\ jobs[1].kind = "apply" /\ jobs # <<>> /\ jobs' = jobs /\ agreed' = agreed
        /\ agreed[jobs[1].from].kind \in {"write", "compact"} /\ step' = "written"
    BY <1>7, HeadIs DEF ApplyData, applying
  <2> QED
    BY <2>1 DEF StepInv, goodStep
<1>8. CASE ApplyMeta \/ SnapshotDone \/ SnapshotMissing \/ SnapshotFails \/ Crash
  BY <1>3, <1>8 DEF ApplyMeta, SnapshotDone, SnapshotMissing, SnapshotFails, Crash
<1>9. CASE SnapshotRemove \/ SnapshotInstall \/ SnapshotClean
  <2>1. /\ jobs[1].kind = "snapshot" /\ jobs # <<>> /\ jobs' = jobs
        /\ step' \in {"removed", "installed", "cleaned"}
    BY <1>9, HeadIs DEF SnapshotRemove, SnapshotInstall, SnapshotClean
  <2> QED
    BY <2>1 DEF StepInv, goodStep
<1>10. CASE Restart
  <2>1. step = "start" /\ step' = step
    BY <1>10, RestartFacts DEF Restart
  <2> QED
    BY <1>3, <2>1
<1> QED
  BY <1>1, <1>2, <1>4, <1>5, <1>6, <1>7, <1>8, <1>9, <1>10 DEF Next, Worker

----------------------------------------------------------------------------
(* ViewInv.                                                                *)

\* A result is reported.
LEMMA ResultsAppend ==
    ASSUME NEW p \in ApplyState, NEW rs \in Seq(Result), NEW m \in MetaState,
           NEW c \in MetaState, NEW r \in Result, goodResults(p, rs, m),
           r.state.applied = m.applied + 1, c.applied = m.applied + 1,
           m.trunc <= r.state.trunc, c.trunc = r.state.trunc,
           r.first > 0 => r.first < r.state.trunc /\ r.state.trunc < r.state.applied
    PROVE  goodResults(p, Append(rs, r), c)
<1> DEFINE t == Append(rs, r)
<1>1. /\ t \in Seq(Result) /\ Len(t) = Len(rs) + 1 /\ Len(rs) \in Nat
      /\ \A k \in 1 .. Len(rs) : t[k] = rs[k]
      /\ t[Len(rs) + 1] = r
  BY AppendElements
<1> HIDE DEF t
<1>2. /\ p.applied \in Nat /\ p.trunc \in Nat /\ m.applied \in Nat /\ m.trunc \in Nat
      /\ c.trunc \in Nat
  BY MetaFields, BoundsAssumption DEF ApplyState
<1>3. \A k \in 1 .. Len(rs) : rs[k].state.trunc \in Nat
  <2> TAKE k \in 1 .. Len(rs)
  <2>1. rs[k] \in Result
    OBVIOUS
  <2>2. rs[k].state \in ApplyState
    BY <2>1 DEF Result
  <2> QED
    BY <2>2, BoundsAssumption DEF ApplyState
<1>4. p.applied + Len(t) = c.applied /\ p.trunc <= c.trunc
  <2>1. p.applied + Len(rs) = m.applied /\ p.trunc <= m.trunc
    BY DEF goodResults
  <2>2. p.applied + (Len(rs) + 1) = m.applied + 1
    <3>1. \A a, b \in Nat : a + (b + 1) = (a + b) + 1
      OBVIOUS
    <3>2. Len(rs) \in Nat /\ p.applied \in Nat
      BY <1>1, <1>2
    <3>3. p.applied + (Len(rs) + 1) = (p.applied + Len(rs)) + 1
      BY <3>1, <3>2
    <3> QED
      BY <2>1, <3>3
  <2>3. p.trunc <= c.trunc
    BY <1>2, <2>1
  <2> QED
    BY <1>1, <2>2, <2>3
<1>5. ASSUME NEW k \in 1 .. Len(t)
      PROVE  /\ t[k].state.applied = p.applied + k
             /\ p.trunc <= t[k].state.trunc /\ t[k].state.trunc <= c.trunc
             /\ t[k].first > 0 => /\ t[k].first < t[k].state.trunc
                                  /\ t[k].state.trunc < t[k].state.applied
             /\ \A l \in 1 .. Len(t) : k < l => t[k].state.trunc <= t[l].state.trunc
  <2>1. CASE k \in 1 .. Len(rs)
    <3>1. t[k] = rs[k] /\ rs[k].state.trunc \in Nat /\ rs[k].state.trunc <= m.trunc
      BY <1>1, <1>3, <2>1 DEF goodResults
    <3>2. rs[k].state.trunc <= c.trunc
      BY <1>2, <3>1
    <3>3. ASSUME NEW l \in 1 .. Len(t), k < l PROVE t[k].state.trunc <= t[l].state.trunc
      <4>1. CASE l \in 1 .. Len(rs)
        <5>1. t[l] = rs[l]
          BY <1>1, <4>1
        <5> QED
          BY <2>1, <3>1, <3>3, <4>1, <5>1 DEF goodResults
      <4>2. CASE l = Len(rs) + 1
        BY <1>1, <3>1, <3>2, <4>2
      <4> QED
        BY <1>1, <4>1, <4>2
    <3> QED
      BY <2>1, <3>1, <3>2, <3>3 DEF goodResults
  <2>2. CASE k = Len(rs) + 1
    <3>1. t[k] = r /\ \A l \in 1 .. Len(t) : ~(k < l)
      BY <1>1, <2>2
    <3>2. p.applied + k = c.applied /\ p.trunc <= c.trunc
      BY <1>1, <1>4, <2>2
    <3> QED
      BY <1>2, <3>1, <3>2
  <2> QED
    BY <1>1, <2>1, <2>2
<1>6. goodResults(p, t, c)
  BY <1>4, <1>5 DEF goodResults
<1> QED
  BY <1>6 DEF t

\* The event worker takes over the first result.
LEMMA ResultsTail ==
    ASSUME NEW p \in ApplyState, NEW rs \in Seq(Result), rs # <<>>, NEW m \in MetaState,
           goodResults(p, rs, m)
    PROVE  goodResults(rs[1].state, Tail(rs), m)
<1> DEFINE t == Tail(rs)
<1>1. /\ t \in Seq(Result) /\ Len(t) = Len(rs) - 1 /\ Len(rs) \in Nat /\ Len(rs) > 0
      /\ \A k \in 1 .. Len(rs) - 1 : t[k] = rs[k + 1]
  BY TailIs
<1> HIDE DEF t
<1>2. p.applied \in Nat /\ 1 \in 1 .. Len(rs)
  BY <1>1, BoundsAssumption DEF ApplyState
<1>3. rs[1].state.applied = p.applied + 1 /\ rs[1].state.trunc <= m.trunc
  BY <1>2 DEF goodResults
<1>4. rs[1].state.applied + Len(t) = m.applied
  BY <1>1, <1>2, <1>3 DEF goodResults
<1>5. ASSUME NEW k \in 1 .. Len(t)
      PROVE  /\ t[k].state.applied = rs[1].state.applied + k
             /\ rs[1].state.trunc <= t[k].state.trunc /\ t[k].state.trunc <= m.trunc
             /\ t[k].first > 0 => /\ t[k].first < t[k].state.trunc
                                  /\ t[k].state.trunc < t[k].state.applied
             /\ \A l \in 1 .. Len(t) : k < l => t[k].state.trunc <= t[l].state.trunc
  <2>1. k + 1 \in 1 .. Len(rs) /\ 1 < k + 1 /\ t[k] = rs[k + 1]
    BY <1>1
  <2>2. /\ t[k].state.applied = p.applied + (k + 1)
        /\ rs[1].state.trunc <= t[k].state.trunc /\ t[k].state.trunc <= m.trunc
        /\ t[k].first > 0 => /\ t[k].first < t[k].state.trunc
                             /\ t[k].state.trunc < t[k].state.applied
    BY <1>2, <2>1 DEF goodResults
  <2>3. p.applied + (k + 1) = rs[1].state.applied + k
    BY <1>2, <1>3
  <2>4. ASSUME NEW l \in 1 .. Len(t), k < l PROVE t[k].state.trunc <= t[l].state.trunc
    <3>1. l + 1 \in 1 .. Len(rs) /\ k + 1 < l + 1 /\ t[l] = rs[l + 1]
      BY <1>1, <2>4
    <3> QED
      BY <2>1, <3>1 DEF goodResults
  <2> QED
    BY <2>2, <2>3, <2>4
<1>6. goodResults(rs[1].state, t, m)
  BY <1>3, <1>4, <1>5 DEF goodResults
<1> QED
  BY <1>6 DEF t

\* The event worker's view when the store runs.
LEMMA ViewIs ==
    ASSUME StorageInv, alive
    PROVE  /\ goodResults(ps, results, Meta) /\ compacts(jobs, ps) /\ readable(ps, Meta)
           /\ ps \in ApplyState /\ results \in Seq(Result) /\ jobs \in Seq(Job)
           /\ Meta \in MetaState /\ ps.trunc \in Nat /\ ps.applied \in Nat
<1>1. goodResults(ps, results, Meta) /\ compacts(jobs, ps) /\ readable(ps, Meta)
  BY DEF StorageInv, ViewInv
<1>2. ps \in ApplyState /\ results \in Seq(Result) /\ jobs \in Seq(Job)
  BY DEF StorageInv, Types
<1>3. Meta \in MetaState
  BY Current DEF StorageInv
<1>4. ps.trunc \in Nat /\ ps.applied \in Nat
  BY <1>2, BoundsAssumption DEF ApplyState
<1> QED
  BY <1>1, <1>2, <1>3, <1>4

\* At the start the log is empty.
LEMMA InitView == Init => ViewInv
<1> SUFFICES ASSUME Init PROVE ViewInv
  OBVIOUS
<1> DEFINE c == [state |-> "normal", last |-> 0, commit |-> 0, applied |-> 0,
                 trunc |-> 0, log |-> emptyLog]
           reg == [kind |-> "register", from |-> 0, to |-> 0]
<1>1. metas = <<c>> /\ jobs = <<reg>> /\ results = <<>> /\ ps = [applied |-> 0, trunc |-> 0]
  BY DEF Init
<1>2. Meta = c
  BY <1>1, OneIs DEF Meta
<1>3. goodResults(ps, results, Meta)
  BY <1>1, <1>2 DEF goodResults
<1>4. compacts(jobs, ps)
  BY <1>1 DEF compacts
<1>5. readable(ps, Meta)
  BY <1>1, <1>2 DEF readable
<1> QED
  BY <1>3, <1>4, <1>5 DEF ViewInv

\* The view depends on the apply state and the log on disk.
LEMMA ViewFrame ==
    ASSUME NEW p, NEW rs, NEW m, NEW c, c.applied = m.applied, c.trunc = m.trunc
    PROVE  goodResults(p, rs, m) => goodResults(p, rs, c)
BY DEF goodResults

\* The entries of a Ready leave no gap in the log.
LEMMA ReadyView ==
    ASSUME StorageInv, NEW from \in 1 .. MaxIndex + 1, NEW last \in 0 .. MaxIndex,
           NEW n \in from - 1 .. last, NEW commit \in Meta.commit .. last,
           HandleReady(from, last, n, commit)
    PROVE  ViewInv'
<1> DEFINE c == readyMeta(from, last, n, commit)
           new == doAppendEntries(Meta.log, from, last, n)
<1>1. /\ ReadyIs(from, last, n, commit) /\ c \in MetaState /\ alive
      /\ metas' = <<c>> \/ metas' = metas
  BY ReadyFacts
<1>2. /\ goodResults(ps, results, Meta) /\ compacts(jobs, ps) /\ readable(ps, Meta)
      /\ Meta \in MetaState /\ jobs \in Seq(Job) /\ ps.trunc \in Nat
  BY <1>1, ViewIs
<1>3. ps' = ps /\ results' = results
  BY DEF HandleReady
<1>4. /\ c.log = new /\ c.last = last /\ c.applied = Meta.applied /\ c.trunc = Meta.trunc
  BY <1>2 DEF readyMeta, MetaState
<1>5. \A i : i \in DOMAIN new <=> (i \in DOMAIN Meta.log /\ i < from) \/ i \in from .. last
  BY CurrentGood, AppendsToLog
<1> HIDE DEF c, new
<1>6. Types
  BY DEF StorageInv
<1>7. compacts(jobs', ps')
  <2>1. CASE delegate # NoDelegate /\ commit > lastReady
    <3> DEFINE j == [kind |-> "apply", from |-> lastReady + 1, to |-> commit]
    <3>1. jobs' = Append(jobs, j)
      BY <2>1 DEF HandleReady, applyCommittedEntries
    <3>2. j \in Job /\ j.kind # "compact"
      BY <1>1, <1>6, <2>1, BoundsAssumption DEF ReadyIs, Job, Types
    <3> HIDE DEF j
    <3> QED
      BY <1>2, <1>3, <3>1, <3>2, ShapeAppend
  <2>2. CASE ~(delegate # NoDelegate /\ commit > lastReady)
    BY <1>2, <1>3, <2>2 DEF HandleReady, applyCommittedEntries
  <2> QED
    BY <2>1, <2>2
<1>8. CASE metas' = <<c>>
  <2>1. Meta' = c
    BY <1>1, <1>6, <1>8, MetaWritten
  <2>2. ASSUME NEW i \in ps.trunc + 1 .. c.last PROVE i \in DOMAIN c.log
    <3>1. i \in Nat /\ i >= ps.trunc + 1 /\ i <= last
      BY <1>2, <1>4
    <3>2. CASE i < from
      <4>1. i \in ps.trunc + 1 .. Meta.last
        BY <1>1, <1>2, <3>1, <3>2, MetaFields DEF ReadyIs
      <4> QED
        BY <1>2, <1>4, <1>5, <3>2, <4>1 DEF readable
    <3>3. CASE ~(i < from)
      BY <1>4, <1>5, <3>1, <3>3
    <3> QED
      BY <3>2, <3>3
  <2>3. readable(ps', Meta')
    BY <1>3, <2>1, <2>2 DEF readable
  <2>4. goodResults(ps', results', Meta')
    BY <1>2, <1>3, <1>4, <2>1, ViewFrame
  <2> QED
    BY <1>7, <2>3, <2>4 DEF ViewInv
<1>9. CASE metas' = metas
  <2>1. Meta' = Meta
    BY <1>6, <1>9, MetaWritten
  <2> QED
    BY <1>2, <1>3, <1>7, <2>1 DEF ViewInv
<1> QED
  BY <1>1, <1>8, <1>9

\* The event worker's view stays behind the disk, and deletions behind the view.
LEMMA NextView ==
    ASSUME StorageInv, Next
    PROVE  ViewInv'
<1>0. Types
  BY DEF StorageInv
<1>1. CASE \E from \in 1 .. MaxIndex + 1, last \in 0 .. MaxIndex :
             \E n \in from - 1 .. last, commit \in Meta.commit .. last :
                HandleReady(from, last, n, commit)
  BY <1>1, ReadyView
<1>2. ASSUME NEW s \in Indexes, NEW last \in Indexes, NEW n \in s .. last,
             NEW commit \in s .. last, SnapshotReady(s, last, n, commit)
      PROVE  ViewInv'
  <2> DEFINE m == takenMeta(s, last, n, commit)
             snap == [kind |-> "snapshot", from |-> s, to |-> s]
             reg == [kind |-> "register", from |-> s, to |-> s]
             js == Append(jobs, snap)
  <2>1. /\ m \in MetaState /\ metas' = <<m>> /\ s \in 0 .. MaxIndex /\ alive /\ results = <<>>
        /\ snap \in Job /\ reg \in Job /\ js \in Seq(Job) /\ jobs' = Append(js, reg)
        /\ ps.trunc < s /\ m.applied = s /\ m.trunc = s /\ m.last = last
        /\ \A i \in s + 1 .. last : i \in DOMAIN m.log
    BY <1>2, TakenIs, TakeOverFacts
  <2> HIDE DEF m
  <2>2. ps' = [applied |-> s, trunc |-> s] /\ results' = <<>>
    BY <1>2, <2>1 DEF SnapshotReady
  <2>3. Meta' = m
    BY <1>0, <2>1, MetaWritten
  <2>4. goodResults(ps', results', Meta')
    BY <2>1, <2>2, <2>3, BoundsAssumption DEF goodResults
  <2>5. readable(ps', Meta')
    BY <2>1, <2>2, <2>3, BoundsAssumption DEF readable
  <2>6. compacts(jobs', ps')
    <3>1. compacts(jobs, ps) /\ ps.trunc \in Nat /\ jobs \in Seq(Job)
      BY <2>1, ViewIs
    <3>2. ps'.trunc = s /\ s \in Nat
      BY <2>1, <2>2, BoundsAssumption
    <3>3. ASSUME NEW k \in 1 .. Len(jobs), jobs[k].kind = "compact"
          PROVE  jobs[k].to <= ps'.trunc + 1
      <4>1. jobs[k] \in Job /\ jobs[k].to <= ps.trunc + 1
        BY <3>1, <3>3 DEF compacts
      <4>2. jobs[k].to \in Nat
        BY <4>1, BoundsAssumption DEF Job
      <4> QED
        BY <2>1, <3>1, <3>2, <4>1, <4>2
    <3>4. compacts(jobs, ps')
      BY <3>3 DEF compacts
    <3>5. snap.kind # "compact" /\ reg.kind # "compact"
      OBVIOUS
    <3> HIDE DEF snap, reg
    <3>6. compacts(js, ps')
      BY <2>1, <3>1, <3>4, <3>5, ShapeAppend
    <3> HIDE DEF js
    <3> QED
      BY <2>1, <3>5, <3>6, ShapeAppend
  <2> QED
    BY <2>4, <2>5, <2>6 DEF ViewInv
<1>3. CASE Crash
  BY <1>3 DEF Crash, ViewInv
<1>4. CASE Restart
  <2> DEFINE reg == [kind |-> "register", from |-> Meta.applied, to |-> Meta.trunc]
             snap == [kind |-> "snapshot", from |-> Meta.trunc, to |-> Meta.trunc]
  <2>1. /\ reg \in Job /\ snap \in Job
        /\ jobs' = IF Meta.state = "applying" THEN Append(<<snap>>, reg) ELSE <<reg>>
        /\ ps' = [applied |-> Meta.applied, trunc |-> Meta.trunc] /\ results = <<>>
    BY <1>4, RestartFacts
  <2>2. metas' = metas /\ results' = results
    BY <1>4 DEF Restart, diskVars
  <2>3. Meta' = Meta
    BY <1>0, <2>2, MetaWritten
  <2>4. goodResults(ps', results', Meta') /\ readable(ps', Meta')
    BY <2>1, <2>2, <2>3, CurrentGood DEF goodResults, readable
  <2>5. reg.kind # "compact" /\ snap.kind # "compact"
    OBVIOUS
  <2> HIDE DEF reg, snap
  <2>6. \A k \in 1 .. Len(jobs') : jobs'[k].kind # "compact"
    <3>1. CASE jobs' = <<reg>>
      BY <2>5, <3>1
    <3>2. CASE jobs' = Append(<<snap>>, reg)
      <4>1. Len(jobs') = 2 /\ jobs'[1] = snap /\ jobs'[2] = reg
        BY <3>2
      <4> QED
        BY <2>5, <4>1
    <3> QED
      BY <2>1, <3>1, <3>2
  <2>7. compacts(jobs', ps')
    BY <2>6 DEF compacts
  <2> QED
    BY <2>4, <2>7 DEF ViewInv
<1>5. CASE \/ \E s \in Indexes : RecvSnapshot(s) \/ ReceiveFile(s) \/ GCFile(s)
           \/ ApplyData \/ SnapshotRemove \/ SnapshotInstall \/ SnapshotClean
  <2>1. alive /\ UNCHANGED <<metas, ps, results, jobs>>
    BY <1>5 DEF RecvSnapshot, ReceiveFile, GCFile, ApplyData, SnapshotRemove,
                SnapshotInstall, SnapshotClean, applying, runs, running, diskVars, loopVars,
                workerVars
  <2>2. Meta' = Meta
    BY <1>0, <2>1, MetaWritten
  <2> QED
    BY <2>1, <2>2, ViewIs DEF ViewInv
<1>6. CASE PostApply
  <2> DEFINE r == results[1]
             j == compactJob(lastCompact, r.state.trunc)
  <2>1. /\ alive /\ results # <<>> /\ ps' = r.state /\ results' = Tail(results)
        /\ IF r.first > 0 THEN j \in Job /\ jobs' = Append(jobs, j) ELSE jobs' = jobs
        /\ j.kind = "compact" /\ j.to = r.state.trunc + 1 /\ r \in Result
    BY <1>6, PostFacts
  <2>2. metas' = metas
    BY <1>6 DEF PostApply, diskVars
  <2>3. Meta' = Meta
    BY <1>0, <2>2, MetaWritten
  <2>4. /\ goodResults(ps, results, Meta) /\ compacts(jobs, ps) /\ readable(ps, Meta)
        /\ ps \in ApplyState /\ results \in Seq(Result) /\ jobs \in Seq(Job)
        /\ Meta \in MetaState /\ ps.trunc \in Nat
    BY <2>1, ViewIs
  <2>5. goodResults(ps', results', Meta')
    BY <2>1, <2>3, <2>4, ResultsTail
  <2>6. r.state.trunc \in Nat /\ r.state.applied \in Nat /\ ps.trunc <= r.state.trunc
    <3>1. 1 \in 1 .. Len(results)
      BY <2>1, <2>4
    <3>2. r.state \in ApplyState
      BY <2>1 DEF Result
    <3> QED
      BY <2>4, <3>1, <3>2, BoundsAssumption DEF goodResults, ApplyState
  <2> HIDE DEF j, r
  <2>7. readable(ps', Meta')
    <3>1. \A i \in r.state.trunc + 1 .. Meta.last : i \in ps.trunc + 1 .. Meta.last
      BY <2>4, <2>6, MetaFields
    <3> QED
      BY <2>1, <2>3, <2>4, <3>1 DEF readable
  <2>8. compacts(jobs, ps')
    <3> SUFFICES ASSUME NEW k \in 1 .. Len(jobs), jobs[k].kind = "compact"
                 PROVE  jobs[k].to <= r.state.trunc + 1
      BY <2>1 DEF compacts
    <3>1. jobs[k] \in Job /\ jobs[k].to <= ps.trunc + 1
      BY <2>4 DEF compacts
    <3>2. jobs[k].to \in Nat
      BY <3>1, BoundsAssumption DEF Job
    <3> QED
      BY <2>4, <2>6, <3>1, <3>2
  <2>9. compacts(jobs', ps')
    <3>1. CASE r.first > 0
      <4>1. j \in Job /\ jobs' = Append(jobs, j) /\ j.to <= ps'.trunc + 1
        BY <2>1, <2>6, <3>1
      <4> QED
        BY <2>4, <2>8, <4>1, ShapeAppend
    <3>2. CASE ~(r.first > 0)
      BY <2>1, <2>8, <3>2
    <3> QED
      BY <3>1, <3>2
  <2> QED
    BY <2>5, <2>7, <2>9 DEF ViewInv
<1>7. CASE ApplyEmpty
  <2> DEFINE c == [Meta EXCEPT !.applied = Meta.applied + 1]
  <2>1. /\ runs("apply") /\ nextEntry /\ c \in MetaState /\ metas' = Append(metas, c)
        /\ delegate' = [applied |-> c.applied, trunc |-> c.trunc] /\ delegate' \in ApplyState
        /\ results' = Append(results, [first |-> 0, state |-> delegate'])
    BY <1>7, EmptyFacts
  <2>2. ps' = ps /\ alive
    BY <1>7 DEF ApplyEmpty, loopVars, applying, runs, running
  <2>3. /\ Meta' = c /\ c.applied = Meta.applied + 1 /\ c.trunc = Meta.trunc
        /\ c.log = Meta.log /\ c.last = Meta.last /\ Meta.trunc \in Nat
    BY <1>0, <2>1, MetaWritten, CurrentGood DEF MetaState
  <2> DEFINE r == [first |-> 0, state |-> delegate']
  <2>4. r \in Result
    BY <2>1, BoundsAssumption DEF Result
  <2>5. r.first = 0 /\ r.state.applied = c.applied /\ r.state.trunc = c.trunc
    BY <2>1
  <2> HIDE DEF c, r
  <2>6. goodResults(ps, results', c)
    <3>1. /\ goodResults(ps, results, Meta) /\ ps \in ApplyState /\ results \in Seq(Result)
          /\ Meta \in MetaState
      BY <2>2, ViewIs
    <3>2. ~(r.first > 0) /\ Meta.trunc <= r.state.trunc
      BY <2>3, <2>5
    <3>3. results' = Append(results, r)
      BY <2>1 DEF r
    <3> QED
      BY <2>1, <2>3, <2>4, <2>5, <3>1, <3>2, <3>3, ResultsAppend
  <2>7. compacts(jobs', ps) /\ readable(ps, c)
    BY <2>1, <2>2, <2>3, NextEntryFacts, ViewIs DEF readable
  <2> QED
    BY <2>2, <2>3, <2>6, <2>7 DEF ViewInv
<1>8. CASE ApplyMeta
  <2>1. PICK to \in 0 .. MaxIndex, first \in 0 .. MaxIndex :
           LET m == [Meta EXCEPT !.applied = Meta.applied + 1, !.trunc = to] IN
           /\ runs("apply") /\ nextEntry /\ m \in MetaState /\ metas' = <<m>>
           /\ delegate' = [applied |-> m.applied, trunc |-> m.trunc] /\ delegate' \in ApplyState
           /\ results' = Append(results, [first |-> first, state |-> delegate'])
           /\ Meta.trunc <= to /\ to <= Meta.applied
           /\ first > 0 => first < to /\ to < Meta.applied + 1
    BY <1>8, CommandFacts
  <2> DEFINE c == [Meta EXCEPT !.applied = Meta.applied + 1, !.trunc = to]
  <2>2. ps' = ps /\ alive
    BY <1>8 DEF ApplyMeta, loopVars, applying, runs, running
  <2>3. c \in MetaState /\ metas' = <<c>> /\ delegate' = [applied |-> c.applied, trunc |-> c.trunc]
    BY <2>1
  <2>4. /\ Meta' = c /\ c.applied = Meta.applied + 1 /\ c.trunc = to
        /\ c.log = Meta.log /\ c.last = Meta.last
    BY <1>0, <2>3, MetaWritten, CurrentGood DEF MetaState
  <2> DEFINE r == [first |-> first, state |-> delegate']
  <2>5. r \in Result
    BY <2>1 DEF Result
  <2>6. r.first = first /\ r.state.applied = c.applied /\ r.state.trunc = c.trunc
    BY <2>3
  <2> HIDE DEF c, r
  <2>7. goodResults(ps, results', c)
    <3>1. /\ goodResults(ps, results, Meta) /\ ps \in ApplyState /\ results \in Seq(Result)
          /\ Meta \in MetaState
      BY <2>2, ViewIs
    <3>2. /\ r.first > 0 => r.first < r.state.trunc /\ r.state.trunc < r.state.applied
          /\ Meta.trunc <= r.state.trunc
      BY <2>1, <2>4, <2>6
    <3>3. results' = Append(results, r)
      BY <2>1 DEF r
    <3> QED
      BY <2>3, <2>4, <2>5, <2>6, <3>1, <3>2, <3>3, ResultsAppend
  <2>8. compacts(jobs', ps) /\ readable(ps, c)
    BY <2>1, <2>2, <2>4, NextEntryFacts, ViewIs DEF readable
  <2> QED
    BY <2>2, <2>4, <2>7, <2>8 DEF ViewInv
<1>9. CASE Register \/ CompactRaftLog \/ SnapshotDone \/ SnapshotMissing \/ SnapshotFails
  <2>1. /\ alive /\ jobs # <<>> /\ jobs' = Tail(jobs) /\ ps' = ps /\ results' = results
    BY <1>9 DEF Register, CompactRaftLog, SnapshotDone, SnapshotMissing, SnapshotFails, runs,
                running, loopVars
  <2>2. /\ goodResults(ps, results, Meta) /\ compacts(jobs, ps) /\ readable(ps, Meta)
        /\ jobs \in Seq(Job) /\ Meta \in MetaState /\ ps.trunc \in Nat
    BY <2>1, ViewIs
  <2>3. compacts(jobs', ps')
    BY <2>1, <2>2, ShapeTail
  <2>4. /\ Meta'.applied = Meta.applied /\ Meta'.trunc = Meta.trunc /\ Meta'.last = Meta.last
        /\ \A i \in DOMAIN Meta.log : i > ps.trunc => i \in DOMAIN Meta'.log
    <3>1. CASE Register \/ SnapshotMissing \/ SnapshotFails
      BY <1>0, <3>1, MetaWritten DEF Register, SnapshotMissing, SnapshotFails, diskVars
    <3>2. CASE CompactRaftLog
      <4>1. PICK log \in Log :
              /\ [Meta EXCEPT !.log = log] \in MetaState
              /\ metas' = Append(metas, [Meta EXCEPT !.log = log]) \/ metas' = metas
              /\ \A i \in DOMAIN Meta.log : i > ps.trunc => i \in DOMAIN log
        BY <3>2, CompactFacts
      <4>2. Meta' = [Meta EXCEPT !.log = log] \/ Meta' = Meta
        BY <1>0, <4>1, MetaWritten
      <4> QED
        BY <2>2, <4>1, <4>2 DEF MetaState
    <3>3. CASE SnapshotDone
      <4> DEFINE c == [Meta EXCEPT !.state = "normal"]
      <4>1. c \in MetaState /\ metas' = <<c>>
        BY <2>2, <3>3 DEF MetaState, SnapshotDone, writeSync
      <4>2. Meta' = c
        BY <1>0, <4>1, MetaWritten
      <4> QED
        BY <2>2, <4>2 DEF MetaState
    <3> QED
      BY <1>9, <3>1, <3>2, <3>3
  <2>5. goodResults(ps', results', Meta')
    BY <2>1, <2>2, <2>4, ViewFrame
  <2>6. readable(ps', Meta')
    <3> SUFFICES ASSUME NEW i \in ps.trunc + 1 .. Meta.last PROVE i \in DOMAIN Meta'.log
      BY <2>1, <2>4 DEF readable
    <3>1. i \in DOMAIN Meta.log /\ i > ps.trunc
      BY <2>2, MetaFields DEF readable
    <3> QED
      BY <2>4, <3>1
  <2> QED
    BY <2>3, <2>5, <2>6 DEF ViewInv
<1> QED
  BY <1>1, <1>2, <1>3, <1>4, <1>5, <1>6, <1>7, <1>8, <1>9 DEF Next, Worker

----------------------------------------------------------------------------
(* NormalInv and ApplyingInv.                                              *)

\* Steps that write no apply state: the event worker's, and the deletion of log
\* entries.
LEMMA SameApplyState ==
    ASSUME StorageInv,
           \/ \E from \in 1 .. MaxIndex + 1, last \in 0 .. MaxIndex :
                \E n \in from - 1 .. last, commit \in Meta.commit .. last :
                   HandleReady(from, last, n, commit)
           \/ CompactRaftLog
           \/ metas' = metas
    PROVE  /\ Meta'.applied = Meta.applied /\ Meta'.trunc = Meta.trunc
           /\ Meta'.state = Meta.state
           /\ \A m \in Versions' : \E v \in Versions : m.applied = v.applied /\ m.trunc = v.trunc
<1>0. Types /\ Meta \in MetaState /\ Meta \in Versions
  BY CurrentGood DEF StorageInv
<1>1. CASE metas' = metas
  BY <1>0, <1>1, MetaWritten
<1>2. ASSUME NEW c \in MetaState, metas' = <<c>> \/ metas' = Append(metas, c),
             c.applied = Meta.applied, c.trunc = Meta.trunc, c.state = Meta.state
      PROVE  /\ Meta'.applied = Meta.applied /\ Meta'.trunc = Meta.trunc
             /\ Meta'.state = Meta.state
             /\ \A m \in Versions' : \E v \in Versions :
                   m.applied = v.applied /\ m.trunc = v.trunc
  <2>1. Meta' = c /\ Versions' \subseteq Versions \cup {c}
    BY <1>0, <1>2, MetaWritten
  <2> QED
    BY <1>0, <1>2, <2>1
<1>3. ASSUME NEW from \in 1 .. MaxIndex + 1, NEW last \in 0 .. MaxIndex,
             NEW n \in from - 1 .. last, NEW commit \in Meta.commit .. last,
             HandleReady(from, last, n, commit)
      PROVE  metas' = metas \/ \E c \in MetaState :
                /\ metas' = <<c>> \/ metas' = Append(metas, c)
                /\ c.applied = Meta.applied /\ c.trunc = Meta.trunc /\ c.state = Meta.state
  <2> DEFINE c == readyMeta(from, last, n, commit)
  <2>1. c \in MetaState /\ (metas' = <<c>> \/ metas' = metas)
    BY <1>3, ReadyFacts
  <2>2. c.applied = Meta.applied /\ c.trunc = Meta.trunc /\ c.state = Meta.state
    BY <1>0 DEF readyMeta, MetaState
  <2> HIDE DEF c
  <2> QED
    BY <2>1, <2>2
<1>4. CASE CompactRaftLog
  <2>1. PICK log \in Log : /\ [Meta EXCEPT !.log = log] \in MetaState
                           /\ \/ metas' = Append(metas, [Meta EXCEPT !.log = log])
                              \/ metas' = metas
    BY <1>4, CompactFacts
  <2> DEFINE c == [Meta EXCEPT !.log = log]
  <2>2. c.applied = Meta.applied /\ c.trunc = Meta.trunc /\ c.state = Meta.state
    BY <1>0 DEF MetaState
  <2>3. c \in MetaState /\ (metas' = Append(metas, c) \/ metas' = metas)
    BY <2>1
  <2> HIDE DEF c
  <2> QED
    BY <1>1, <1>2, <2>2, <2>3
<1> QED
  BY <1>1, <1>2, <1>3, <1>4

\* The write after the applied index is the first of those that are left.
LEMMA NextWrite ==
    ASSUME NEW n \in Nat, n + 1 \in Indexes, agreed[n + 1].kind = "write"
    PROVE  /\ writes(n + 1) = writes(n) \cup {n + 1}
           /\ writes(MaxIndex) \ writes(n) # {} /\ Min(writes(MaxIndex) \ writes(n)) = n + 1
<1> DEFINE later == writes(MaxIndex) \ writes(n)
<1>1. \A i : i \in 1 .. n + 1 <=> i \in 1 .. n \/ i = n + 1
  OBVIOUS
<1>2. writes(n + 1) = writes(n) \cup {n + 1}
  BY <1>1 DEF writes
<1>3. n + 1 \in later
  BY BoundsAssumption DEF writes, Indexes
<1>4. later \subseteq Nat /\ \A i \in later : n + 1 <= i
  BY BoundsAssumption DEF writes
<1> HIDE DEF later
<1>5. Min(later) \in later /\ Min(later) <= n + 1
  BY <1>3, <1>4, MinOf
<1>6. \A x \in later : x <= n + 1 => x = n + 1
  BY <1>4
<1>7. Min(later) = n + 1
  BY <1>5, <1>6
<1> QED
  BY <1>2, <1>3, <1>7 DEF later

\* Of the applied index, only the writes up to it count.
LEMMA MatchesSame ==
    ASSUME NEW d, NEW a, NEW b, writes(a) = writes(b), matches(d, a)
    PROVE  matches(d, b)
BY DEF matches

\* Steps that touch neither the data nor the apply state.
LEMMA NormalFrame ==
    ASSUME NormalInv, agreed' = agreed, datas' = datas, unsynced' = unsynced,
           snapshotLost' = snapshotLost, Meta'.applied = Meta.applied,
           Meta'.state = Meta.state, step' = step, step = "written" => jobs'[1] = jobs[1]
    PROVE  NormalInv'
<1>1. Data' = Data /\ Range(datas') = Range(datas)
  BY DEF Data
<1>2. \A d, a : matches(d, a)' <=> matches(d, a)
  BY DEF matches, writes
<1>3. \A a : writes(a)' = writes(a)
  BY DEF writes
<1> QED
  BY <1>1, <1>2, <1>3 DEF NormalInv

\* The running job stays the first when the event worker queues others.
LEMMA RunningJob ==
    ASSUME StorageInv, step = "written",
           \/ \E from \in 1 .. MaxIndex + 1, last \in 0 .. MaxIndex :
                \E n \in from - 1 .. last, commit \in Meta.commit .. last :
                   HandleReady(from, last, n, commit)
           \/ \E s \in Indexes : RecvSnapshot(s) \/ ReceiveFile(s) \/ GCFile(s)
           \/ PostApply
    PROVE  jobs'[1] = jobs[1]
<1>1. jobs \in Seq(Job) /\ jobs # <<>> /\ lastReady \in 0 .. MaxIndex
  BY DEF StorageInv, Types, StepInv, goodStep
<1>2. jobs' = jobs \/ \E j \in Job : jobs' = Append(jobs, j)
  <2>1. ASSUME NEW from \in 1 .. MaxIndex + 1, NEW last \in 0 .. MaxIndex,
               NEW n \in from - 1 .. last, NEW commit \in Meta.commit .. last,
               HandleReady(from, last, n, commit)
        PROVE  jobs' = jobs \/ \E j \in Job : jobs' = Append(jobs, j)
    <3>1. commit > lastReady =>
            [kind |-> "apply", from |-> lastReady + 1, to |-> commit] \in Job
      BY <1>1, <2>1, ReadyFacts, BoundsAssumption DEF ReadyIs, Job
    <3> QED
      BY <2>1, <3>1 DEF HandleReady, applyCommittedEntries
  <2>2. CASE \E s \in Indexes : RecvSnapshot(s) \/ ReceiveFile(s) \/ GCFile(s)
    BY <2>2 DEF RecvSnapshot, ReceiveFile, GCFile, workerVars
  <2>3. CASE PostApply
    BY <2>3, PostFacts
  <2> QED
    BY <2>1, <2>2, <2>3
<1> QED
  BY <1>1, <1>2, ShapeAppend

\* What a crash keeps.
LEMMA CrashFacts ==
    ASSUME StorageInv, Crash
    PROVE  \E m \in Versions, d \in Range(datas) :
              /\ Meta' = m /\ Versions' = {m} /\ Data' = d /\ Range(datas') = {d}
              /\ snapshotLost' = (snapshotLost \/ lost(m, d))
              /\ m.state = Meta.state /\ writes(m.applied) = writes(Meta.applied)
<1>1. PICK m \in Versions, d \in Range(datas) :
          metas' = <<m>> /\ datas' = <<d>> /\ snapshotLost' = (snapshotLost \/ lost(m, d))
  BY DEF Crash, Versions
<1>2. m \in MetaState /\ d \in SUBSET Indexes /\ goodVersion(m, stable, Meta)
  BY Current DEF StorageInv, VersionsInv
<1>3. Meta' = m /\ Versions' = {m}
  BY <1>1, <1>2, MetaWritten DEF StorageInv
<1>4. Data' = d /\ Range(datas') = {d}
  BY <1>1, <1>2, OneIs DEF Data
<1> QED
  BY <1>1, <1>2, <1>3, <1>4 DEF goodVersion

\* The data of a normal replica stays within one write of its applied index.
LEMMA NextNormal ==
    ASSUME StorageInv, Next
    PROVE  NormalInv'
<1>0. Types /\ NormalInv /\ ApplyingInv
  BY DEF StorageInv
<1>1. CASE \/ \E from \in 1 .. MaxIndex + 1, last \in 0 .. MaxIndex :
                \E n \in from - 1 .. last, commit \in Meta.commit .. last :
                   HandleReady(from, last, n, commit)
           \/ \E s \in Indexes : RecvSnapshot(s) \/ ReceiveFile(s) \/ GCFile(s)
           \/ PostApply
  <2>1. /\ agreed' = agreed /\ datas' = datas /\ unsynced' = unsynced
        /\ snapshotLost' = snapshotLost /\ step' = step
    BY <1>1 DEF HandleReady, RecvSnapshot, ReceiveFile, GCFile, PostApply, diskVars,
                historyVars, workerVars
  <2>2. \/ \E from \in 1 .. MaxIndex + 1, last \in 0 .. MaxIndex :
              \E n \in from - 1 .. last, commit \in Meta.commit .. last :
                 HandleReady(from, last, n, commit)
        \/ metas' = metas
    BY <1>1 DEF RecvSnapshot, ReceiveFile, GCFile, PostApply, diskVars
  <2>3. Meta'.applied = Meta.applied /\ Meta'.state = Meta.state
    BY <2>2, SameApplyState
  <2>4. step = "written" => jobs'[1] = jobs[1]
    BY <1>1, RunningJob
  <2> QED
    BY <1>0, <2>1, <2>3, <2>4, NormalFrame
<1>2. CASE Register \/ CompactRaftLog \/ Restart
  <2>1. /\ agreed' = agreed /\ datas' = datas /\ unsynced' = unsynced
        /\ snapshotLost' = snapshotLost /\ step' = step
    BY <1>2 DEF Register, CompactRaftLog, Restart, diskVars, historyVars
  <2>2. CompactRaftLog \/ metas' = metas
    BY <1>2 DEF Register, Restart, diskVars
  <2>3. Meta'.applied = Meta.applied /\ Meta'.state = Meta.state
    BY <2>2, SameApplyState
  <2>4. step # "written"
    <3>1. CASE Register \/ CompactRaftLog
      <4>1. jobs[1].kind \in {"register", "compact"}
        BY <3>1, HeadIs DEF Register, CompactRaftLog
      <4> QED
        BY <4>1 DEF StorageInv, StepInv, goodStep
    <3>2. CASE Restart
      BY <3>2, RestartFacts
    <3> QED
      BY <1>2, <3>1, <3>2
  <2> QED
    BY <1>0, <2>1, <2>3, <2>4, NormalFrame
<1>3. ASSUME NEW s \in Indexes, NEW last \in Indexes, NEW n \in s .. last,
             NEW commit \in s .. last, SnapshotReady(s, last, n, commit)
      PROVE  NormalInv'
  <2> DEFINE m == takenMeta(s, last, n, commit)
  <2>1. m \in MetaState /\ metas' = <<m>> /\ m.state = "applying"
    BY <1>3, TakenIs
  <2> HIDE DEF m
  <2>2. Meta' = m
    BY <1>0, <2>1, MetaWritten
  <2> QED
    BY <2>1, <2>2 DEF NormalInv
<1>4. CASE \/ SnapshotRemove \/ SnapshotInstall \/ SnapshotClean \/ SnapshotMissing
           \/ SnapshotFails
  <2>1. runs("snapshot") /\ metas' = metas
    BY <1>4 DEF SnapshotRemove, SnapshotInstall, SnapshotClean, SnapshotMissing, SnapshotFails,
                diskVars
  <2>2. Meta.state = "applying" /\ Meta'.state = Meta.state
    BY <2>1, SnapshotFacts, SameApplyState
  <2> QED
    BY <2>2 DEF NormalInv
<1>5. CASE SnapshotDone
  <2> DEFINE c == [Meta EXCEPT !.state = "normal"]
  <2>1. runs("snapshot") /\ metas' = <<c>> /\ step = "cleaned" /\ step' = "start"
        /\ agreed' = agreed /\ datas' = datas /\ unsynced' = unsynced
        /\ snapshotLost' = snapshotLost
    BY <1>5 DEF SnapshotDone, writeSync, historyVars
  <2>2. c \in MetaState /\ c.applied = Meta.applied
    BY CurrentGood DEF MetaState
  <2> HIDE DEF c
  <2>3. Meta' = c /\ Data' = Data /\ Range(datas') = Range(datas)
    BY <1>0, <2>1, <2>2, MetaWritten DEF Data
  <2>4. ~snapshotLost => unsynced /\ Data = writes(Meta.applied)
    BY <1>0, <2>1, SnapshotFacts DEF ApplyingInv
  <2>5. \A d : matches(d, Meta.applied)' <=> matches(d, Meta.applied)
    BY <2>1, <2>2, <2>3 DEF matches, writes
  <2> QED
    BY <2>1, <2>2, <2>3, <2>4, <2>5 DEF NormalInv, matches
<1>6. CASE Crash
  <2>1. PICK m \in Versions, d \in Range(datas) :
              /\ Meta' = m /\ Data' = d /\ Range(datas') = {d}
              /\ snapshotLost' = (snapshotLost \/ lost(m, d))
              /\ m.state = Meta.state /\ writes(m.applied) = writes(Meta.applied)
    BY <1>6, CrashFacts
  <2>2. agreed' = agreed /\ step' = "start"
    BY <1>6 DEF Crash
  <2>3. \A e, a : matches(e, a)' <=> matches(e, a)
    BY <2>2 DEF matches, writes
  <2>4. ASSUME ~snapshotLost', m.state = "normal" PROVE matches(d, m.applied)
    <3>1. ~snapshotLost /\ Meta.state = "normal" /\ (d = Data \/ ~unsynced)
      BY <2>1, <2>4 DEF lost
    <3>2. matches(d, Meta.applied)
      BY <1>0, <2>1, <3>1 DEF NormalInv
    <3> QED
      BY <2>1, <3>2, MatchesSame
  <2> QED
    BY <2>1, <2>2, <2>3, <2>4 DEF NormalInv
<1>7. CASE ApplyEmpty
  <2> DEFINE c == [Meta EXCEPT !.applied = Meta.applied + 1]
  <2>1. /\ c \in MetaState /\ metas' = Append(metas, c) /\ runs("apply")
        /\ agreed[Meta.applied + 1].kind = "empty"
    BY <1>7, EmptyFacts
  <2>2. /\ agreed' = agreed /\ datas' = datas /\ unsynced' = unsynced
        /\ snapshotLost' = snapshotLost /\ step' = step
    BY <1>7 DEF ApplyEmpty, historyVars
  <2>3. c.applied = Meta.applied + 1 /\ c.state = Meta.state
    BY CurrentGood DEF MetaState
  <2> HIDE DEF c
  <2>4. Meta' = c /\ Data' = Data /\ Range(datas') = Range(datas)
    BY <1>0, <2>1, <2>2, MetaWritten DEF Data
  <2>5. writes(c.applied) = writes(Meta.applied)
    BY <2>1, <2>3, CurrentGood, SameWrites
  <2>6. step # "written"
    <3>1. jobs[1].from = Meta.applied + 1
      BY <2>1, EntryFacts
    <3> QED
      BY <2>1, <3>1 DEF StorageInv, StepInv, goodStep
  <2>7. \A e, a : matches(e, a)' <=> matches(e, a)
    BY <2>2 DEF matches, writes
  <2>8. \A d : matches(d, Meta.applied) => matches(d, c.applied)
    BY <2>5, MatchesSame
  <2> QED
    BY <1>0, <2>2, <2>3, <2>4, <2>6, <2>7, <2>8 DEF NormalInv
<1>8. CASE ApplyData
  <2>1. /\ runs("apply") /\ metas' = metas /\ agreed' = agreed /\ snapshotLost' = snapshotLost
        /\ jobs' = jobs /\ step = "start" /\ step' = "written"
    BY <1>8 DEF ApplyData, applying
  <2>2. /\ Head(jobs) = jobs[1] /\ jobs[1].from = Meta.applied + 1
        /\ Meta.applied + 1 \in Indexes /\ Meta.applied \in Nat
    BY <2>1, EntryFacts, CurrentGood
  <2>3. Meta'.applied = Meta.applied /\ Meta'.state = Meta.state
    BY <2>1, SameApplyState
  <2>4. \A e, a : matches(e, a)' <=> matches(e, a)
    BY <2>1 DEF matches, writes
  <2>5. \A a : writes(a)' = writes(a)
    BY <2>1 DEF writes
  <2>6. CASE agreed[jobs[1].from].kind # "write"
    <3>1. datas' = datas /\ unsynced' = unsynced
      BY <1>8, <2>2, <2>6 DEF ApplyData
    <3>2. Data' = Data /\ Range(datas') = Range(datas)
      BY <3>1 DEF Data
    <3> QED
      BY <1>0, <2>1, <2>3, <2>4, <2>6, <3>1, <3>2 DEF NormalInv
  <2>7. CASE agreed[jobs[1].from].kind = "write"
    <3> DEFINE i == Meta.applied + 1
               e == Data \cup {i}
    <3>1. datas' = <<e>>
      BY <1>8, <2>2, <2>7 DEF ApplyData, writeData
    <3>2. e \in SUBSET Indexes
      BY <1>0, <2>2, Current
    <3>3. Data' = e /\ Range(datas') = {e}
      <4> HIDE DEF e
      <4> QED
        BY <3>1, <3>2, OneIs DEF Data
    <3>4. /\ writes(i) = writes(Meta.applied) \cup {i}
          /\ writes(MaxIndex) \ writes(Meta.applied) # {}
          /\ Min(writes(MaxIndex) \ writes(Meta.applied)) = i
      BY <2>2, <2>7, NextWrite
    <3>5. matches(writes(i), Meta.applied)
      BY <3>4 DEF matches
    <3>6. ASSUME ~snapshotLost, Meta.state = "normal" PROVE e = writes(i)
      <4>1. matches(Data, Meta.applied)
        BY <1>0, <3>6, Current DEF NormalInv
      <4>2. Data = writes(Meta.applied) \/ Data = writes(i)
        BY <3>4, <4>1 DEF matches
      <4> QED
        BY <3>4, <4>2
    <3> HIDE DEF e
    <3> QED
      BY <2>1, <2>2, <2>3, <2>4, <2>5, <3>3, <3>5, <3>6 DEF NormalInv
  <2> QED
    BY <2>6, <2>7
<1>9. CASE ApplyMeta
  <2>1. PICK to \in 0 .. MaxIndex :
          /\ [Meta EXCEPT !.applied = Meta.applied + 1, !.trunc = to] \in MetaState
          /\ metas' = <<[Meta EXCEPT !.applied = Meta.applied + 1, !.trunc = to]>>
          /\ runs("apply") /\ step = "written"
    BY <1>9, CommandFacts
  <2> DEFINE c == [Meta EXCEPT !.applied = Meta.applied + 1, !.trunc = to]
  <2>2. /\ agreed' = agreed /\ datas' = datas /\ unsynced' = unsynced
        /\ snapshotLost' = snapshotLost /\ step' = "start"
    BY <1>9 DEF ApplyMeta, historyVars
  <2>3. c.applied = Meta.applied + 1 /\ c.state = Meta.state
    BY CurrentGood DEF MetaState
  <2>4. c \in MetaState /\ metas' = <<c>>
    BY <2>1
  <2> HIDE DEF c
  <2>5. Meta' = c /\ Data' = Data /\ Range(datas') = Range(datas)
    BY <1>0, <2>2, <2>4, MetaWritten DEF Data
  <2>6. \A e, a : matches(e, a)' <=> matches(e, a)
    BY <2>2 DEF matches, writes
  <2>7. jobs[1].from = Meta.applied + 1 /\ Meta.applied \in Nat
    BY <2>1, EntryFacts, CurrentGood
  <2>8. ASSUME ~snapshotLost, Meta.state = "normal", NEW d \in Range(datas), d = Data \/ ~unsynced
        PROVE  matches(d, c.applied)
    <3>1. CASE agreed[Meta.applied + 1].kind = "write"
      <4>1. d = writes(c.applied)
        BY <1>0, <2>1, <2>3, <2>7, <2>8, <3>1 DEF NormalInv
      <4> QED
        BY <4>1 DEF matches
    <3>2. CASE agreed[Meta.applied + 1].kind # "write"
      <4>1. writes(c.applied) = writes(Meta.applied)
        BY <2>3, <2>7, <3>2, SameWrites
      <4>2. matches(d, Meta.applied)
        BY <1>0, <2>8 DEF NormalInv
      <4> QED
        BY <4>1, <4>2, MatchesSame
    <3> QED
      BY <3>1, <3>2
  <2> QED
    BY <2>2, <2>3, <2>5, <2>6, <2>8 DEF NormalInv
<1> QED
  BY <1>1, <1>2, <1>3, <1>4, <1>5, <1>6, <1>7, <1>8, <1>9 DEF Next, Worker

\* A snapshot stays queued until it is applied, and keeps what it needs.
LEMMA NextApplying ==
    ASSUME StorageInv, Next
    PROVE  ApplyingInv'
<1>0. /\ Types /\ ApplyingInv /\ jobs \in Seq(Job) /\ Meta \in MetaState /\ Meta \in Versions
      /\ alive \in BOOLEAN
  BY CurrentGood DEF StorageInv, Types
<1>1. ASSUME none(jobs, "snapshot"), none(jobs', "snapshot"), alive, alive',
             Meta'.state = Meta.state, snapshotLost' = snapshotLost
      PROVE  ApplyingInv'
  BY <1>0, <1>1 DEF ApplyingInv
<1>2. ASSUME agreed' = agreed, step' = step, datas' = datas, unsynced' = unsynced,
             snapshotLost' = snapshotLost, alive, alive', metas' = metas \/ CompactRaftLog,
             none(jobs, "snapshot") <=> none(jobs', "snapshot")
      PROVE  ApplyingInv'
  <2>1. /\ Meta'.applied = Meta.applied /\ Meta'.trunc = Meta.trunc
        /\ Meta'.state = Meta.state
        /\ \A m \in Versions' : \E v \in Versions : m.applied = v.applied /\ m.trunc = v.trunc
    BY <1>2, SameApplyState
  <2>2. Data' = Data /\ \A a : writes(a)' = writes(a)
    BY <1>2 DEF Data, writes
  <2> QED
    BY <1>0, <1>2, <2>1, <2>2 DEF ApplyingInv
<1>3. ASSUME NEW from \in 1 .. MaxIndex + 1, NEW last \in 0 .. MaxIndex,
             NEW n \in from - 1 .. last, NEW commit \in Meta.commit .. last,
             HandleReady(from, last, n, commit)
      PROVE  ApplyingInv'
  <2>1. none(jobs, "snapshot")
    BY <1>0, <1>3 DEF HandleReady, isApplyingSnapshot, none, Range
  <2>2. ReadyIs(from, last, n, commit) /\ lastReady \in 0 .. MaxIndex
    BY <1>0, <1>3, ReadyFacts DEF Types
  <2> DEFINE j == [kind |-> "apply", from |-> lastReady + 1, to |-> commit]
  <2>3. j.kind # "snapshot" /\ (commit > lastReady => j \in Job)
    BY <2>2, BoundsAssumption DEF ReadyIs, Job
  <2>4. jobs' = jobs \/ (commit > lastReady /\ jobs' = Append(jobs, j))
    BY <1>3 DEF HandleReady, applyCommittedEntries
  <2> HIDE DEF j
  <2>5. none(jobs', "snapshot")
    BY <1>0, <2>1, <2>3, <2>4, ShapeAppend
  <2>6. alive /\ alive' /\ snapshotLost' = snapshotLost /\ Meta'.state = Meta.state
    BY <1>3, SameApplyState DEF HandleReady, running
  <2> QED
    BY <1>1, <2>1, <2>5, <2>6
<1>4. CASE \E s \in Indexes : RecvSnapshot(s) \/ ReceiveFile(s) \/ GCFile(s)
  <2>1. /\ agreed' = agreed /\ step' = step /\ datas' = datas /\ unsynced' = unsynced
        /\ snapshotLost' = snapshotLost /\ alive /\ alive' /\ metas' = metas
        /\ jobs' = jobs
    BY <1>4
    DEF RecvSnapshot, ReceiveFile, GCFile, running, diskVars, workerVars, historyVars
  <2> QED
    BY <1>2, <2>1
<1>5. CASE PostApply
  <2> DEFINE j == compactJob(lastCompact, results[1].state.trunc)
  <2>1. /\ agreed' = agreed /\ step' = step /\ datas' = datas /\ unsynced' = unsynced
        /\ snapshotLost' = snapshotLost /\ alive /\ alive' /\ metas' = metas
    BY <1>5 DEF PostApply, running, diskVars, historyVars
  <2>2. /\ j.kind = "compact"
        /\ jobs' = jobs \/ (j \in Job /\ jobs' = Append(jobs, j))
    BY <1>5, PostFacts
  <2> HIDE DEF j
  <2>3. none(jobs, "snapshot") <=> none(jobs', "snapshot")
    BY ZenonT(60), <1>0, <2>2, ShapeAppend
  <2> QED
    BY <1>2, <2>1, <2>3
<1>6. CASE Register \/ CompactRaftLog
  <2>1. /\ agreed' = agreed /\ step' = step /\ datas' = datas /\ unsynced' = unsynced
        /\ snapshotLost' = snapshotLost /\ alive /\ alive'
        /\ jobs' = Tail(jobs)
    BY <1>6 DEF Register, CompactRaftLog, runs, running, diskVars, historyVars
  <2>2. metas' = metas \/ CompactRaftLog
    BY <1>6 DEF Register, diskVars
  <2>3. jobs # <<>> /\ jobs[1].kind # "snapshot"
    BY <1>6, HeadIs DEF Register, CompactRaftLog
  <2>4. none(jobs, "snapshot") <=> none(jobs', "snapshot")
    BY <1>0, <2>1, <2>3, ShapeTail
  <2> QED
    BY <1>2, <2>1, <2>2, <2>4
<1>7. CASE ApplyEmpty \/ ApplyData \/ ApplyMeta
  <2>1. /\ runs("apply") /\ alive /\ alive' /\ snapshotLost' = snapshotLost
    BY <1>7 DEF ApplyEmpty, ApplyData, ApplyMeta, applying, runs, running, historyVars
  <2>2. none(jobs, "snapshot")
    BY <2>1, ApplyFacts
  <2>3. none(jobs', "snapshot")
    <3>1. CASE ApplyData
      BY <2>2, <3>1 DEF ApplyData
    <3>2. CASE ApplyEmpty \/ ApplyMeta
      BY <2>1, <3>2, NextEntryFacts DEF ApplyEmpty, ApplyMeta
    <3> QED
      BY <1>7, <3>1, <3>2
  <2>4. Meta'.state = Meta.state
    <3>1. CASE ApplyData
      BY <3>1, SameApplyState DEF ApplyData
    <3>2. CASE ApplyEmpty
      <4> DEFINE c == [Meta EXCEPT !.applied = Meta.applied + 1]
      <4>1. c \in MetaState /\ metas' = Append(metas, c)
        BY <3>2, EmptyFacts
      <4>2. c.state = Meta.state
        BY <1>0 DEF MetaState
      <4> HIDE DEF c
      <4> QED
        BY <1>0, <4>1, <4>2, MetaWritten
    <3>3. CASE ApplyMeta
      <4>1. PICK to \in 0 .. MaxIndex :
              LET m == [Meta EXCEPT !.applied = Meta.applied + 1, !.trunc = to] IN
              m \in MetaState /\ metas' = <<m>>
        BY <3>3, CommandFacts
      <4> DEFINE c == [Meta EXCEPT !.applied = Meta.applied + 1, !.trunc = to]
      <4>2. c \in MetaState /\ metas' = <<c>>
        BY <4>1
      <4>3. c.state = Meta.state
        BY <1>0 DEF MetaState
      <4> HIDE DEF c
      <4> QED
        BY <1>0, <4>2, <4>3, MetaWritten
    <3> QED
      BY <1>7, <3>1, <3>2, <3>3
  <2> QED
    BY <1>1, <2>1, <2>2, <2>3, <2>4
<1>8. ASSUME NEW s \in Indexes, NEW last \in Indexes, NEW n \in s .. last,
             NEW commit \in s .. last, SnapshotReady(s, last, n, commit)
      PROVE  ApplyingInv'
  <2> DEFINE m == takenMeta(s, last, n, commit)
             snap == [kind |-> "snapshot", from |-> s, to |-> s]
             reg == [kind |-> "register", from |-> s, to |-> s]
             js == Append(jobs, snap)
  <2>1. /\ m \in MetaState /\ metas' = <<m>> /\ snap \in Job /\ reg \in Job
        /\ js \in Seq(Job) /\ jobs' = Append(js, reg) /\ step = "start"
        /\ m.applied = s /\ m.trunc = s
    BY <1>8, TakenIs, TakeOverFacts
  <2> HIDE DEF m
  <2>2. Meta' = m /\ Versions' = {m}
    BY <1>0, <2>1, MetaWritten
  <2>3. ~none(js, "snapshot")
    <3>1. snap.kind = "snapshot"
      OBVIOUS
    <3> HIDE DEF snap
    <3> QED
      BY <1>0, <2>1, <3>1, ShapeAppend
  <2>4. ~none(jobs', "snapshot")
    <3> HIDE DEF js, reg
    <3> QED
      BY <2>1, <2>3, ShapeAppend
  <2>5. step' = "start"
    BY <1>8, <2>1 DEF SnapshotReady
  <2> QED
    BY <2>1, <2>2, <2>4, <2>5 DEF ApplyingInv
<1>9. CASE SnapshotRemove \/ SnapshotInstall \/ SnapshotClean
  <2>1. /\ runs("snapshot") /\ agreed' = agreed /\ metas' = metas /\ jobs' = jobs
        /\ alive /\ alive'
    BY <1>9 DEF SnapshotRemove, SnapshotInstall, SnapshotClean, runs, running
  <2>2. Meta' = Meta /\ Versions' = Versions
    BY <1>0, <2>1, MetaWritten
  <2>3. /\ Head(jobs) = jobs[1] /\ jobs[1].from = Meta.trunc /\ ~none(jobs, "snapshot")
    BY <2>1, HeadIs, SnapshotFacts DEF none
  <2>4. \A a : writes(a)' = writes(a)
    BY <2>1 DEF writes
  <2>5. CASE SnapshotRemove
    BY <1>0, <2>1, <2>2, <2>3, <2>5 DEF SnapshotRemove, ApplyingInv, historyVars
  <2>6. CASE SnapshotInstall
    <3> DEFINE d == writes(Meta.trunc)
    <3>1. /\ datas' = Append(datas, d) /\ unsynced' /\ files' = files /\ Meta.trunc \in files
          /\ snapshotLost' = (snapshotLost /\ Meta.trunc # Meta.applied)
      BY <2>3, <2>6 DEF SnapshotInstall
    <3>2. d \in SUBSET Indexes
      BY CurrentGood, BoundsAssumption, MetaFields DEF writes, Indexes
    <3>3. Data' = d
      <4> HIDE DEF d
      <4> QED
        BY <1>0, <3>1, <3>2, AppendIs DEF Types, Data
    <3>4. ASSUME ~snapshotLost', Meta.state = "applying" PROVE Meta.applied = Meta.trunc
      BY <1>0, <3>1, <3>4 DEF ApplyingInv
    <3> QED
      BY <1>0, <2>1, <2>2, <2>3, <2>4, <3>1, <3>3, <3>4 DEF ApplyingInv
  <2>7. CASE SnapshotClean
    <3>1. /\ step = "installed" /\ step' = "cleaned" /\ datas' = datas
          /\ unsynced' = unsynced /\ snapshotLost' = snapshotLost
      BY <2>7 DEF SnapshotClean, historyVars
    <3>2. Data' = Data
      BY <3>1 DEF Data
    <3> QED
      BY <1>0, <2>1, <2>2, <2>4, <3>1, <3>2 DEF ApplyingInv
  <2> QED
    BY <1>9, <2>5, <2>6, <2>7
<1>10. CASE SnapshotDone
  <2> DEFINE c == [Meta EXCEPT !.state = "normal"]
  <2>1. runs("snapshot") /\ metas' = <<c>> /\ jobs' = Tail(jobs) /\ alive'
    BY <1>10 DEF SnapshotDone, writeSync, runs, running
  <2>2. c \in MetaState /\ c.state = "normal"
    BY <1>0 DEF MetaState
  <2> HIDE DEF c
  <2>3. Meta' = c
    BY <1>0, <2>1, <2>2, MetaWritten
  <2>4. none(jobs', "snapshot")
    BY <2>1, SnapshotFacts
  <2> QED
    BY <2>1, <2>2, <2>3, <2>4 DEF ApplyingInv
<1>11. CASE SnapshotMissing \/ SnapshotFails
  <2>1. runs("snapshot") /\ jobs' = Tail(jobs) /\ alive' /\ snapshotLost'
    BY <1>11 DEF SnapshotMissing, SnapshotFails, runs, running
  <2>2. none(jobs', "snapshot")
    BY <2>1, SnapshotFacts
  <2> QED
    BY <2>1, <2>2 DEF ApplyingInv
<1>12. CASE Crash
  <2>1. PICK m \in Versions, d \in Range(datas) :
              /\ Meta' = m /\ Versions' = {m}
              /\ snapshotLost' = (snapshotLost \/ lost(m, d)) /\ m.state = Meta.state
    BY <1>12, CrashFacts
  <2>2. alive /\ ~alive' /\ step' = "start"
    BY <1>12 DEF Crash, running
  <2>3. ASSUME ~snapshotLost', m.state = "applying" PROVE m.applied = m.trunc
    <3>1. ~snapshotLost
      BY <2>1, <2>3
    <3>2. Meta.applied = Meta.trunc /\ ~none(jobs, "snapshot")
      BY <1>0, <2>1, <2>2, <2>3, <3>1 DEF ApplyingInv
    <3>3. m.applied = Meta.applied /\ m.trunc = Meta.trunc
      BY <1>0, <3>2 DEF ApplyingInv
    <3> QED
      BY <3>2, <3>3
  <2> QED
    BY <2>1, <2>2, <2>3 DEF ApplyingInv
<1>13. CASE Restart
  <2> DEFINE reg == [kind |-> "register", from |-> Meta.applied, to |-> Meta.trunc]
             snap == [kind |-> "snapshot", from |-> Meta.trunc, to |-> Meta.trunc]
  <2>1. /\ reg \in Job /\ snap \in Job /\ ~alive /\ step = "start"
        /\ Meta.state = "applying" => jobs' = Append(<<snap>>, reg)
    BY <1>13, RestartFacts
  <2>2. /\ metas' = metas /\ step' = step /\ snapshotLost' = snapshotLost
    BY <1>13 DEF Restart, diskVars, historyVars
  <2>3. Meta' = Meta /\ Versions' = Versions
    BY <1>0, <2>2, MetaWritten
  <2>4. Meta.state = "applying" => ~none(jobs', "snapshot")
    <3>1. snap.kind = "snapshot"
      OBVIOUS
    <3> HIDE DEF snap, reg
    <3>2. Append(<<snap>>, reg)[1] = snap /\ 1 \in 1 .. Len(Append(<<snap>>, reg))
      BY <2>1
    <3> QED
      BY <2>1, <3>1, <3>2 DEF none
  <2> QED
    BY <1>0, <2>1, <2>2, <2>3, <2>4 DEF ApplyingInv
<1> QED
  BY <1>3, <1>4, <1>5, <1>6, <1>7, <1>8, <1>9, <1>10, <1>11, <1>12, <1>13 DEF Next, Worker

----------------------------------------------------------------------------
(* The invariant and what follows from it.                                 *)

\* Only a Ready moves the commit index, and none is handled while raft has a
\* snapshot pending.
LEMMA NextPending ==
    ASSUME StorageInv, Next
    PROVE  PendingInv'
<1>0. Types /\ PendingInv /\ Meta \in MetaState
  BY CurrentGood DEF StorageInv
<1>1. CASE \/ \E from \in 1 .. MaxIndex + 1, last \in 0 .. MaxIndex :
                \E n \in from - 1 .. last, commit \in Meta.commit .. last :
                   HandleReady(from, last, n, commit)
           \/ \E s \in Indexes, last \in Indexes :
                \E n \in s .. last, commit \in s .. last : SnapshotReady(s, last, n, commit)
           \/ Crash
  <2>1. CASE pendingSnap' = 0
    BY <2>1 DEF PendingInv
  <2>2. CASE pendingSnap' = pendingSnap /\ pendingSnap = 0
    BY <2>2 DEF PendingInv
  <2> QED  BY <1>1, <2>1, <2>2 DEF HandleReady, SnapshotReady, Crash
<1>2. CASE \E s \in Indexes : RecvSnapshot(s)
  <2>1. PICK s \in Indexes : metas' = metas /\ s > Meta.commit /\ pendingSnap' = s
    BY <1>2 DEF RecvSnapshot, diskVars
  <2>2. Meta' = Meta
    BY <1>0, <2>1, MetaWritten
  <2> QED
    BY <2>1, <2>2 DEF PendingInv
<1>3. ASSUME pendingSnap' = pendingSnap, Meta'.commit = Meta.commit PROVE PendingInv'
  BY <1>0, <1>3 DEF PendingInv
<1>4. CASE \/ \E s \in Indexes : ReceiveFile(s) \/ GCFile(s)
           \/ PostApply \/ Register \/ ApplyData \/ SnapshotRemove \/ SnapshotInstall
           \/ SnapshotClean \/ SnapshotMissing \/ SnapshotFails \/ Restart
  <2>1. pendingSnap' = pendingSnap /\ metas' = metas
    BY <1>4 DEF ReceiveFile, GCFile, PostApply, Register, ApplyData, SnapshotRemove,
                SnapshotInstall, SnapshotClean, SnapshotMissing, SnapshotFails, Restart, diskVars
  <2> QED
    BY <1>0, <1>3, <2>1, MetaWritten
<1>5. CASE ApplyEmpty
  <2> DEFINE c == [Meta EXCEPT !.applied = Meta.applied + 1]
  <2>1. c \in MetaState /\ metas' = Append(metas, c)
    BY <1>5, EmptyFacts
  <2>2. c.commit = Meta.commit /\ pendingSnap' = pendingSnap
    BY <1>0, <1>5 DEF MetaState, ApplyEmpty
  <2> HIDE DEF c
  <2> QED
    BY <1>0, <1>3, <2>1, <2>2, MetaWritten
<1>6. CASE ApplyMeta
  <2>1. PICK to \in 0 .. MaxIndex :
          LET m == [Meta EXCEPT !.applied = Meta.applied + 1, !.trunc = to] IN
          m \in MetaState /\ metas' = <<m>>
    BY <1>6, CommandFacts
  <2> DEFINE c == [Meta EXCEPT !.applied = Meta.applied + 1, !.trunc = to]
  <2>2. c \in MetaState /\ metas' = <<c>>
    BY <2>1
  <2>3. c.commit = Meta.commit /\ pendingSnap' = pendingSnap
    BY <1>0, <1>6 DEF MetaState, ApplyMeta
  <2> HIDE DEF c
  <2> QED
    BY <1>0, <1>3, <2>2, <2>3, MetaWritten
<1>7. CASE CompactRaftLog
  <2>1. PICK log \in Log : /\ [Meta EXCEPT !.log = log] \in MetaState
                           /\ \/ metas' = Append(metas, [Meta EXCEPT !.log = log])
                              \/ metas' = metas
    BY <1>7, CompactFacts
  <2> DEFINE c == [Meta EXCEPT !.log = log]
  <2>2. c.commit = Meta.commit /\ pendingSnap' = pendingSnap
    BY <1>0, <1>7 DEF MetaState, CompactRaftLog
  <2>3. c \in MetaState /\ (metas' = Append(metas, c) \/ metas' = metas)
    BY <2>1
  <2> HIDE DEF c
  <2> QED
    BY <1>0, <1>3, <2>2, <2>3, MetaWritten
<1>8. CASE SnapshotDone
  <2> DEFINE c == [Meta EXCEPT !.state = "normal"]
  <2>1. c \in MetaState /\ c.commit = Meta.commit /\ metas' = <<c>> /\ pendingSnap' = pendingSnap
    BY <1>0, <1>8 DEF MetaState, SnapshotDone, writeSync
  <2> HIDE DEF c
  <2> QED
    BY <1>0, <1>3, <2>1, MetaWritten
<1> QED
  BY <1>1, <1>2, <1>4, <1>5, <1>6, <1>7, <1>8 DEF Next, Worker

\* At the start nothing is written and nothing runs but the registration.
LEMMA InitRest == Init => StepInv /\ NormalInv /\ ApplyingInv /\ PendingInv
<1> SUFFICES ASSUME Init PROVE StepInv /\ NormalInv /\ ApplyingInv /\ PendingInv
  OBVIOUS
<1>1. Types
  BY InitTypes
<1>2. StepInv
  BY DEF Init, StepInv, goodStep
<1>3. PICK m \in MetaState : metas = <<m>> /\ m.state = "normal" /\ m.applied = 0
  BY <1>1 DEF Init, Types
<1>4. Meta = m /\ Versions = {m}
  BY <1>3, OneIs DEF Meta, Versions
<1>5. Range(datas) = {{}}
  BY OneIs DEF Init
<1>6. writes(0) = {}
  BY DEF writes
<1>7. matches({}, Meta.applied)
  BY <1>3, <1>4, <1>6 DEF matches
<1>8. NormalInv
  BY <1>5, <1>7 DEF Init, NormalInv
<1>9. ApplyingInv
  BY <1>3, <1>4 DEF ApplyingInv
<1>10. PendingInv
  BY DEF Init, PendingInv
<1> QED
  BY <1>2, <1>8, <1>9, <1>10

\* The invariant depends on the variables only.
LEMMA StorageStutter ==
    ASSUME StorageInv, UNCHANGED vars
    PROVE  StorageInv'
<1> USE DEF vars, diskVars, loopVars, workerVars, historyVars
<1>1. Types'
  BY DEF StorageInv, Types
<1>2. Meta' = Meta /\ Data' = Data /\ Versions' = Versions
  BY DEF Meta, Data, Versions
<1>3. VersionsInv'
  BY <1>2 DEF StorageInv, VersionsInv, goodVersion, writes
<1>4. QueueInv'
  BY <1>2 DEF StorageInv, QueueInv
<1>5. StepInv' /\ ViewInv'
  BY <1>2 DEF StorageInv, StepInv, goodStep, ViewInv
<1>6. NormalInv'
  BY <1>2, NormalFrame DEF StorageInv
<1>7. ApplyingInv' /\ PendingInv'
  BY <1>2 DEF StorageInv, ApplyingInv, PendingInv, writes
<1> QED
  BY <1>1, <1>3, <1>4, <1>5, <1>6, <1>7 DEF StorageInv

\* StorageInv holds in every state: it holds at the start, and every step of the
\* two workers, a crash and a restart keep it.
LEMMA StorageInvariant == Spec => []StorageInv
<1>1. Init => StorageInv
  BY InitTypes, InitVersions, InitQueue, InitView, InitRest DEF StorageInv
<1>2. StorageInv /\ [Next]_vars => StorageInv'
  <2> SUFFICES ASSUME StorageInv, [Next]_vars PROVE StorageInv'
    OBVIOUS
  <2>1. CASE Next
    <3>1. Types'
      BY <2>1, LoopTypes, WorkerTypes DEF Next
    <3> QED
      BY <2>1, <3>1, NextVersions, NextQueue, NextStep, NextView, NextNormal, NextApplying,
         NextPending
      DEF StorageInv
  <2>2. CASE UNCHANGED vars
    BY <2>2, StorageStutter
  <2> QED
    BY <2>1, <2>2
<1> QED
  BY <1>1, <1>2, PTL DEF Spec

\* Every variable always has its type: every version of the metadata that a
\* crash may bring back, the queue of the apply worker and the apply results.
THEOREM StorageTypes == Spec => []TypeOK
<1>1. StorageInv => TypeOK
  <2> SUFFICES ASSUME StorageInv PROVE TypeOK
    OBVIOUS
  <2>1. Types
    BY DEF StorageInv
  <2>2. ASSUME NEW m \in Range(metas)
        PROVE  /\ m.state \in {"normal", "applying"}
               /\ m.last \in 0 .. MaxIndex /\ m.commit \in 0 .. MaxIndex
               /\ m.applied \in 0 .. MaxIndex /\ m.trunc \in 0 .. MaxIndex
               /\ DOMAIN m.log \subseteq Indexes /\ Range(m.log) \subseteq {"agreed", "lost"}
    <3>1. m \in MetaState
      BY <2>1, <2>2, Current DEF Versions
    <3> QED
      BY <3>1, LogIs DEF MetaState
  <2>3. Len(metas) > 0 /\ Len(datas) > 0
    BY <2>1 DEF Types
  <2>4. Range(datas) \subseteq SUBSET Indexes
    BY <2>1, Current
  <2>5. ASSUME NEW r \in Range(results) PROVE r.first \in 0 .. MaxIndex /\ r.state \in ApplyState
    <3>1. r \in Result
      BY <2>1 DEF Types, Range
    <3> QED
      BY <3>1 DEF Result
  <2>6. DOMAIN stable \subseteq Indexes /\ Range(stable) \subseteq {"agreed", "lost"}
    BY <2>1, LogIs DEF Types
  <2> QED
    BY <2>1, <2>2, <2>3, <2>4, <2>5, <2>6 DEF Types, TypeOK
<1> QED
  BY <1>1, StorageInvariant, PTL

\* Whatever a crash leaves of the metadata, newPeerStorage loads states that fit
\* together; the delegate gets every entry right after the one before it; and
\* doApplyCompactRaftLog finds entries to count.
THEOREM StorageNeverFatal == Spec => []NoFatal
<1>1. StorageInv => NoFatal
  <2> SUFFICES ASSUME StorageInv PROVE NoFatal
    OBVIOUS
  <2>1. ~fatal
    BY DEF StorageInv, Types
  <2>2. ASSUME runs("apply") PROVE indexMatches
    <3>1. /\ Head(jobs) = jobs[1] /\ jobs[1].from = Meta.applied + 1
          /\ delegate = [applied |-> Meta.applied, trunc |-> Meta.trunc]
      BY <2>2, HeadIs, ApplyFacts
    <3> QED
      BY <3>1 DEF indexMatches
  <2> QED
    BY <2>1, <2>2 DEF NoFatal
<1> QED
  BY <1>1, StorageInvariant, PTL

\* While the store runs, every entry after peerStorage's truncated index is on
\* disk, whatever the apply worker has deleted and however far it is ahead.
THEOREM LogStaysReadable == Spec => []ReadableLog
<1>1. StorageInv => ReadableLog
  BY DEF StorageInv, ViewInv, readable, ReadableLog, running
<1> QED
  BY <1>1, StorageInvariant, PTL

\* Entries that raft was told to be stable are in the log after any number of
\* crashes, until they are compacted.
THEOREM StableEntriesSurvive == Spec => []StableSurvives
<1>1. StorageInv => StableSurvives
  BY CurrentGood DEF goodVersion, StableSurvives
<1> QED
  BY <1>1, StorageInvariant, PTL

\* The data of a normal replica and its apply state are never more than one
\* write apart, whatever a crash leaves of the two storages: unless a snapshot
\* failed to be installed, or lost its unsynced data in a crash, and none of the
\* applied index was installed since.
THEOREM DataFollowsLog == Spec => []DataMatches
<1>1. StorageInv => DataMatches
  <2> SUFFICES ASSUME StorageInv, Meta.state = "normal", ~snapshotLost
               PROVE  matches(Data, Meta.applied)
    BY DEF DataMatches, matches
  <2> QED
    BY Current DEF StorageInv, NormalInv
<1> QED
  BY <1>1, StorageInvariant, PTL
=============================================================================

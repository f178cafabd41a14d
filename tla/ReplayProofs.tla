---------------------------- MODULE ReplayProofs ----------------------------
(***************************************************************************)
(* What execution_lifecycle.replay computes of a log of any length: it is  *)
(* defined for every log, it is the only run of the reducer along it, and  *)
(* one more event takes it one step further.                               *)
(***************************************************************************)
EXTENDS ExecutionRows, DataInduction

\* f holds the snapshots after each of the first k events of the log.
Replays(f, log, k) ==
  f = [n \in 0..k |-> IF n = 0 THEN InitialSnapshot ELSE Reduce(f[n - 1], log[n])]

\* There is such a function, however long the log.
LEMMA ReplayExists ==
  ASSUME NEW log, Len(log) \in Nat
  PROVE  \E f : Replays(f, log, Len(log))
<1> DEFINE S == {k \in Nat : \E f : Replays(f, log, k)}
<1>1. 0 \in S
  <2> DEFINE f == [n \in 0..0 |-> InitialSnapshot]
  <2>1. Replays(f, log, 0)
    BY DEF Replays
  <2> HIDE DEF f
  <2> QED
    BY <2>1
<1>2. ASSUME NEW k \in Nat, k \in S
      PROVE  k + 1 \in S
  <2>1. PICK f : Replays(f, log, k)
    BY <1>2
  <2> DEFINE g == [n \in 0..(k + 1) |-> IF n = k + 1 THEN Reduce(f[k], log[k + 1]) ELSE f[n]]
  <2>2. \A n \in 0..(k + 1) :
          g[n] = IF n = 0 THEN InitialSnapshot ELSE Reduce(g[n - 1], log[n])
    <3> TAKE n \in 0..(k + 1)
    <3>1. CASE n = 0
      BY <2>1, <3>1 DEF Replays
    <3>2. CASE n \in 1..k
      BY <2>1, <3>2 DEF Replays
    <3>3. CASE n = k + 1
      BY <3>3
    <3> QED
      BY <3>1, <3>2, <3>3
  <2>3. Replays(g, log, k + 1)
    BY <2>2 DEF Replays
  <2> HIDE DEF g
  <2> QED
    BY <2>3
<1> HIDE DEF S
<1>3. Nat \subseteq S
  BY <1>1, <1>2, InductionOnSets
<1> QED
  BY <1>3 DEF S

\* So replay, defined by recursion, does what its recursion says.
LEMMA ReplayByStep ==
  ASSUME NEW log, Len(log) \in Nat
  PROVE  /\ ReplayStates(log)[0] = InitialSnapshot
         /\ \A n \in 1..Len(log) : ReplayStates(log)[n] = Reduce(ReplayStates(log)[n - 1], log[n])
<1>1. Replays(ReplayStates(log), log, Len(log))
  BY ReplayExists DEF ReplayStates, Replays
<1> HIDE DEF ReplayStates
<1>2. \A n \in 0..Len(log) : ReplayStates(log)[n] =
        IF n = 0 THEN InitialSnapshot ELSE Reduce(ReplayStates(log)[n - 1], log[n])
  BY <1>1 DEF Replays
<1> QED
  BY <1>2

\* A run of the reducer along the first k events is the replay of these.
LEMMA ReplayIsRun ==
  ASSUME NEW log, Len(log) \in Nat, NEW h, NEW k \in 0..Len(log), h[0] = InitialSnapshot,
         \A n \in 1..k : h[n] = Reduce(h[n - 1], log[n])
  PROVE  \A n \in 0..k : ReplayStates(log)[n] = h[n]
<1> DEFINE S == {n \in Nat : n \in 0..k => ReplayStates(log)[n] = h[n]}
<1>1. 0 \in S
  BY ReplayByStep
<1>2. ASSUME NEW n \in Nat, n \in S
      PROVE  n + 1 \in S
  <2>1. ASSUME n + 1 \in 0..k
        PROVE  ReplayStates(log)[n + 1] = h[n + 1]
    <3>1. ReplayStates(log)[n] = h[n] /\ n + 1 \in 1..k /\ n + 1 \in 1..Len(log)
          /\ (n + 1) - 1 = n
      BY <1>2, <2>1
    <3> HIDE DEF S
    <3> QED
      BY <3>1, ReplayByStep
  <2> QED
    BY <2>1
<1> HIDE DEF S
<1>3. Nat \subseteq S
  BY <1>1, <1>2, InductionOnSets
<1> QED
  BY <1>3 DEF S

\* A replay that meets no illegal event is given by any run of the reducer.
LEMMA ReplayableByRun ==
  ASSUME NEW log, Len(log) \in Nat, NEW h, h[1] = InitialSnapshot,
         \A n \in 1..Len(log) : Accepts(h[n], log[n]) /\ h[n + 1] = Reduce(h[n], log[n])
  PROVE  Replayable(log) /\ Replay(log) = h[Len(log) + 1]
<1> DEFINE f == [n \in 0..Len(log) |-> h[n + 1]]
<1>1. f[0] = InitialSnapshot
  OBVIOUS
<1>2. \A n \in 1..Len(log) : f[n] = Reduce(f[n - 1], log[n])
  OBVIOUS
<1>3. f[Len(log)] = h[Len(log) + 1] /\ \A n \in 1..Len(log) : Accepts(f[n - 1], log[n])
  OBVIOUS
<1> HIDE DEF f
<1>4. \A n \in 0..Len(log) : ReplayStates(log)[n] = f[n]
  BY <1>1, <1>2, ReplayIsRun
<1>5. \A n \in 1..Len(log) : ReplayStates(log)[n - 1] = f[n - 1]
  BY <1>4
<1> QED
  BY <1>3, <1>4, <1>5 DEF Replayable, Replay

\* One event more: what was replayed of the log stays, and the event is applied.
LEMMA ReplayOfAppend ==
  ASSUME NEW S, NEW log \in Seq(S), NEW e \in S
  PROVE  /\ Replay(Append(log, e)) = Reduce(Replay(log), e)
         /\ Replayable(Append(log, e)) <=> Replayable(log) /\ Accepts(Replay(log), e)
<1> DEFINE l == Append(log, e)
<1>1. /\ Len(log) \in Nat /\ Len(l) = Len(log) + 1 /\ l[Len(log) + 1] = e
      /\ \A n \in 1..Len(log) : l[n] = log[n]
  OBVIOUS
<1> HIDE DEF l
<1>2. \A n \in 1..Len(log) : ReplayStates(log)[n] = Reduce(ReplayStates(log)[n - 1], l[n])
  BY <1>1, ReplayByStep
<1>3. \A n \in 0..Len(log) : ReplayStates(l)[n] = ReplayStates(log)[n]
  <2>1. ReplayStates(log)[0] = InitialSnapshot
    BY <1>1, ReplayByStep
  <2>2. Len(l) \in Nat /\ Len(log) \in 0..Len(l)
    BY <1>1
  <2> QED
    BY <1>2, <2>1, <2>2, ReplayIsRun
<1>4. ReplayStates(l)[Len(log) + 1] = Reduce(Replay(log), e)
  <2>1. ReplayStates(l)[Len(log) + 1] = Reduce(ReplayStates(l)[(Len(log) + 1) - 1], l[Len(log) + 1])
    BY <1>1, ReplayByStep
  <2>2. (Len(log) + 1) - 1 = Len(log) /\ Len(log) \in 0..Len(log)
    BY <1>1
  <2> QED
    BY <1>1, <1>3, <2>1, <2>2 DEF Replay
<1>5. Replay(l) = Reduce(Replay(log), e)
  BY <1>1, <1>4 DEF Replay
<1>6. Replayable(l) <=> Replayable(log) /\ Accepts(Replay(log), e)
  <2>1. \A n \in 1..Len(log) : ReplayStates(l)[n - 1] = ReplayStates(log)[n - 1]
    BY <1>1, <1>3
  <2>2. ReplayStates(l)[(Len(log) + 1) - 1] = Replay(log)
    BY <1>1, <1>3 DEF Replay
  <2>3. \A n : n \in 1..Len(l) <=> n \in 1..Len(log) \/ n = Len(log) + 1
    BY <1>1
  <2> QED
    BY <1>1, <2>1, <2>2, <2>3 DEF Replayable
<1> QED
  BY <1>5, <1>6 DEF l

\* Of no events, replay makes the initial snapshot.
LEMMA ReplayOfNothing == Replayable(<<>>) /\ Replay(<<>>) = InitialSnapshot
<1>1. Len(<<>>) = 0
  OBVIOUS
<1> QED
  BY <1>1, ReplayByStep DEF Replayable, Replay

\* On an event whose identities are new to a snapshot, the reducer cannot tell
\* the snapshot from the one rebuilt from the materialized parent: append_event
\* validates against the latter, replay against the former.
LEMMA ReducerAgrees ==
  ASSUME NEW n, NEW e, NEW p, p = Materialized(n),
         e.id \notin n.ids,
         e.type = "fill_recorded" => e.key \notin n.keys
  PROVE  /\ Accepts(SnapshotFromParent(p), e) <=> Accepts(n, e)
         /\ Materialized(Reduce(SnapshotFromParent(p), e)) = Materialized(Reduce(n, e))
         /\ TargetState(SnapshotFromParent(p), e) = TargetState(n, e)
<1> DEFINE m == SnapshotFromParent(p)
<1>1. /\ m.state = n.state /\ m.sequence = n.sequence /\ m.filled = n.filled
      /\ m.ids = {} /\ m.keys = {}
  BY DEF SnapshotFromParent, Materialized
<1>2. IsNewFill(m, e) <=> IsNewFill(n, e)
  BY <1>1 DEF IsNewFill
<1> HIDE DEF m
<1>3. TargetState(m, e) = TargetState(n, e)
  BY <1>1, <1>2 DEF TargetState
<1>4. Accepts(m, e) <=> Accepts(n, e)
  BY <1>1, <1>2, <1>3 DEF Accepts
<1>5. Materialized(Reduce(m, e)) = Materialized(Reduce(n, e))
  BY <1>1, <1>2, <1>3 DEF Materialized, Reduce
<1> QED
  BY <1>3, <1>4, <1>5 DEF m

=============================================================================

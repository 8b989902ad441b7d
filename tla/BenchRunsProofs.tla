-------------------------- MODULE BenchRunsProofs --------------------------
(* Proofs about bench/bench.service.ts and eval/engine.ts, for any runs,   *)
(* any number of variants, repeats and cases, any concurrency and retries. *)
EXTENDS BenchRuns, TLAPS, SequenceTheorems, FiniteSetTheorems

(* Sorting: results of every case of every pass, each once, in any order,  *)
(* are sorted into the report Whole. The place of a result there is:       *)
Rank(r, x) == (x[1] - 1) * Cases[r] + x[2]

Grid(r) == (1 .. Passes[r]) \X Jobs(r)

LEMMA Products == \A a, b, c \in Nat : a <= b => a * c <= b * c /\ a * c \in Nat
<1> TAKE a, b, c \in Nat
<1> HAVE a <= b
<1>1. PICK d \in Nat : b = a + d
  <2>1. b - a \in Nat /\ b = a + (b - a)
    OBVIOUS
  <2> QED
    BY <2>1
<1>2. b * c = a * c + d * c /\ d * c \in Nat /\ a * c \in Nat
  BY <1>1
<1> QED
  BY <1>2

LEMMA Sizes == \A r \in Runs : Passes[r] \in Nat \ {0} /\ Cases[r] \in Nat \ {0}
BY SizesAssumption

LEMMA RankOrder ==
    ASSUME NEW r \in Runs, NEW x \in Grid(r), NEW y \in Grid(r)
    PROVE  /\ Rank(r, x) \in Nat
           /\ Before(x, y) <=> Rank(r, x) < Rank(r, y)
           /\ Rank(r, x) = Rank(r, y) => x = y
<1> DEFINE C == Cases[r]
<1>1. C \in Nat \ {0} /\ Passes[r] \in Nat \ {0}
  BY Sizes
<1> HIDE DEF C
<1>2. \A u \in Grid(r) : /\ u = <<u[1], u[2]>> /\ u[1] - 1 \in Nat /\ u[1] \in Nat
                        /\ u[2] \in Nat /\ 1 <= u[2] /\ u[2] <= C
  BY <1>1 DEF Grid, Jobs, C
<1>3. \A u \in Grid(r) : /\ (u[1] - 1) * C \in Nat /\ u[1] * C = (u[1] - 1) * C + C
                        /\ Rank(r, u) = (u[1] - 1) * C + u[2]
  BY <1>1, <1>2 DEF Rank, C
<1>4. ASSUME NEW u \in Grid(r), NEW v \in Grid(r), Before(u, v) PROVE Rank(r, u) < Rank(r, v)
  <2>1. CASE u[1] < v[1]
    <3>1. u[1] <= v[1] - 1
      BY <1>2, <2>1
    <3>2. u[1] * C <= (v[1] - 1) * C
      BY <1>1, <1>2, <3>1, Products
    <3>3. /\ (u[1] - 1) * C \in Nat /\ u[1] * C = (u[1] - 1) * C + C
          /\ (v[1] - 1) * C \in Nat /\ C \in Nat
          /\ u[2] \in Nat /\ v[2] \in Nat /\ u[2] <= C /\ 1 <= v[2]
          /\ Rank(r, u) = (u[1] - 1) * C + u[2] /\ Rank(r, v) = (v[1] - 1) * C + v[2]
      BY <1>1, <1>2, <1>3
    <3> HIDE DEF Rank
    <3> QED
      BY <3>2, <3>3
  <2>2. CASE u[1] = v[1] /\ u[2] < v[2]
    BY <1>1, <1>2, <1>3, <2>2
  <2> QED
    BY <1>4, <2>1, <2>2 DEF Before
<1>5. \A u \in Grid(r) : Rank(r, u) \in Nat
  BY <1>2, <1>3
<1>6. Before(x, y) \/ Before(y, x) \/ x = y
  BY <1>2 DEF Before
<1> QED
  BY <1>4, <1>5, <1>6

LEMMA RankWhole ==
    ASSUME NEW r \in Runs
    PROVE  /\ Passes[r] * Cases[r] \in Nat
           /\ \A x \in Grid(r) : Rank(r, x) \in 1 .. Passes[r] * Cases[r]
           /\ \A k \in 1 .. Passes[r] * Cases[r] :
                 Whole(r)[k] \in Grid(r) /\ Rank(r, Whole(r)[k]) = k
           /\ \A x \in Grid(r) : Whole(r)[Rank(r, x)] = x
<1> DEFINE C == Cases[r]
           P == Passes[r]
<1>1. C \in Nat \ {0} /\ P \in Nat \ {0}
  BY Sizes
<1>2. P * C \in Nat
  BY <1>1
<1> HIDE DEF C, P
<1>3. ASSUME NEW x \in Grid(r) PROVE Rank(r, x) \in 1 .. P * C
  <2>1. x[1] \in Nat /\ x[1] - 1 \in Nat /\ x[1] <= P /\ x[2] \in Nat /\ 1 <= x[2] /\ x[2] <= C
    BY <1>1 DEF Grid, Jobs, C, P
  <2>2. (x[1] - 1) * C \in Nat /\ x[1] * C = (x[1] - 1) * C + C
    BY <1>1, <2>1
  <2>3. x[1] * C <= P * C
    BY <1>1, <2>1, Products
  <2>4. Rank(r, x) = (x[1] - 1) * C + x[2]
    BY DEF Rank, C
  <2> QED
    BY <1>1, <1>2, <2>1, <2>2, <2>3, <2>4
<1>4. ASSUME NEW k \in 1 .. P * C
      PROVE  Whole(r)[k] \in Grid(r) /\ Rank(r, Whole(r)[k]) = k
  <2> DEFINE q == (k - 1) \div C
             m == (k - 1) % C
  <2>1. k - 1 \in Nat
    BY <1>2
  <2>2. q \in Nat /\ m \in Nat /\ m < C /\ k - 1 = C * q + m
    BY <1>1, <2>1
  <2>3. Whole(r)[k] = <<q + 1, m + 1>>
    BY DEF Whole, C, P
  <2> HIDE DEF q, m
  <2>4. C * q = q * C /\ q * C \in Nat
    BY <1>1, <2>2
  <2>5. q < P
    <3> SUFFICES ASSUME P <= q PROVE FALSE
      BY <1>1, <2>2
    <3>1. P * C <= q * C
      BY <1>1, <2>2, Products
    <3> QED
      BY <1>2, <2>1, <2>2, <2>4, <3>1
  <2>6. Whole(r)[k] \in Grid(r)
    BY <1>1, <2>2, <2>3, <2>5 DEF Grid, Jobs, C, P
  <2>7. Rank(r, Whole(r)[k]) = q * C + (m + 1)
    BY <2>2, <2>3 DEF Rank, C
  <2>8. q * C + (m + 1) = k
    BY <2>1, <2>2, <2>4
  <2> QED
    BY <2>6, <2>7, <2>8
<1>5. ASSUME NEW x \in Grid(r) PROVE Whole(r)[Rank(r, x)] = x
  BY <1>3, <1>4, RankOrder
<1> QED
  BY <1>2, <1>3, <1>4, <1>5 DEF C, P

\* No result twice.
Once(s) == \A i, j \in DOMAIN s : s[i] = s[j] => i = j

LEMMA SortsToWhole ==
    ASSUME NEW r \in Runs, NEW s \in Seq(Grid(r)), Once(s),
           \A x \in Grid(r) : \E k \in DOMAIN s : s[k] = x
    PROVE  Sorted(s) = Whole(r)
<1> DEFINE N == Passes[r] * Cases[r]
           D == DOMAIN s
           f == [k \in D |-> Rank(r, s[k])]
<1>1. Len(s) \in Nat /\ D = 1 .. Len(s) /\ \A k \in D : s[k] \in Grid(r)
  OBVIOUS
<1>2. N \in Nat
  BY RankWhole
<1>3. \A k \in D : f[k] \in 1 .. N /\ s[k] = Whole(r)[f[k]]
  BY <1>1, RankWhole
<1>4. \A j, k \in D : /\ f[j] = f[k] => j = k
                      /\ Before(s[j], s[k]) <=> f[j] < f[k]
  BY <1>1, RankOrder DEF Once
<1>5. \A n \in 1 .. N : \E k \in D : f[k] = n
  BY RankWhole
<1>6. f \in [D -> 1 .. N]
  BY <1>3
<1> HIDE DEF D, f, N
<1>7. D = 1 .. N
  <2>1. f \in Bijection(D, 1 .. N)
    BY <1>4, <1>5, <1>6 DEF Bijection, Injection, Surjection, IsInjective
  <2>2. IsFiniteSet(D) /\ Cardinality(D) = Len(s)
    <3>1. CASE Len(s) = 0
      <4>1. D = {}
        BY <1>1, <3>1
      <4> QED
        BY <3>1, <4>1, FS_EmptySet
    <3>2. CASE Len(s) # 0
      <4>1. 1 \in Int /\ Len(s) \in Int /\ Len(s) >= 1
        BY <1>1, <3>2
      <4>2. IsFiniteSet(1 .. Len(s)) /\ Cardinality(1 .. Len(s)) = Len(s) - 1 + 1
        BY <4>1, FS_Interval
      <4> QED
        BY <1>1, <4>1, <4>2
    <3> QED
      BY <3>1, <3>2
  <2>3. Cardinality(1 .. N) = N
    BY <1>2, FS_Interval
  <2>4. ExistsBijection(D, 1 .. N)
    BY <2>1 DEF ExistsBijection
  <2>5. Len(s) = N
    BY <2>2, <2>3, <2>4, FS_Bijection
  <2> QED
    BY <1>1, <2>5
<1>8. ASSUME NEW k \in D PROVE Place(s, k) = f[k] - 1
  <2> DEFINE A == {i \in D : f[i] < f[k]}
             g == [i \in A |-> f[i]]
  <2>1. Place(s, k) = Cardinality(A)
    <3>1. \A i \in D : (s[i] = s[k] /\ i < k) => FALSE
      BY <1>1, <1>8 DEF Once, D
    <3>2. {i \in D : Before(s[i], s[k]) \/ (s[i] = s[k] /\ i < k)} = A
      BY <1>4, <3>1
    <3> QED
      BY <3>2 DEF Place, D
  <2>2. f[k] \in 1 .. N /\ f[k] - 1 \in Nat
    BY <1>2, <1>6
  <2>3. g \in Bijection(A, 1 .. f[k] - 1)
    <3>1. g \in [A -> 1 .. f[k] - 1]
      BY <1>2, <1>6, <2>2
    <3>2. \A i, j \in A : g[i] = g[j] => i = j
      BY <1>4
    <3>3. \A n \in 1 .. f[k] - 1 : \E i \in A : g[i] = n
      <4> TAKE n \in 1 .. f[k] - 1
      <4>1. n \in 1 .. N /\ n < f[k]
        BY <1>2, <2>2
      <4>2. PICK i \in D : f[i] = n
        BY <1>5, <4>1
      <4> QED
        BY <4>1, <4>2
    <3> QED
      BY <3>1, <3>2, <3>3 DEF Bijection, Injection, Surjection, IsInjective
  <2>4. IsFiniteSet(A)
    <3>1. IsFiniteSet(D)
      BY <1>2, <1>7, FS_Interval
    <3>2. A \in SUBSET D
      OBVIOUS
    <3> QED
      BY <3>1, <3>2, FS_Subset
  <2>5. ExistsBijection(A, 1 .. f[k] - 1)
    BY <2>3 DEF ExistsBijection
  <2>6. Cardinality(1 .. f[k] - 1) = f[k] - 1
    BY <2>2, FS_Interval
  <2> HIDE DEF A, g
  <2> QED
    BY <2>1, <2>4, <2>5, <2>6, FS_Bijection
<1>9. ASSUME NEW n \in D PROVE s[CHOOSE k \in D : Place(s, k) = n - 1] = Whole(r)[n]
  <2>1. PICK k \in D : f[k] = n
    BY <1>5, <1>7
  <2>2. \E j \in D : Place(s, j) = n - 1
    BY <1>8, <2>1
  <2> DEFINE c == CHOOSE j \in D : Place(s, j) = n - 1
  <2>3. c \in D /\ Place(s, c) = n - 1
    BY <2>2
  <2> HIDE DEF c
  <2>4. f[c] = n
    <3>1. f[c] - 1 = n - 1 /\ f[c] \in Int /\ n \in Int
      BY <1>2, <1>6, <1>7, <1>8, <2>3
    <3> QED
      BY <3>1
  <2> QED
    BY <1>3, <2>3, <2>4 DEF c
<1>10. Sorted(s) = [n \in D |-> Whole(r)[n]]
  BY <1>9 DEF Sorted, D
<1>11. Whole(r) = [n \in 1 .. N |-> Whole(r)[n]]
  BY DEF Whole, N
<1> QED
  BY <1>7, <1>10, <1>11
-----------------------------------------------------------------------------
(* Types *)

RunStates(r) == [stage : Stages, aborted : BOOLEAN, pass : 1 .. Passes[r],
                 next : 1 .. Cases[r] + 1, busy : SUBSET Jobs(r),
                 retry : [Jobs(r) -> 0 .. Retries], broken : BOOLEAN,
                 results : Results(r)]

\* The record of the runs has an entry for each, of the right type.
RunsTyped == /\ run = [r \in Runs |-> run[r]]
             /\ \A r \in Runs : run[r] \in RunStates(r)

\* A step that changes the state of run r alone.
LEMMA Updated ==
    ASSUME RunsTyped, NEW r \in Runs, NEW w \in RunStates(r), run' = [run EXCEPT ![r] = w]
    PROVE  /\ RunsTyped'
           /\ run'[r] = w
           /\ \A s \in Runs \ {r} : run'[s] = run[s]
<1>1. run'[r] = w /\ (\A s \in Runs \ {r} : run'[s] = run[s]) /\ run' = [s \in Runs |-> run'[s]]
  BY DEF RunsTyped
<1>2. RunsTyped'
  BY <1>1 DEF RunsTyped, RunStates, Results, Jobs
<1> QED
  BY <1>1, <1>2

LEMMA Moved ==
    ASSUME RunsTyped, NEW r \in Runs, NEW stage \in Stages, Becomes(r, stage)
    PROVE  /\ RunsTyped'
           /\ run'[r] = [run[r] EXCEPT !.stage = stage]
           /\ \A s \in Runs \ {r} : run'[s] = run[s]
<1> DEFINE w == [run[r] EXCEPT !.stage = stage]
<1>1. run' = [run EXCEPT ![r] = w]
  BY DEF Becomes
<1>2. w \in RunStates(r)
  BY DEF RunsTyped, RunStates
<1> QED
  BY <1>1, <1>2, Updated
-----------------------------------------------------------------------------
(* The invariant of a run *)

Recorded(r) == {run[r].results[k] : k \in DOMAIN run[r].results}

\* The results a run must have while its passes go on: those of the passes
\* before, and of this one those its workers took and are no longer at.
Expected(r, x) == \/ x[1] < run[r].pass
                  \/ /\ x[1] = run[r].pass /\ run[r].stage = "cases"
                     /\ x[2] < run[r].next /\ x[2] \notin run[r].busy

Idling(r) == run[r].busy = {} /\ ~run[r].broken

\* What each stage tells of the workers and the results.
Staged(r) ==
    /\ run[r].stage \in {"none", "loading", "gold"} =>
          Idling(r) /\ run[r].pass = 1 /\ run[r].results = <<>>
    /\ run[r].stage = "starting" => Idling(r)
    /\ run[r].stage \in {"saving", "done"} => Idling(r) /\ run[r].results = Whole(r)
    /\ run[r].stage \in Ended /\ run[r].busy # {} => run[r].broken
    /\ run[r].broken => run[r].aborted /\ run[r].stage \in {"cases"} \cup Ended

Counted(r) ==
    run[r].stage \in {"starting", "cases"} /\ ~run[r].broken =>
        /\ Once(run[r].results)
        /\ \A x \in Grid(r) : x \in Recorded(r) <=> Expected(r, x)

\* Workers are at cases that were taken, and stay until none is left.
Worked(r) ==
    run[r].stage = "cases" /\ ~run[r].broken =>
        /\ \A j \in run[r].busy : j < run[r].next
        /\ run[r].next <= Cases[r] => run[r].busy # {}

\* What memory and disk hold of a run. A whole file holds the report, and the
\* run in memory no longer changes.
Kept(r) ==
    /\ active = r => run[r].stage \in UnderWay \cup Ended
    /\ r \in recent => run[r].stage \in Ended
    /\ disk[r] # "none" => run[r].stage \in {"saving"} \cup Ended
    /\ disk[r] = "whole" => run[r].busy = {} /\ run[r].results = Whole(r)

Sound(r) == Staged(r) /\ Counted(r) /\ Worked(r) /\ Kept(r)

\* The record of a run that does not change stays sound when memory and disk
\* lose it or leave it alone.
LEMMA Undisturbed ==
    ASSUME NEW s \in Runs, Sound(s), run'[s] = run[s],
           active' = s => active = s, s \in recent' => s \in recent,
           disk'[s] \in {disk[s], "none"}
    PROVE  Sound(s)'
<1>1. Staged(s)'
  BY DEF Sound, Staged, Idling, Whole
<1>2. Counted(s)'
  BY DEF Sound, Counted, Recorded, Expected, Once, Grid, Jobs
<1>3. Worked(s)'
  BY DEF Sound, Worked
<1>4. Kept(s)'
  BY DEF Sound, Kept, Whole
<1> QED
  BY <1>1, <1>2, <1>3, <1>4 DEF Sound

StoreTyped == /\ active \in Runs \cup {Nobody}
              /\ recent \subseteq Runs
              /\ disk \in [Runs -> {"none", "torn", "whole"}]

RunInv == RunsTyped /\ StoreTyped /\ \A r \in Runs : Sound(r)

LEMMA RunInit == Init => RunInv
<1> SUFFICES ASSUME Init PROVE RunInv
  OBVIOUS
<1>1. \A r \in Runs : run[r] = NoRun(r)
  BY DEF Init
<1>2. RunsTyped
  <2>1. \A r \in Runs : NoRun(r) \in RunStates(r)
    <3> TAKE r \in Runs
    <3>1. Passes[r] \in Nat \ {0} /\ Cases[r] \in Nat \ {0} /\ Retries \in Nat
      BY SizesAssumption
    <3> QED
      BY <3>1 DEF NoRun, RunStates, Results, Stages, UnderWay
  <2>2. run = [r \in Runs |-> NoRun(r)]
    BY DEF Init
  <2> QED
    BY <1>1, <2>1, <2>2 DEF RunsTyped
<1>3. StoreTyped
  BY DEF Init, StoreTyped
<1>4. ASSUME NEW r \in Runs PROVE Sound(r)
  <2>1. run[r].stage = "none" /\ run[r].busy = {} /\ run[r].broken = FALSE /\ run[r].pass = 1
        /\ run[r].results = <<>>
    <3>1. /\ NoRun(r).stage = "none" /\ NoRun(r).busy = {} /\ NoRun(r).broken = FALSE
          /\ NoRun(r).pass = 1
      BY DEF NoRun
    <3>2. NoRun(r).results = <<>>
      BY DEF NoRun
    <3> QED
      BY <1>1, <3>1, <3>2
  <2>2. active # r /\ r \notin recent /\ disk[r] = "none"
    BY NobodyAssumption DEF Init
  <2> QED
    BY <2>1, <2>2 DEF Sound, Staged, Idling, Counted, Worked, Kept, Ended, UnderWay
<1> QED
  BY <1>2, <1>3, <1>4 DEF RunInv
-----------------------------------------------------------------------------
(* Each step keeps the invariant of the runs *)

LEMMA StepOfOne ==
    ASSUME RunInv, NEW r \in Runs, RunsTyped', StoreTyped', Sound(r)',
           \A s \in Runs \ {r} : /\ run'[s] = run[s]
                                 /\ active' = s => active = s
                                 /\ s \in recent' => s \in recent
                                 /\ disk'[s] \in {disk[s], "none"}
    PROVE  RunInv'
<1>1. ASSUME NEW s \in Runs PROVE Sound(s)'
  <2>1. CASE s = r
    BY <2>1
  <2>2. CASE s # r
    BY <2>2, Undisturbed DEF RunInv
  <2> QED
    BY <2>1, <2>2
<1> QED
  BY <1>1 DEF RunInv

\* start() before the run is under way.
LEMMA RunOpens ==
    ASSUME RunInv, NEW r \in Runs, Start(r) \/ Activate(r) \/ Refuse(r)
    PROVE  RunInv'
<1>1. PICK stage \in {"none", "loading", "gold"} : Becomes(r, stage)
  BY DEF Start, Activate, Refuse
<1>2. run[r].stage \in {"none", "loading"} /\ active' \in {active, r}
      /\ (active' = r => active = r \/ stage = "gold") /\ UNCHANGED <<recent, disk>>
  BY <1>1 DEF Start, Activate, Refuse, In, Becomes, RunInv, RunsTyped, RunStates
<1>3. stage \in Stages
  BY <1>1 DEF Stages, UnderWay
<1>4. RunsTyped' /\ run'[r] = [run[r] EXCEPT !.stage = stage] /\ \A s \in Runs \ {r} : run'[s] = run[s]
  BY <1>1, <1>3, Moved DEF RunInv
<1>5. run[r] \in RunStates(r) /\ Sound(r)
  BY DEF RunInv, RunsTyped
<1>6. /\ run'[r].stage = stage /\ run'[r].busy = run[r].busy /\ run'[r].broken = run[r].broken
      /\ run'[r].pass = run[r].pass /\ run'[r].results = run[r].results
  BY <1>4, <1>5 DEF RunStates
<1>7. Staged(r)'
  BY <1>1, <1>2, <1>5, <1>6 DEF Sound, Staged, Idling, Ended
<1>8. Counted(r)' /\ Worked(r)'
  BY <1>1, <1>6 DEF Counted, Worked
<1>9. Kept(r)'
  <2>1. active # r /\ r \notin recent /\ disk[r] = "none"
    BY <1>2, <1>5 DEF Sound, Kept, UnderWay, Ended
  <2> QED
    BY <1>1, <1>2, <1>6, <2>1 DEF Kept, UnderWay
<1>10. StoreTyped'
  BY <1>2 DEF RunInv, StoreTyped
<1> QED
  BY <1>2, <1>4, <1>7, <1>8, <1>9, <1>10, StepOfOne DEF Sound

LEMMA RunCancel == ASSUME RunInv, NEW r \in Runs, Cancel(r) PROVE RunInv'
<1> DEFINE w == [run[r] EXCEPT !.aborted = TRUE]
<1>1. run[r] \in RunStates(r) /\ Sound(r)
  BY DEF RunInv, RunsTyped
<1>2. w \in RunStates(r) /\ run' = [run EXCEPT ![r] = w] /\ UNCHANGED <<active, recent, disk>>
  BY <1>1 DEF Cancel, RunStates
<1>3. RunsTyped' /\ run'[r] = w /\ \A s \in Runs \ {r} : run'[s] = run[s]
  BY <1>2, Updated DEF RunInv
<1>4. /\ run'[r].stage = run[r].stage /\ run'[r].busy = run[r].busy /\ run'[r].aborted
      /\ run'[r].broken = run[r].broken /\ run'[r].pass = run[r].pass
      /\ run'[r].next = run[r].next /\ run'[r].results = run[r].results
  BY <1>1, <1>3 DEF RunStates
<1>5. Staged(r)'
  BY <1>1, <1>4 DEF Sound, Staged, Idling, Whole
<1>6. Counted(r)'
  BY <1>1, <1>4 DEF Sound, Counted, Recorded, Expected, Once, Grid, Jobs
<1>7. Worked(r)' /\ Kept(r)'
  BY <1>1, <1>2, <1>4 DEF Sound, Worked, Kept, Whole
<1>8. StoreTyped'
  BY <1>2 DEF RunInv, StoreTyped
<1> QED
  BY <1>2, <1>3, <1>5, <1>6, <1>7, <1>8, StepOfOne DEF Sound

LEMMA RunRemove == ASSUME RunInv, NEW r \in Runs, Remove(r) PROVE RunInv'
<1>1. /\ run' = run /\ recent' = recent \ {r} /\ active' \in {active, Nobody}
      /\ disk' = [disk EXCEPT ![r] = "none"]
  BY DEF Remove
<1>2. StoreTyped' /\ \A s \in Runs : disk'[s] \in {disk[s], "none"}
  BY <1>1 DEF RunInv, StoreTyped
<1>3. RunsTyped'
  BY <1>1 DEF RunInv, RunsTyped, RunStates, Results, Jobs
<1>4. \A s \in Runs : Sound(s)'
  BY <1>1, <1>2, Undisturbed, NobodyAssumption DEF RunInv
<1> QED
  BY <1>2, <1>3, <1>4 DEF RunInv

LEMMA RunGold == ASSUME RunInv, NEW r \in Runs, GoldComputed(r) PROVE RunInv'
<1>1. run[r].stage = "gold" /\ Becomes(r, "starting") /\ UNCHANGED <<active, recent, disk>>
  BY DEF GoldComputed, In
<1>2. RunsTyped' /\ run'[r] = [run[r] EXCEPT !.stage = "starting"]
      /\ \A s \in Runs \ {r} : run'[s] = run[s]
  BY <1>1, Moved DEF RunInv, Stages, UnderWay
<1>3. run[r] \in RunStates(r) /\ Sound(r)
  BY DEF RunInv, RunsTyped
<1>4. /\ run'[r].stage = "starting" /\ run'[r].busy = {} /\ run'[r].broken = FALSE
      /\ run'[r].pass = 1 /\ run'[r].results = <<>>
  BY <1>1, <1>2, <1>3 DEF Sound, Staged, Idling, RunStates
<1>5. Staged(r)' /\ Worked(r)'
  BY <1>4 DEF Staged, Worked, Idling, Ended
<1>6. Counted(r)'
  BY <1>4, Sizes DEF Counted, Recorded, Expected, Once, Grid
<1>7. Kept(r)'
  BY <1>1, <1>3, <1>4 DEF Sound, Kept, UnderWay, Ended
<1>8. StoreTyped'
  BY <1>1 DEF RunInv, StoreTyped
<1> QED
  BY <1>1, <1>2, <1>5, <1>6, <1>7, <1>8, StepOfOne DEF Sound

\* A run ends by an error or a cancellation.
LEMMA RunEnds ==
    ASSUME RunInv, NEW r \in Runs, GoldFails(r) \/ PassFails(r) \/ Breaks(r) \/ SaveFails(r)
    PROVE  RunInv'
<1> DEFINE stage == IF run[r].aborted THEN "cancelled" ELSE "failed"
<1>1. Becomes(r, stage) /\ recent' = recent \cup {r} /\ active' = active
  BY DEF GoldFails, PassFails, Breaks, SaveFails, Ends
<1>2. stage \in Ended /\ stage \in Stages /\ stage # "done"
  BY DEF Ended, Stages
<1> HIDE DEF stage
<1>3. RunsTyped' /\ run'[r] = [run[r] EXCEPT !.stage = stage] /\ \A s \in Runs \ {r} : run'[s] = run[s]
  BY <1>1, <1>2, Moved DEF RunInv
<1>4. run[r] \in RunStates(r) /\ Sound(r)
  BY DEF RunInv, RunsTyped
<1>5. /\ run'[r].stage = stage /\ run'[r].busy = run[r].busy /\ run'[r].aborted = run[r].aborted
      /\ run'[r].broken = run[r].broken /\ run'[r].results = run[r].results
  BY <1>3, <1>4 DEF RunStates
<1>6. \/ run[r].stage \in {"gold", "starting"} /\ Idling(r) /\ disk' = disk
      \/ run[r].stage = "cases" /\ run[r].broken /\ disk' = disk
      \/ /\ run[r].stage = "saving" /\ Idling(r) /\ run[r].results = Whole(r)
         /\ \E left \in {"none", "torn", "whole"} : disk' = [disk EXCEPT ![r] = left]
  BY <1>4 DEF GoldFails, PassFails, Breaks, SaveFails, In, Sound, Staged
<1>7. stage \notin {"none", "loading", "gold", "starting", "cases", "saving", "done"}
  BY <1>2 DEF Ended
<1>8. Staged(r)'
  BY <1>2, <1>4, <1>5, <1>6, <1>7 DEF Sound, Staged, Idling
<1>9. Counted(r)' /\ Worked(r)'
  BY <1>5, <1>7 DEF Counted, Worked
<1>10. StoreTyped' /\ \A s \in Runs \ {r} : disk'[s] = disk[s]
  BY <1>1, <1>6 DEF RunInv, StoreTyped
<1>11. Kept(r)'
  BY <1>2, <1>4, <1>5, <1>6, Sizes DEF Kept, Idling, Sound, Ended, Whole
<1>12. \A s \in Runs \ {r} : /\ run'[s] = run[s] /\ (active' = s => active = s)
                             /\ (s \in recent' => s \in recent) /\ disk'[s] \in {disk[s], "none"}
  BY <1>1, <1>3, <1>10
<1> QED
  BY <1>3, <1>8, <1>9, <1>10, <1>11, <1>12, StepOfOne DEF Sound

\* A pass begins with the results of those before it, and a case per worker.
LEMMA RunStartsPass == ASSUME RunInv, NEW r \in Runs, StartPass(r) PROVE RunInv'
<1> DEFINE n == Least(Concurrency, Cases[r])
           w == [run[r] EXCEPT !.stage = "cases", !.busy = 1 .. n, !.next = n + 1]
<1>1. run[r] \in RunStates(r) /\ Sound(r) /\ run[r].stage = "starting"
  BY DEF RunInv, RunsTyped, StartPass, In
<1>2. n \in Nat /\ 1 <= n /\ n <= Cases[r] /\ Cases[r] \in Nat
  BY Sizes, SizesAssumption DEF Least
<1>3. run' = [run EXCEPT ![r] = w] /\ UNCHANGED <<active, recent, disk>>
  BY DEF StartPass
<1> HIDE DEF n
<1>4. w \in RunStates(r)
  <2>1. 1 .. n \subseteq Jobs(r) /\ n + 1 \in 1 .. Cases[r] + 1 /\ "cases" \in Stages
    BY <1>2 DEF Jobs, Stages, UnderWay
  <2> QED
    BY <1>1, <2>1 DEF RunStates
<1>5. RunsTyped' /\ run'[r] = w /\ \A s \in Runs \ {r} : run'[s] = run[s]
  BY <1>3, <1>4, Updated DEF RunInv
<1>6. /\ run'[r].stage = "cases" /\ run'[r].busy = 1 .. n /\ run'[r].next = n + 1
      /\ run'[r].broken = FALSE /\ run'[r].pass = run[r].pass /\ run'[r].results = run[r].results
  BY <1>1, <1>5 DEF RunStates, Sound, Staged, Idling
<1>7. Staged(r)' /\ Worked(r)'
  BY <1>2, <1>6 DEF Staged, Worked, Ended
<1>8. Counted(r)'
  <2>1. Once(run[r].results) /\ \A x \in Grid(r) : x \in Recorded(r) <=> Expected(r, x)
    BY <1>1 DEF Sound, Staged, Counted, Idling
  <2>2. Recorded(r)' = Recorded(r) /\ Once(run[r].results)'
    BY <1>6, <2>1 DEF Recorded, Once
  <2>3. ASSUME NEW x \in Grid(r) PROVE Expected(r, x)' <=> Expected(r, x)
    <3>1. x[2] \in Nat /\ 1 <= x[2]
      BY <1>2 DEF Grid, Jobs
    <3>2. ~(x[2] < n + 1 /\ x[2] \notin 1 .. n)
      BY <1>2, <3>1
    <3> QED
      BY <1>1, <1>6, <3>2 DEF Expected
  <2> QED
    BY <2>1, <2>2, <2>3 DEF Counted, Grid, Jobs
<1>9. Kept(r)'
  BY <1>1, <1>3, <1>6 DEF Sound, Kept, UnderWay, Ended
<1>10. StoreTyped'
  BY <1>3 DEF RunInv, StoreTyped
<1> QED
  BY <1>3, <1>5, <1>7, <1>8, <1>9, <1>10, StepOfOne DEF Sound

LEMMA RunRetries ==
    ASSUME RunInv, NEW r \in Runs, NEW j \in Jobs(r), RetryCase(r, j)
    PROVE  RunInv'
<1> DEFINE w == [run[r] EXCEPT !.retry[j] = @ + 1]
<1>1. run[r] \in RunStates(r) /\ Sound(r)
  BY DEF RunInv, RunsTyped
<1>2. run' = [run EXCEPT ![r] = w] /\ UNCHANGED <<active, recent, disk>>
  BY DEF RetryCase
<1>3. w \in RunStates(r)
  BY <1>1, SizesAssumption DEF RunStates, RetryCase
<1>4. RunsTyped' /\ run'[r] = w /\ \A s \in Runs \ {r} : run'[s] = run[s]
  BY <1>2, <1>3, Updated DEF RunInv
<1>5. /\ run'[r].stage = run[r].stage /\ run'[r].busy = run[r].busy
      /\ run'[r].aborted = run[r].aborted
      /\ run'[r].broken = run[r].broken /\ run'[r].pass = run[r].pass
      /\ run'[r].next = run[r].next /\ run'[r].results = run[r].results
  BY <1>1, <1>4 DEF RunStates
<1>6. Staged(r)'
  BY <1>1, <1>5 DEF Sound, Staged, Idling, Whole
<1>7. Counted(r)'
  BY <1>1, <1>5 DEF Sound, Counted, Recorded, Expected, Once, Grid, Jobs
<1>8. Worked(r)' /\ Kept(r)'
  BY <1>1, <1>2, <1>5 DEF Sound, Worked, Kept, Whole
<1>9. StoreTyped'
  BY <1>2 DEF RunInv, StoreTyped
<1> QED
  BY <1>2, <1>4, <1>6, <1>7, <1>8, <1>9, StepOfOne DEF Sound

\* A worker records the case it was at, and takes the next one or breaks the
\* pass off.
LEMMA RunRecords ==
    ASSUME RunInv, NEW r \in Runs, NEW j \in Jobs(r), CaseDone(r, j)
    PROVE  RunInv'
<1> DEFINE old == run[r]
           more == MoreCases(r)
           taken == IF Takes(r) THEN {old.next} ELSE {}
           results == Append(old.results, <<old.pass, j>>)
           busy == (old.busy \ {j}) \cup taken
           next == IF more THEN NextIndex(r) ELSE old.next
           retry == [old.retry EXCEPT ![j] = 0]
           broken == old.broken \/ (more /\ ~Takes(r))
           w == [old EXCEPT !.results = results, !.busy = busy, !.next = next,
                            !.retry = retry, !.broken = broken]
<1>1. old \in RunStates(r) /\ Sound(r) /\ j \in old.busy
  BY DEF RunInv, RunsTyped, CaseDone
<1>2. run' = [run EXCEPT ![r] = w] /\ UNCHANGED <<active, recent, disk>>
  BY DEF CaseDone
<1>3. Cases[r] \in Nat \ {0} /\ Retries \in Nat /\ old.next \in 1 .. Cases[r] + 1
      /\ NextIndex(r) = old.next + 1 /\ (more <=> old.next <= Cases[r]) /\ (Takes(r) <=> more /\ ~old.aborted)
  BY <1>1, SizesAssumption, Sizes DEF RunStates, MoreCases, Takes, NextIndex
<1>4. <<old.pass, j>> \in Grid(r) /\ old.results \in Seq(Grid(r))
  BY <1>1 DEF RunStates, Grid, Results
<1>5. w \in RunStates(r)
  <2>1. results \in Results(r)
    BY <1>4 DEF Results, Grid
  <2>2. busy \in SUBSET Jobs(r) /\ next \in 1 .. Cases[r] + 1
    BY <1>1, <1>3 DEF Jobs, RunStates
  <2>3. retry \in [Jobs(r) -> 0 .. Retries]
    BY <1>1, <1>3 DEF RunStates
  <2>4. broken \in BOOLEAN
    BY <1>1 DEF RunStates
  <2> HIDE DEF results, busy, next, retry, broken
  <2> QED
    BY <1>1, <2>1, <2>2, <2>3, <2>4 DEF RunStates
<1>6. RunsTyped' /\ run'[r] = w /\ \A s \in Runs \ {r} : run'[s] = run[s]
  <2> HIDE DEF w
  <2> QED
    BY <1>2, <1>5, Updated DEF RunInv
<1>7. /\ run'[r].stage = old.stage /\ run'[r].aborted = old.aborted /\ run'[r].pass = old.pass
      /\ run'[r].next = (IF more THEN old.next + 1 ELSE old.next)
      /\ run'[r].busy = (old.busy \ {j}) \cup taken
      /\ run'[r].results = Append(old.results, <<old.pass, j>>)
      /\ run'[r].broken <=> old.broken \/ (more /\ ~Takes(r))
  <2>1. w.broken = broken
    <3> HIDE DEF results, busy, next, retry, broken
    <3> QED
      BY <1>1 DEF RunStates
  <2>2. /\ w.stage = old.stage /\ w.aborted = old.aborted /\ w.pass = old.pass
        /\ w.next = next /\ w.busy = busy /\ w.results = results
    <3> HIDE DEF results, busy, next, retry, broken
    <3> QED
      BY <1>1 DEF RunStates
  <2> HIDE DEF w
  <2> QED
    BY <1>3, <1>6, <2>1, <2>2
<1> HIDE DEF w, more, taken, results, busy, next, retry, broken
<1>8. old.stage \in {"cases", "failed", "cancelled"} /\ (old.stage # "cases" => old.broken)
  BY <1>1 DEF Sound, Staged, Idling, RunStates, Stages, UnderWay, Ended
<1>9. Staged(r)'
  BY <1>1, <1>3, <1>7, <1>8 DEF Sound, Staged, Ended, RunStates
<1>10. ASSUME ~run'[r].broken
       PROVE  /\ old.stage = "cases" /\ ~old.broken
              /\ Once(old.results) /\ \A x \in Grid(r) : x \in Recorded(r) <=> Expected(r, x)
              /\ \A k \in old.busy : k < old.next
              /\ more => Takes(r) /\ taken = {old.next}
              /\ ~more => taken = {}
  BY <1>1, <1>3, <1>7, <1>8, <1>10 DEF Sound, Counted, Worked, taken
<1>11. Counted(r)'
  <2> SUFFICES ASSUME ~run'[r].broken
               PROVE  /\ Once(run[r].results)'
                      /\ \A x \in Grid(r) : x \in Recorded(r)' <=> Expected(r, x)' 
    BY DEF Counted, Grid, Jobs
  <2> DEFINE c == <<old.pass, j>>
             o == old.results
  <2>1. c \in Grid(r) /\ c[1] = old.pass /\ c[2] = j /\ o \in Seq(Grid(r))
    BY <1>4
  <2>2. ~Expected(r, c) /\ c \notin Recorded(r)
    <3>1. ~Expected(r, c)
      BY <1>1, Sizes DEF Expected, RunStates
    <3> QED
      BY <1>10, <2>1, <3>1
  <2> HIDE DEF c, o
  <2>3. run'[r].results = Append(o, c)
    BY <1>7 DEF c, o
  <2>4. /\ Len(o) \in Nat /\ DOMAIN o = 1 .. Len(o) /\ DOMAIN Append(o, c) = 1 .. Len(o) + 1
        /\ Append(o, c)[Len(o) + 1] = c /\ \A k \in 1 .. Len(o) : Append(o, c)[k] = o[k]
    BY <2>1
  <2>5. \A k \in 1 .. Len(o) : o[k] # c
    BY <2>2, <2>4 DEF Recorded, o
  <2>6. Once(run[r].results)'
    <3>1. Once(o)
      BY <1>10 DEF o
    <3> SUFFICES ASSUME NEW a \in 1 .. Len(o) + 1, NEW b \in 1 .. Len(o) + 1,
                        Append(o, c)[a] = Append(o, c)[b]
                 PROVE  a = b
      BY <2>3, <2>4 DEF Once
    <3>2. a \in 1 .. Len(o) \/ a = Len(o) + 1
      BY <2>4
    <3>3. b \in 1 .. Len(o) \/ b = Len(o) + 1
      BY <2>4
    <3> QED
      BY <2>4, <2>5, <3>1, <3>2, <3>3 DEF Once
  <2>7. Recorded(r)' = Recorded(r) \cup {c}
    <3>1. Recorded(r) = {o[k] : k \in 1 .. Len(o)}
      BY <2>4 DEF Recorded, o
    <3>2. Recorded(r)' = {Append(o, c)[k] : k \in 1 .. Len(o) + 1}
      BY <2>3, <2>4 DEF Recorded
    <3>3. \A k \in 1 .. Len(o) + 1 : k \in 1 .. Len(o) \/ k = Len(o) + 1
      BY <2>4
    <3>4. 1 .. Len(o) \subseteq 1 .. Len(o) + 1 /\ Len(o) + 1 \in 1 .. Len(o) + 1
      BY <2>4
    <3> QED
      BY <2>4, <3>1, <3>2, <3>3, <3>4
  <2>8. ASSUME NEW x \in Grid(r) PROVE Expected(r, x)' <=> Expected(r, x) \/ x = c
    <3>1. x = <<x[1], x[2]>> /\ x[1] \in Nat /\ x[2] \in Nat
      BY Sizes DEF Grid, Jobs
    <3>2. x = c <=> x[1] = old.pass /\ x[2] = j
      BY <3>1 DEF c
    <3>3. j < old.next /\ j \in Nat /\ old.next \in Nat
      BY <1>1, <1>3, <1>10 DEF Jobs
    <3>4. CASE more
      <4>1. run'[r].next = old.next + 1 /\ run'[r].busy = (old.busy \ {j}) \cup {old.next}
        BY <1>7, <1>10, <3>4
      <4>2. x[2] < old.next + 1 <=> x[2] < old.next \/ x[2] = old.next
        BY <3>1, <3>3
      <4>3. (x[2] < old.next + 1 /\ x[2] \notin (old.busy \ {j}) \cup {old.next})
              <=> (x[2] < old.next /\ x[2] \notin old.busy) \/ x[2] = j
        BY <3>1, <3>3, <4>2
      <4> QED
        BY <1>7, <1>10, <3>2, <4>1, <4>3 DEF Expected
    <3>5. CASE ~more
      <4>1. run'[r].next = old.next /\ run'[r].busy = old.busy \ {j}
        BY <1>7, <1>10, <3>5
      <4>2. (x[2] < old.next /\ x[2] \notin old.busy \ {j})
              <=> (x[2] < old.next /\ x[2] \notin old.busy) \/ x[2] = j
        BY <3>3
      <4> QED
        BY <1>7, <1>10, <3>2, <4>1, <4>2 DEF Expected
    <3> QED
      BY <3>4, <3>5
  <2> QED
    BY <1>10, <2>6, <2>7, <2>8
<1>12. Worked(r)'
  <2> SUFFICES ASSUME ~run'[r].broken
               PROVE  /\ \A k \in run'[r].busy : k < run'[r].next
                      /\ run'[r].next <= Cases[r] => run'[r].busy # {}
    BY DEF Worked
  <2>1. CASE more
    <3>1. run'[r].next = old.next + 1 /\ run'[r].busy = (old.busy \ {j}) \cup {old.next}
      BY <1>7, <1>10, <2>1
    <3>2. \A k \in old.busy : k < old.next /\ k \in Nat
      BY <1>1, <1>3, <1>10 DEF RunStates, Jobs
    <3> QED
      BY <1>3, <3>1, <3>2
  <2>2. CASE ~more
    BY <1>3, <1>7, <1>10, <2>2
  <2> QED
    BY <2>1, <2>2
<1>13. Kept(r)'
  BY <1>1, <1>2, <1>7, <1>8 DEF Sound, Kept
<1>14. StoreTyped'
  BY <1>2 DEF RunInv, StoreTyped
<1> QED
  BY <1>2, <1>6, <1>9, <1>11, <1>12, <1>13, <1>14, StepOfOne DEF Sound

\* All workers are through, and none broke the pass off: every case of this
\* pass and of those before has its result.
LEMMA PassOver ==
    ASSUME RunInv, NEW r \in Runs, In(r, "cases"), run[r].busy = {}, ~run[r].broken
    PROVE  /\ Once(run[r].results)
           /\ \A x \in Grid(r) : x \in Recorded(r) <=> x[1] <= run[r].pass
<1>1. run[r] \in RunStates(r) /\ Counted(r) /\ Worked(r) /\ run[r].stage = "cases"
  BY DEF RunInv, RunsTyped, Sound, In
<1>2. run[r].next > Cases[r]
  BY <1>1, Sizes DEF Worked, RunStates
<1>3. ASSUME NEW x \in Grid(r) PROVE Expected(r, x) <=> x[1] <= run[r].pass
  <2>1. x[1] \in Nat /\ x[2] \in Nat /\ x[2] <= Cases[r] /\ run[r].pass \in Nat
        /\ run[r].next \in Nat /\ Cases[r] \in Nat
    BY <1>1, Sizes DEF Grid, Jobs, RunStates
  <2> QED
    BY <1>1, <1>2, <2>1 DEF Expected
<1> QED
  BY <1>1, <1>3 DEF Counted

LEMMA RunNextPass == ASSUME RunInv, NEW r \in Runs, NextPass(r) PROVE RunInv'
<1> DEFINE w == [run[r] EXCEPT !.stage = "starting", !.pass = @ + 1]
<1>1. run[r] \in RunStates(r) /\ Sound(r) /\ In(r, "cases") /\ run[r].busy = {} /\ ~run[r].broken
      /\ run[r].pass < Passes[r]
  BY DEF RunInv, RunsTyped, NextPass
<1>2. run' = [run EXCEPT ![r] = w] /\ UNCHANGED <<active, recent, disk>>
  BY DEF NextPass
<1>3. w \in RunStates(r)
  <2>1. run[r].pass + 1 \in 1 .. Passes[r] /\ "starting" \in Stages
    BY <1>1, Sizes DEF RunStates, Stages, UnderWay
  <2> QED
    BY <1>1, <2>1 DEF RunStates
<1>4. RunsTyped' /\ run'[r] = w /\ \A s \in Runs \ {r} : run'[s] = run[s]
  BY <1>2, <1>3, Updated DEF RunInv
<1>5. /\ run'[r].stage = "starting" /\ run'[r].busy = {} /\ ~run'[r].broken
      /\ run'[r].pass = run[r].pass + 1 /\ run'[r].results = run[r].results
  BY <1>1, <1>4 DEF RunStates
<1>6. Staged(r)' /\ Worked(r)'
  BY <1>5 DEF Staged, Worked, Idling, Ended
<1>7. Counted(r)'
  <2>1. Once(run[r].results) /\ \A x \in Grid(r) : x \in Recorded(r) <=> x[1] <= run[r].pass
    BY <1>1, PassOver
  <2>2. Recorded(r)' = Recorded(r) /\ Once(run[r].results)'
    BY <1>5, <2>1 DEF Recorded, Once
  <2>3. ASSUME NEW x \in Grid(r) PROVE Expected(r, x)' <=> x[1] <= run[r].pass
    <3>1. x[1] \in Nat /\ run[r].pass \in Nat
      BY <1>1, Sizes DEF Grid, RunStates
    <3> QED
      BY <1>5, <3>1 DEF Expected
  <2> QED
    BY <2>1, <2>2, <2>3 DEF Counted, Grid, Jobs
<1>8. Kept(r)'
  BY <1>1, <1>2, <1>5 DEF In, Sound, Kept, UnderWay, Ended
<1>9. StoreTyped'
  BY <1>2 DEF RunInv, StoreTyped
<1> QED
  BY <1>2, <1>4, <1>6, <1>7, <1>8, <1>9, StepOfOne DEF Sound

\* After the last pass every result is there, and sorting makes the report.
LEMMA RunReports == ASSUME RunInv, NEW r \in Runs, Report(r) PROVE RunInv'
<1> DEFINE w == [run[r] EXCEPT !.stage = "saving", !.results = Sorted(@)]
<1>1. run[r] \in RunStates(r) /\ Sound(r) /\ In(r, "cases") /\ run[r].busy = {} /\ ~run[r].broken
      /\ run[r].pass = Passes[r]
  BY DEF RunInv, RunsTyped, Report
<1>2. run' = [run EXCEPT ![r] = w] /\ UNCHANGED <<active, recent>> /\ disk' = [disk EXCEPT ![r] = "torn"]
  BY DEF Report
<1>3. Sorted(run[r].results) = Whole(r)
  <2>1. run[r].results \in Seq(Grid(r))
    BY <1>1 DEF RunStates, Results, Grid
  <2>2. Once(run[r].results) /\ \A x \in Grid(r) : x \in Recorded(r)
    <3>1. \A x \in Grid(r) : x[1] <= run[r].pass
      BY <1>1, Sizes DEF Grid
    <3> QED
      BY <1>1, <3>1, PassOver
  <2> QED
    BY <2>1, <2>2, SortsToWhole DEF Recorded
<1>4. Whole(r) \in Results(r)
  <2>1. \A k \in 1 .. Passes[r] * Cases[r] : Whole(r)[k] \in Grid(r)
    BY RankWhole
  <2>2. Passes[r] * Cases[r] \in Nat /\ Whole(r) = [k \in 1 .. Passes[r] * Cases[r] |-> Whole(r)[k]]
    BY RankWhole DEF Whole
  <2> QED
    BY <2>1, <2>2, SeqDef DEF Results, Grid
<1>5. w \in RunStates(r) /\ w.results = Whole(r)
  <2>1. "saving" \in Stages
    BY DEF Stages, UnderWay
  <2> QED
    BY <1>1, <1>3, <1>4, <2>1 DEF RunStates
<1>6. RunsTyped' /\ run'[r] = w /\ \A s \in Runs \ {r} : run'[s] = run[s]
  BY <1>2, <1>5, Updated DEF RunInv
<1>7. /\ run'[r].stage = "saving" /\ run'[r].busy = {} /\ ~run'[r].broken
      /\ run'[r].results = Whole(r)
  BY <1>1, <1>5, <1>6 DEF RunStates
<1>8. Staged(r)' /\ Counted(r)' /\ Worked(r)'
  BY <1>7 DEF Staged, Counted, Worked, Idling, Ended, Whole
<1>9. StoreTyped' /\ disk'[r] = "torn" /\ \A s \in Runs \ {r} : disk'[s] = disk[s]
  BY <1>2 DEF RunInv, StoreTyped
<1>10. Kept(r)'
  BY <1>1, <1>2, <1>7, <1>9 DEF In, Sound, Kept, UnderWay, Ended
<1>11. \A s \in Runs \ {r} : /\ run'[s] = run[s] /\ (active' = s => active = s)
                             /\ (s \in recent' => s \in recent) /\ disk'[s] \in {disk[s], "none"}
  BY <1>2, <1>6, <1>9
<1> QED
  BY <1>6, <1>8, <1>9, <1>10, <1>11, StepOfOne DEF Sound

LEMMA RunSaved == ASSUME RunInv, NEW r \in Runs, Saved(r) PROVE RunInv'
<1>1. run[r].stage = "saving" /\ Becomes(r, "done") /\ UNCHANGED <<active, recent>>
      /\ disk' = [disk EXCEPT ![r] = "whole"]
  BY DEF Saved, In
<1>2. RunsTyped' /\ run'[r] = [run[r] EXCEPT !.stage = "done"]
      /\ \A s \in Runs \ {r} : run'[s] = run[s]
  BY <1>1, Moved DEF RunInv, Stages, Ended
<1>3. run[r] \in RunStates(r) /\ Sound(r)
  BY DEF RunInv, RunsTyped
<1>4. /\ run'[r].stage = "done" /\ run'[r].busy = {} /\ run'[r].broken = FALSE
      /\ run'[r].results = Whole(r)
  BY <1>1, <1>2, <1>3 DEF Sound, Staged, Idling, RunStates
<1>5. Staged(r)' /\ Counted(r)' /\ Worked(r)'
  BY <1>4 DEF Staged, Counted, Worked, Idling, Ended, Whole
<1>6. StoreTyped' /\ \A s \in Runs \ {r} : disk'[s] = disk[s]
  BY <1>1 DEF RunInv, StoreTyped
<1>7. Kept(r)'
  BY <1>1, <1>3, <1>4 DEF Sound, Kept, UnderWay, Ended, Whole
<1>8. \A s \in Runs \ {r} : /\ run'[s] = run[s] /\ (active' = s => active = s)
                            /\ (s \in recent' => s \in recent) /\ disk'[s] \in {disk[s], "none"}
  BY <1>1, <1>2, <1>6
<1> QED
  BY <1>2, <1>5, <1>6, <1>7, <1>8, StepOfOne DEF Sound

LEMMA RunStep == RunInv /\ [Next]_vars => RunInv'
<1> SUFFICES ASSUME RunInv, [Next]_vars PROVE RunInv'
  OBVIOUS
<1>1. ASSUME NEW r \in Runs, Start(r) \/ Activate(r) \/ Refuse(r) \/ Cancel(r) \/ Remove(r)
      PROVE  RunInv'
  BY <1>1, RunOpens, RunCancel, RunRemove
<1>2. ASSUME NEW r \in Runs, Working(r) PROVE RunInv'
  BY <1>2, RunGold, RunEnds, RunStartsPass, RunNextPass, RunReports, RunSaved DEF Working
<1>3. ASSUME NEW r \in Runs, CaseStep(r) PROVE RunInv'
  BY <1>3, RunRetries, RunRecords DEF CaseStep
<1>4. ASSUME UNCHANGED <<run, active, recent, disk>> PROVE RunInv'
  <2>1. RunsTyped' /\ StoreTyped'
    BY <1>4 DEF RunInv, RunsTyped, RunStates, Results, Jobs, StoreTyped
  <2>2. \A s \in Runs : Sound(s)'
    BY <1>4, Undisturbed DEF RunInv
  <2> QED
    BY <2>1, <2>2 DEF RunInv
<1>5. Poll \/ Reload \/ ReloadFails \/ UNCHANGED vars => UNCHANGED <<run, active, recent, disk>>
  BY DEF Poll, Reload, ReloadFails, vars
<1> QED
  BY <1>1, <1>2, <1>3, <1>4, <1>5 DEF Next
-----------------------------------------------------------------------------
(* The run page *)

PageTyped == page \in [phase : {"polling", "reloading", "stopped"}, wasLive : BOOLEAN,
                       status : Ended \cup {"live", "unknown"}, results : Results(Watched)]

\* A page that has not seen the run live has nothing of it yet, and one that
\* reloads has.
PageInv == /\ PageTyped
           /\ page.phase = "polling" /\ ~page.wasLive => page.results = <<>>
           /\ page.phase = "reloading" => page.wasLive
           /\ PageShowsReport

\* What the server serves: a live or ended run, and the report of a done one.
LEMMA Served ==
    ASSUME RunInv, Found
    PROVE  /\ Status \in Ended \cup {"live"}
           /\ All \in Results(Watched)
           /\ Status = "done" => All = Whole(Watched)
<1>1. run[Watched] \in RunStates(Watched) /\ Sound(Watched)
  BY WatchedAssumption DEF RunInv, RunsTyped
<1>2. All \in Results(Watched)
  BY <1>1 DEF All, RunStates
<1>3. CASE ~InMemory
  BY <1>1, <1>2, <1>3 DEF Found, Status, Ended, All, Sound, Kept
<1>4. CASE InMemory
  <2>1. run[Watched].stage \in UnderWay \cup Ended
    BY <1>1, <1>4 DEF InMemory, Sound, Kept
  <2>2. "done" \notin UnderWay
    BY DEF UnderWay
  <2> QED
    BY <1>1, <1>2, <1>4, <2>1, <2>2 DEF Status, All, Sound, Staged
<1> QED
  BY <1>3, <1>4

\* Asking for what follows the results one has adds results of the run, and
\* with none of them gives all.
LEMMA Further ==
    ASSUME NEW S, NEW had \in Seq(S), NEW all \in Seq(S)
    PROVE  /\ had \o SubSeq(all, Len(had) + 1, Len(all)) \in Seq(S)
           /\ had = <<>> => had \o SubSeq(all, Len(had) + 1, Len(all)) = all
<1> DEFINE rest == SubSeq(all, Len(had) + 1, Len(all))
<1>1. Len(had) \in Nat /\ Len(all) \in Nat
  OBVIOUS
<1>2. rest \in Seq(S)
  <2>1. Len(had) + 1 \in Int /\ Len(all) \in Int
    BY <1>1
  <2>2. \A i \in Len(had) + 1 .. Len(all) : all[i] \in S
    BY <1>1
  <2> QED
    BY <2>1, <2>2, SubSeqProperties
<1>3. ASSUME had = <<>> PROVE had \o rest = all
  <2>1. rest = SubSeq(all, 1, Len(all))
    BY <1>3
  <2>2. rest = all
    BY <2>1, SubSeqFull
  <2> QED
    BY <1>3, <2>2, ConcatEmptySeq
<1> QED
  BY <1>2, <1>3

LEMMA PageShown ==
    ASSUME RunInv, Found, NEW results \in Results(Watched), Shows(results),
           Status = "live" \/ results = All
    PROVE  PageInv'
<1>1. /\ page'.phase = IF Status = "live" THEN "polling" ELSE "stopped"
      /\ page'.wasLive = (Status = "live") /\ page'.status = Status /\ page'.results = results
      /\ page' \in [phase : {"polling", "reloading", "stopped"}, wasLive : BOOLEAN,
                    status : Ended \cup {"live", "unknown"}, results : Results(Watched)]
  BY Served DEF Shows
<1>2. PageTyped'
  BY <1>1 DEF PageTyped, Results, Jobs
<1>3. Status = "done" => results = Whole(Watched)
  BY Served
<1> QED
  BY <1>1, <1>2, <1>3 DEF PageInv, PageShowsReport, Whole

LEMMA PageStep == RunInv /\ PageInv /\ [Next]_vars => PageInv'
<1> SUFFICES ASSUME RunInv, PageInv, [Next]_vars PROVE PageInv'
  OBVIOUS
<1>1. CASE Poll
  <2>1. CASE page.wasLive /\ Status # "live"
    <3>1. page' = [page EXCEPT !.phase = "reloading"]
      BY <1>1, <2>1 DEF Poll
    <3> QED
      BY <2>1, <3>1 DEF PageInv, PageTyped, PageShowsReport, Results, Jobs
  <2>2. CASE ~(page.wasLive /\ Status # "live")
    <3> DEFINE shown == page.results \o Since(Len(page.results))
    <3>1. Found /\ Shows(shown) /\ page.phase = "polling"
      BY <1>1, <2>2 DEF Poll
    <3>2. page.results \in Results(Watched) /\ All \in Results(Watched)
      BY <3>1, Served DEF PageInv, PageTyped
    <3>3. shown \in Results(Watched) /\ (page.results = <<>> => shown = All)
      BY <3>2, Further DEF Results, Since
    <3>4. Status = "live" \/ shown = All
      BY <2>2, <3>1, <3>3 DEF PageInv, PageTyped
    <3> HIDE DEF shown
    <3> QED
      BY <3>1, <3>3, <3>4, PageShown
  <2> QED
    BY <2>1, <2>2
<1>2. CASE Reload /\ Found
  BY <1>2, Served, PageShown DEF Reload
<1>3. CASE ReloadFails \/ (Reload /\ ~Found)
  <2>1. page' = [page EXCEPT !.phase = "polling"] /\ page.phase = "reloading"
    BY <1>3 DEF ReloadFails, Reload
  <2> QED
    BY <2>1 DEF PageInv, PageTyped, PageShowsReport, Results, Jobs
<1>4. CASE page' = page
  BY <1>4 DEF PageInv, PageTyped, PageShowsReport, Results, Jobs, Whole
<1>5. ASSUME NEW r \in Runs, Start(r) \/ Activate(r) \/ Refuse(r) \/ Cancel(r) \/ Remove(r)
      PROVE  page' = page
  BY <1>5 DEF Start, Activate, Refuse, Cancel, Remove
<1>6. ASSUME NEW r \in Runs, Working(r) PROVE page' = page
  BY <1>6 DEF Working, GoldComputed, GoldFails, StartPass, PassFails, NextPass, Breaks, Report,
              Saved, SaveFails
<1>7. ASSUME NEW r \in Runs, CaseStep(r) PROVE page' = page
  BY <1>7 DEF CaseStep, RetryCase, CaseDone
<1>8. CASE UNCHANGED vars
  BY <1>4, <1>8 DEF vars
<1> QED
  BY <1>1, <1>2, <1>3, <1>4, <1>5, <1>6, <1>7, <1>8 DEF Next

LEMMA PageInit == Init => PageInv
<1> SUFFICES ASSUME Init PROVE PageInv
  OBVIOUS
<1>1. page = [phase |-> "polling", wasLive |-> FALSE, status |-> "unknown", results |-> <<>>]
  BY DEF Init
<1>2. <<>> \in Results(Watched)
  BY DEF Results
<1> QED
  BY <1>1, <1>2 DEF PageInv, PageTyped, PageShowsReport

LEMMA InvAlways == Spec => [](RunInv /\ PageInv)
BY RunInit, PageInit, RunStep, PageStep, PTL DEF Spec
-----------------------------------------------------------------------------
(* Theorems *)

\* The variables stay in their types: in particular a worker never takes a
\* case beyond the last, and a case is never retried more often than allowed.
THEOREM TypeCorrect == Spec => []TypeOK
<1>1. RunInv /\ PageInv => TypeOK
  BY DEF RunInv, RunsTyped, RunStates, StoreTyped, PageInv, PageTyped, TypeOK
<1> QED
  BY <1>1, InvAlways, PTL

\* The report of a finished run has each case of each pass once, in dataset
\* order, whatever the number of workers and the order they finish in.
THEOREM ReportComplete == Spec => []CompleteReport
<1>1. RunInv => CompleteReport
  BY DEF RunInv, Sound, Staged, In, CompleteReport
<1> QED
  BY <1>1, InvAlways, PTL

\* A page that stopped polling on a finished run shows its whole report.
THEOREM PageShowsWhole == Spec => []PageShowsReport
<1>1. PageInv => PageShowsReport
  BY DEF PageInv
<1> QED
  BY <1>1, InvAlways, PTL

\* A cancelled run starts no further case.
THEOREM CancelHolds == Spec => CancelStopsSpending
<1> DEFINE Stops(r) == run[r].aborted => run'[r].busy \subseteq run[r].busy
<1>1. ASSUME RunInv, Next, NEW s \in Runs PROVE Stops(s)
  <2>0. run[s] \in RunStates(s) /\ run = [r \in Runs |-> run[r]]
    BY <1>1 DEF RunInv, RunsTyped
  <2>1. ASSUME NEW r \in Runs, NEW stage, Becomes(r, stage) PROVE run'[s].busy = run[s].busy
    BY <2>0, <2>1 DEF Becomes, RunStates
  <2>2. ASSUME NEW r \in Runs, Start(r) \/ Activate(r) \/ Refuse(r) PROVE Stops(s)
    BY <2>1, <2>2 DEF Start, Activate, Refuse
  <2>3. ASSUME NEW r \in Runs, Cancel(r) PROVE Stops(s)
    BY <2>0, <2>3 DEF Cancel, RunStates
  <2>4. ASSUME NEW r \in Runs, GoldComputed(r) \/ GoldFails(r) \/ PassFails(r) \/ Breaks(r)
                               \/ Saved(r) \/ SaveFails(r)
        PROVE  Stops(s)
    BY <2>1, <2>4 DEF GoldComputed, GoldFails, PassFails, Breaks, Saved, SaveFails, Ends
  <2>5. ASSUME NEW r \in Runs, StartPass(r) PROVE Stops(s)
    BY <2>0, <2>5 DEF StartPass, RunStates
  <2>6. ASSUME NEW r \in Runs, NextPass(r) PROVE Stops(s)
    BY <2>0, <2>6 DEF NextPass, RunStates
  <2>7. ASSUME NEW r \in Runs, Report(r) PROVE Stops(s)
    BY <2>0, <2>7 DEF Report, RunStates
  <2>8. ASSUME NEW r \in Runs, NEW j \in Jobs(r), RetryCase(r, j) PROVE Stops(s)
    BY <2>0, <2>8 DEF RetryCase, RunStates
  <2>9. ASSUME NEW r \in Runs, NEW j \in Jobs(r), CaseDone(r, j) PROVE Stops(s)
    <3>1. CASE s = r
      BY <2>0, <2>9, <3>1 DEF CaseDone, Takes, RunStates
    <3>2. CASE s # r
      BY <2>0, <2>9, <3>2 DEF CaseDone
    <3> QED
      BY <3>1, <3>2
  <2>10. ASSUME run' = run PROVE Stops(s)
    BY <2>10
  <2> QED
    BY <1>1, <2>2, <2>3, <2>4, <2>5, <2>6, <2>7, <2>8, <2>9, <2>10
       DEF Next, Working, CaseStep, Remove, Poll, Reload, ReloadFails
<1>2. RunInv /\ [Next]_vars
        => [\A r \in Runs : run[r].aborted => run'[r].busy \subseteq run[r].busy]_vars
  BY <1>1
<1> HIDE DEF Stops
<1> QED
  BY <1>2, InvAlways, PTL DEF Spec, CancelStopsSpending
=============================================================================

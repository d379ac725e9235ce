---------------------- MODULE RuntimeOptimization_proofs ----------------------
(***************************************************************************)
(* Proofs about what docs/RUNTIME_OPTIMIZATION.md describes: the           *)
(* BudgetGovernor, for every word size, policy and workload, and the       *)
(* Telemetry with the ReleaseGate it feeds, for every width of durations   *)
(* and counters, every set of measured durations, percentiles, references  *)
(* and policies.                                                           *)
(***************************************************************************)
EXTENDS BudgetGovernor, ReleaseGate, OrderLemmas, TLAPS

-----------------------------------------------------------------------------
(* The budget governor                                                     *)

\* Dividing before multiplying loses nothing and stays within the word.
LEMMA PercentageOfIsExact ==
  ASSUME NEW v \in Words, NEW p \in {ResumePercent, SoftPercent, HardPercent}
  PROVE  /\ PercentageOf(v, p) = (v * p) \div 100
         /\ PercentageOf(v, p) \in Words
<1> DEFINE q == v \div 100
           r == v % 100
<1>1. p \in {55, 70, 95}
  BY DEF ResumePercent, SoftPercent, HardPercent
<1>2. v \in Nat /\ v < Word /\ Word \in Nat /\ Word > 10000
  BY WordAssumption DEF Words
<1>3. q \in Nat /\ r \in 0..99 /\ v = 100 * q + r
  BY <1>2
<1> HIDE DEF q, r
<1>4. \A n \in Nat : n < Word => Wrapped(n) = n
  BY <1>2 DEF Wrapped
<1>5. r * p \in Nat /\ r * p < 10000 /\ q * p \in Nat /\ q * p <= 100 * q
  BY <1>1, <1>3
<1>6. (r * p) \div 100 \in Nat /\ 100 * ((r * p) \div 100) <= r * p
      /\ r * p < 100 * ((r * p) \div 100) + 100
  BY <1>5
<1>7. /\ Wrapped(r * p) = r * p /\ Wrapped(q * p) = q * p
  BY <1>2, <1>3, <1>4, <1>5
<1>8. q * p + (r * p) \div 100 \in Nat /\ q * p + (r * p) \div 100 < Word
  <2>1. r * p <= 100 * r
    BY <1>1, <1>3
  <2> QED
    BY <2>1, <1>2, <1>3, <1>5, <1>6
<1>9. PercentageOf(v, p) = q * p + (r * p) \div 100
  BY <1>4, <1>7, <1>8 DEF PercentageOf, q, r
<1>10. v * p = 100 * (q * p) + r * p
  BY <1>1, <1>3
<1>11. (v * p) \div 100 = q * p + (r * p) \div 100
  <2> DEFINE a == q * p
             b == r * p
             c == b \div 100
  <2>1. a \in Nat /\ b \in Nat /\ c \in Nat /\ 100 * c <= b /\ b < 100 * c + 100
    BY <1>5, <1>6
  <2> HIDE DEF a, b, c
  <2>2. (100 * a + b) \div 100 = a + c
    BY <2>1
  <2> QED
    BY <2>2, <1>10 DEF a, b, c
<1> QED
  BY <1>2, <1>8, <1>9, <1>11 DEF Words

\* From 5 ns on the three thresholds are distinct.
LEMMA EnvelopesAreValid ==
  ASSUME NEW e \in Words, e >= 5
  PROVE  IsValid(BudgetPolicyFromEnvelope(e))
<1>1. e \in Nat
  BY WordAssumption DEF Words
<1>2. (e * 55) \div 100 < (e * 70) \div 100 /\ (e * 70) \div 100 < (e * 95) \div 100
  <2>1. CASE e = 5 \/ e = 6
    BY <2>1
  <2>2. CASE e >= 7
    BY <2>2, <1>1
  <2> QED
    BY <2>1, <2>2, <1>1
<1>3. /\ PercentageOf(e, ResumePercent) = (e * 55) \div 100
      /\ PercentageOf(e, SoftPercent) = (e * 70) \div 100
      /\ PercentageOf(e, HardPercent) = (e * 95) \div 100
  BY PercentageOfIsExact DEF ResumePercent, SoftPercent, HardPercent
<1> QED
  BY <1>1, <1>2, <1>3 DEF BudgetPolicyFromEnvelope, IsValid

\* The invariant: the types, and that the policy of a delegated envelope is
\* the one derived from it.
Inv ==
  /\ TypeOK
  /\ envelope > 0 => policy = BudgetPolicyFromEnvelope(envelope)

LEMMA PolicyType ==
  ASSUME NEW e \in Words PROVE BudgetPolicyFromEnvelope(e) \in Policy
<1>1. 0 \in Words
  BY WordAssumption DEF Words
<1> QED
  BY <1>1, PercentageOfIsExact DEF BudgetPolicyFromEnvelope, Policy, Disabled

LEMMA TurnType ==
  ASSUME TypeOK PROVE TurnDuration \in Words
<1>1. \A w \in Works : load[w] \in Nat
  BY WordAssumption DEF TypeOK, Words
<1>2. Cost("Critical") \in Nat /\ Cost("Important") \in Nat /\ Cost("Optional") \in Nat
  BY <1>1 DEF Cost, Works
<1>3. \A n \in Nat : n % Word \in Words
  BY WordAssumption DEF Words
<1> QED
  BY <1>2, <1>3 DEF TurnDuration, Wrapped

LEMMA InitInv == Init => Inv
<1> SUFFICES ASSUME Init PROVE Inv
  OBVIOUS
<1>1. 0 \in Words
  BY WordAssumption DEF Words
<1> QED
  BY <1>1, LoadsAssumption DEF Init, Inv, TypeOK, Policy, Disabled

LEMMA NextInv == Inv /\ [Next]_vars => Inv'
<1> SUFFICES ASSUME Inv, [Next]_vars PROVE Inv'
  OBVIOUS
<1>1. CASE CompleteTurn
  <2>1. state' \in [pressure : {"Normal", "Soft", "Hard"}, previousDuration : Words,
                    policyValid : BOOLEAN]
    <3>1. IsValid(policy) \in BOOLEAN
      BY DEF IsValid, Inv, TypeOK, Policy
    <3>2. Pressure(state.pressure, TurnDuration, policy) \in {"Normal", "Soft", "Hard"}
      BY DEF Pressure, Inv, TypeOK
    <3> QED
      BY <1>1, <3>1, <3>2, TurnType DEF CompleteTurn, UpdateBudgetState, Inv
  <2> QED
    BY <1>1, <2>1 DEF CompleteTurn, Inv, TypeOK
<1>2. ASSUME NEW e \in Envelopes, DelegateEnvelope(e) PROVE Inv'
  <2>1. e \in Words
    BY EnvelopesAssumption
  <2> QED
    BY <1>2, <2>1, PolicyType DEF DelegateEnvelope, Inv, TypeOK
<1>3. ASSUME NEW p \in Policies, WritePolicy(p) PROVE Inv'
  <2>1. 0 \in Words
    BY WordAssumption DEF Words
  <2> QED
    BY <1>3, <2>1, PoliciesAssumption DEF WritePolicy, Inv, TypeOK
<1>4. ASSUME NEW l \in Loads, ChangeLoad(l) PROVE Inv'
  BY <1>4, LoadsAssumption DEF ChangeLoad, Inv, TypeOK
<1>5. CASE UNCHANGED vars
  BY <1>5 DEF vars, Inv, TypeOK
<1> QED
  BY <1>1, <1>2, <1>3, <1>4, <1>5 DEF Next

\* Types of the governor's state and policy.
THEOREM TypeCorrect == Spec => []TypeOK
<1>1. Inv => TypeOK
  BY DEF Inv
<1> QED
  BY <1>1, InitInv, NextInv, PTL DEF Spec

\* Whatever the envelope, the thresholds are its exact percentages, without
\* overflow, and from 5 ns on they make a valid profile.
THEOREM EnvelopesAreHonoured == Spec => []EnvelopeIsHonoured
<1>1. Inv => EnvelopeIsHonoured
  <2> SUFFICES ASSUME Inv, envelope > 0 PROVE
        /\ policy.resume = (envelope * 55) \div 100
        /\ policy.soft   = (envelope * 70) \div 100
        /\ policy.hard   = (envelope * 95) \div 100
        /\ envelope >= 5 => IsValid(policy)
    BY DEF EnvelopeIsHonoured
  <2>1. envelope \in Words /\ envelope # 0 /\ policy = BudgetPolicyFromEnvelope(envelope)
    <3>1. envelope \in Nat
      BY WordAssumption DEF Inv, TypeOK, Words
    <3> QED
      BY <3>1 DEF Inv, TypeOK
  <2>2. /\ policy.resume = PercentageOf(envelope, 55)
        /\ policy.soft   = PercentageOf(envelope, 70)
        /\ policy.hard   = PercentageOf(envelope, 95)
    BY <2>1 DEF BudgetPolicyFromEnvelope, ResumePercent, SoftPercent, HardPercent
  <2>3. \A p \in {55, 70, 95} : PercentageOf(envelope, p) = (envelope * p) \div 100
    BY <2>1, PercentageOfIsExact DEF ResumePercent, SoftPercent, HardPercent
  <2> QED
    BY <2>1, <2>2, <2>3, EnvelopesAreValid
<1> QED
  BY <1>1, InitInv, NextInv, PTL DEF Spec

\* A turn under a withdrawn policy releases everything.
THEOREM UndelegatedWorkRuns == Spec => NothingShedUndelegated
<1>1. [Next]_vars => [state' # state /\ ~policy.enabled
                       => \A w \in Works : AllowsWork(state', w)]_vars
  <2> SUFFICES ASSUME [Next]_vars, state' # state, ~policy.enabled, NEW w \in Works
               PROVE  AllowsWork(state', w)
    OBVIOUS
  <2>1. CompleteTurn
    BY DEF Next, DelegateEnvelope, WritePolicy, ChangeLoad, vars
  <2> QED
    BY <2>1 DEF CompleteTurn, UpdateBudgetState, Pressure, IsValid, AllowsWork
<1> QED
  BY <1>1, PTL DEF Spec, NothingShedUndelegated

\* The hysteresis argument: without the Optional work a turn that was too slow
\* with it still takes longer than the resume threshold.
THEOREM ShedWorkStaysShed == Spec => BandPreventsOscillation
<1>1. Inv /\ [Next]_vars =>
        [ /\ policy.enabled /\ IsValid(policy)
          /\ state.policyValid /\ state.pressure = "Soft"
          /\ FullLoad >= policy.soft /\ FullLoad < Word
          /\ load["Optional"] < policy.soft - policy.resume
          => state'.pressure # "Normal" ]_vars
  <2> SUFFICES ASSUME Inv, [Next]_vars, policy.enabled, IsValid(policy),
                      state.policyValid, state.pressure = "Soft",
                      FullLoad >= policy.soft, FullLoad < Word,
                      load["Optional"] < policy.soft - policy.resume
               PROVE  state'.pressure # "Normal"
    OBVIOUS
  <2>1. CASE CompleteTurn
    <3>1. /\ load["Critical"] \in Nat /\ load["Important"] \in Nat /\ load["Optional"] \in Nat
          /\ policy.soft \in Nat /\ policy.resume \in Nat /\ policy.hard \in Nat /\ Word \in Nat
      BY WordAssumption DEF Inv, TypeOK, Works, Words, Policy
    <3>2. /\ Cost("Critical") = load["Critical"] /\ Cost("Important") = load["Important"]
          /\ Cost("Optional") = 0
      BY DEF Cost, AllowsWork
    <3>3. TurnDuration = load["Critical"] + load["Important"]
      <4>1. load["Critical"] + load["Important"] < Word
        BY <3>1 DEF FullLoad
      <4>2. load["Critical"] + load["Important"] \in Nat
        BY <3>1
      <4>3. \A n \in Nat : n < Word => n % Word = n
        BY <3>1
      <4>4. TurnDuration = (load["Critical"] + load["Important"]) % Word
        BY <3>1, <3>2 DEF TurnDuration, Wrapped
      <4> QED
        BY <4>1, <4>2, <4>3, <4>4
    <3>4. TurnDuration > policy.resume
      BY <3>1, <3>3 DEF FullLoad
    <3>5. Pressure("Soft", TurnDuration, policy) # "Normal"
      BY <3>1, <3>3, <3>4 DEF Pressure
    <3> QED
      BY <2>1, <3>5 DEF CompleteTurn, UpdateBudgetState
  <2>2. CASE UNCHANGED state
    BY <2>2
  <2> QED
    BY <2>1, <2>2 DEF Next, DelegateEnvelope, WritePolicy, ChangeLoad, vars
<1> QED
  BY <1>1, InitInv, NextInv, PTL DEF Spec, BandPreventsOscillation

-----------------------------------------------------------------------------
(* Widths and sums                                                         *)

LEMMA TwoToIs ==
  /\ TwoTo \in [0..Bits -> Nat]
  /\ TwoTo[0] = 1
  /\ \A b \in 1..Bits : TwoTo[b] = 2 * TwoTo[b - 1]
<1> DEFINE Loop(f) == f = [b \in 0..Bits |-> IF b = 0 THEN 1 ELSE 2 * f[b - 1]]
           step == [b \in 1..Bits |-> [v \in Nat |-> 2 * v]]
<1>1. Bits \in Nat
  BY BitsAssumption
<1>2. \A b \in 1..Bits : \A v \in Nat : step[b][v] \in Nat
  OBVIOUS
<1> HIDE DEF step
<1>3. PICK f : Computes(Bits, Nat, 1, step, f)
  BY <1>1, <1>2, RecursionExists DEF Loops
<1>4. /\ f \in [0..Bits -> Nat] /\ f[0] = 1
      /\ \A b \in 1..Bits : f[b] = 2 * f[b - 1]
  <2>1. f \in [0..Bits -> Nat] /\ f[0] = 1 /\ \A b \in 1..Bits : f[b] = step[b][f[b - 1]]
    BY <1>3 DEF Computes
  <2>2. \A b \in 1..Bits : f[b - 1] \in Nat
    BY <1>1, <2>1
  <2>3. QED
    BY <2>1, <2>2 DEF step
<1>5. Loop(f)
  <2>1. \A b \in 0..Bits : f[b] = IF b = 0 THEN 1 ELSE 2 * f[b - 1]
    BY <1>1, <1>4
  <2>2. QED
    BY <1>4, <2>1
<1>6. Loop(TwoTo)
  <2>1. TwoTo = CHOOSE g : Loop(g)
    BY DEF TwoTo
  <2> HIDE DEF Loop
  <2>2. QED
    BY <1>5, <2>1
<1>7. TwoTo[0] = 1 /\ \A b \in 1..Bits : TwoTo[b] = 2 * TwoTo[b - 1]
  BY <1>1, <1>6
<1> DEFINE P == {b \in 0..Bits : TwoTo[b] \in Nat}
<1>8. \A b \in 0..Bits : b \in P
  <2>1. 0 \in P
    BY <1>1, <1>7
  <2>2. \A b \in 1..Bits : b - 1 \in P => b \in P
    BY <1>1, <1>7
  <2> HIDE DEF P
  <2>3. QED
    BY <1>1, <2>1, <2>2, InductionUpTo
<1>9. TwoTo = [b \in 0..Bits |-> TwoTo[b]]
  BY <1>6
<1>10. QED
  BY <1>7, <1>8, <1>9

LEMMA TwoToGrows ==
  ASSUME NEW a \in 0..Bits
  PROVE  \A b \in 0..Bits : TwoTo[b] \in Nat \ {0} /\ (a <= b => TwoTo[a] <= TwoTo[b])
<1>1. /\ Bits \in Nat /\ TwoTo \in [0..Bits -> Nat] /\ TwoTo[0] = 1
      /\ \A b \in 1..Bits : TwoTo[b] = 2 * TwoTo[b - 1]
  BY BitsAssumption, TwoToIs
<1> DEFINE P == {b \in 0..Bits : TwoTo[b] \in Nat \ {0} /\ (a <= b => TwoTo[a] <= TwoTo[b])}
<1>2. 0 \in P
  BY <1>1
<1>3. ASSUME NEW b \in 1..Bits, b - 1 \in P PROVE b \in P
  <2>1. b \in 0..Bits /\ TwoTo[b - 1] \in Nat \ {0} /\ TwoTo[b] = 2 * TwoTo[b - 1]
    BY <1>1, <1>3
  <2>2. a <= b - 1 => TwoTo[a] <= TwoTo[b - 1]
    BY <1>3
  <2>3. a <= b => a <= b - 1 \/ a = b
    BY <1>1
  <2>4. TwoTo[a] \in Nat
    BY <1>1
  <2>5. QED
    BY <2>1, <2>2, <2>3, <2>4
<1>4. QED
  <2>1. \A b \in 1..Bits : b - 1 \in P => b \in P
    BY <1>3
  <2> HIDE DEF P
  <2>2. \A b \in 0..Bits : b \in P
    BY <1>1, <1>2, <2>1, InductionUpTo
  <2> USE DEF P
  <2>3. QED
    BY <2>2

LEMMA DurationsFit ==
  /\ Bits \in 0..Bits /\ MaxDuration \in Nat /\ MaxDuration = TwoTo[Bits] - 1
  /\ \A t \in Durations : t \in Nat /\ t <= MaxDuration
<1>1. Bits \in 0..Bits
  BY BitsAssumption
<1>2. TwoTo[Bits] \in Nat \ {0}
  BY <1>1, TwoToGrows
<1>3. MaxDuration \in Nat /\ MaxDuration = TwoTo[Bits] - 1
  BY <1>2 DEF MaxDuration
<1>4. \A t \in Durations : t \in Nat /\ t <= MaxDuration
  BY ElapsedAssumption DEF Durations
<1>5. QED
  BY <1>1, <1>3, <1>4

\* A duration's bucket is the least whose upper end is not below it.
LEMMA BucketOfDuration ==
  ASSUME NEW t \in Nat, t <= MaxDuration
  PROVE  /\ BucketFor(t) \in 0..Bits
         /\ \A b \in 0..Bits : BucketFor(t) <= b <=> t <= TwoTo[b] - 1
<1> DEFINE Above == {b \in 0..Bits : t < TwoTo[b]}
           Is(b) == b \in 0..Bits /\ t < TwoTo[b] /\ (b = 0 \/ t >= TwoTo[b - 1])
<1>1. Bits \in Nat /\ \A b \in 0..Bits : TwoTo[b] \in Nat
  BY BitsAssumption, TwoToGrows
<1>2. PICK b \in Above : \A c \in Above : b <= c
  <2>1. Bits \in Above /\ Above \subseteq Nat
    BY <1>1, DurationsFit
  <2> HIDE DEF Above
  <2>2. QED
    BY <2>1, LeastNatural
<1>3. Is(b)
  <2>1. b \in 0..Bits /\ t < TwoTo[b]
    BY <1>2
  <2>2. ASSUME b # 0 PROVE t >= TwoTo[b - 1]
    <3>1. b - 1 \in 0..Bits /\ ~(b <= b - 1)
      BY <1>1, <2>1, <2>2
    <3>2. b - 1 \notin Above
      <4> HIDE DEF Above
      <4>1. QED
        BY <1>2, <3>1
    <3>3. QED
      BY <1>1, <3>1, <3>2
  <2>3. QED
    BY <2>1, <2>2
<1>4. Is(BucketFor(t))
  <2>1. \E c \in 0..Bits : t < TwoTo[c] /\ (c = 0 \/ t >= TwoTo[c - 1])
    BY <1>3
  <2>2. QED
    BY <2>1 DEF BucketFor
<1> DEFINE w == BucketFor(t)
<1>5. w \in 0..Bits /\ t < TwoTo[w] /\ (w = 0 \/ t >= TwoTo[w - 1])
  BY <1>4
<1> HIDE DEF w
<1>6. ASSUME NEW c \in 0..Bits PROVE w <= c <=> t <= TwoTo[c] - 1
  <2>1. CASE w <= c
    <3>1. TwoTo[w] <= TwoTo[c]
      BY <1>5, <2>1, TwoToGrows
    <3>2. TwoTo[w] \in Nat /\ TwoTo[c] \in Nat
      BY <1>1, <1>5
    <3>3. QED
      BY <1>5, <2>1, <3>1, <3>2
  <2>2. CASE ~(w <= c)
    <3>1. w - 1 \in 0..Bits /\ c <= w - 1 /\ t >= TwoTo[w - 1]
      BY <1>1, <1>5, <2>2
    <3>2. TwoTo[c] <= TwoTo[w - 1]
      BY <3>1, TwoToGrows
    <3>3. TwoTo[c] \in Nat /\ TwoTo[w - 1] \in Nat
      BY <1>1, <3>1
    <3>4. QED
      BY <2>2, <3>1, <3>2, <3>3
  <2>3. QED
    BY <2>1, <2>2
<1>7. QED
  BY <1>5, <1>6 DEF w

\* What is added at i.
At(f, i) == IF i \in DOMAIN f THEN f[i] ELSE 0

Counts(f) == \A i \in DOMAIN f : f[i] \in Nat

SumLoop(f, k, sum) ==
  /\ sum \in [0..k -> Nat]
  /\ sum[0] = At(f, 0)
  /\ \A i \in 1..k : sum[i] = sum[i - 1] + At(f, i)

LEMMA SumIsTheLoop ==
  ASSUME NEW f, Counts(f), NEW k \in Nat
  PROVE  \E sum : SumLoop(f, k, sum) /\ SumUpTo(f, k) = sum[k]
<1> DEFINE Loop(g) == g = [i \in 0..k |-> (IF i = 0 THEN 0 ELSE g[i - 1])
                                            + (IF i \in DOMAIN f THEN f[i] ELSE 0)]
           step == [i \in 1..k |-> [v \in Nat |-> v + At(f, i)]]
           sum == CHOOSE g : Loop(g)
<1>1. \A i : At(f, i) \in Nat
  BY DEF At, Counts
<1>2. SumUpTo(f, k) = sum[k]
  BY DEF SumUpTo
<1> HIDE DEF sum
<1>3. \A g : Loop(g) <=> g = [i \in 0..k |-> (IF i = 0 THEN 0 ELSE g[i - 1]) + At(f, i)]
  BY DEF At
<1> HIDE DEF Loop
<1>4. \A i \in 1..k : \A v \in Nat : step[i][v] \in Nat
  BY <1>1
<1> HIDE DEF step
<1>5. PICK g : Computes(k, Nat, At(f, 0), step, g)
  <2>1. Loops(k, Nat, At(f, 0), step)
    BY <1>1, <1>4 DEF Loops
  <2>2. QED
    BY <2>1, RecursionExists
<1>6. /\ g \in [0..k -> Nat] /\ g[0] = At(f, 0)
      /\ \A i \in 1..k : g[i] = g[i - 1] + At(f, i)
  <2>1. g \in [0..k -> Nat] /\ g[0] = At(f, 0) /\ \A i \in 1..k : g[i] = step[i][g[i - 1]]
    BY <1>5 DEF Computes
  <2>2. \A i \in 1..k : g[i - 1] \in Nat
    BY <2>1
  <2>3. QED
    BY <2>1, <2>2 DEF step
<1>7. Loop(g)
  <2>1. \A i \in 0..k : g[i] = (IF i = 0 THEN 0 ELSE g[i - 1]) + At(f, i)
    BY <1>1, <1>6
  <2>2. g = [i \in 0..k |-> (IF i = 0 THEN 0 ELSE g[i - 1]) + At(f, i)]
    BY <1>6, <2>1
  <2>3. QED
    BY <1>3, <2>2
<1>8. Loop(sum)
  BY <1>7 DEF sum
<1>9. sum = [i \in 0..k |-> (IF i = 0 THEN 0 ELSE sum[i - 1]) + At(f, i)]
  BY <1>3, <1>8
<1>10. sum[0] = At(f, 0) /\ \A i \in 1..k : sum[i] = sum[i - 1] + At(f, i)
  BY <1>1, <1>9
<1> DEFINE P == {i \in 0..k : sum[i] \in Nat}
<1>11. \A i \in 0..k : i \in P
  <2>1. 0 \in P
    BY <1>1, <1>10
  <2>2. \A i \in 1..k : i - 1 \in P => i \in P
    BY <1>1, <1>10
  <2> HIDE DEF P
  <2>3. QED
    BY <2>1, <2>2, InductionUpTo
<1>12. sum \in [0..k -> Nat]
  <2>1. sum = [i \in 0..k |-> sum[i]]
    BY <1>9
  <2>2. QED
    BY <1>11, <2>1
<1>13. QED
  BY <1>2, <1>10, <1>12 DEF SumLoop

LEMMA SumSteps ==
  ASSUME NEW f, Counts(f)
  PROVE  /\ \A k \in Nat : SumUpTo(f, k) \in Nat
         /\ SumUpTo(f, 0) = At(f, 0)
         /\ \A k \in Nat : SumUpTo(f, k + 1) = SumUpTo(f, k) + At(f, k + 1)
<1>1. ASSUME NEW k \in Nat PROVE SumUpTo(f, k) \in Nat
  <2>1. PICK sum : SumLoop(f, k, sum) /\ SumUpTo(f, k) = sum[k]
    BY SumIsTheLoop
  <2>2. QED
    BY <2>1 DEF SumLoop
<1>2. SumUpTo(f, 0) = At(f, 0)
  <2>1. PICK sum : SumLoop(f, 0, sum) /\ SumUpTo(f, 0) = sum[0]
    BY SumIsTheLoop
  <2>2. QED
    BY <2>1 DEF SumLoop
<1>3. ASSUME NEW k \in Nat PROVE SumUpTo(f, k + 1) = SumUpTo(f, k) + At(f, k + 1)
  <2>1. PICK g : SumLoop(f, k, g) /\ SumUpTo(f, k) = g[k]
    BY SumIsTheLoop
  <2>2. PICK h : SumLoop(f, k + 1, h) /\ SumUpTo(f, k + 1) = h[k + 1]
    BY SumIsTheLoop
  <2>3. /\ g[0] = h[0]
        /\ \A i \in 1..k : g[i] = g[i - 1] + At(f, i) /\ h[i] = h[i - 1] + At(f, i)
        /\ h[k + 1] = h[k] + At(f, k + 1)
    BY <2>1, <2>2 DEF SumLoop
  <2> DEFINE P == {i \in 0..k : g[i] = h[i]}
  <2>4. k \in P
    <3>1. 0 \in P /\ \A i \in 1..k : i - 1 \in P => i \in P
      BY <2>3
    <3> HIDE DEF P
    <3>2. \A i \in 0..k : i \in P
      BY <3>1, InductionUpTo
    <3>3. QED
      BY <3>2
  <2>5. QED
    BY <2>1, <2>2, <2>3, <2>4
<1>4. QED
  BY <1>1, <1>2, <1>3

LEMMA SumGrows ==
  ASSUME NEW f, Counts(f), NEW j \in Nat, NEW k \in Nat, j <= k
  PROVE  /\ SumUpTo(f, j) <= SumUpTo(f, k)
         /\ At(f, j) <= SumUpTo(f, k)
<1>1. \A i : At(f, i) \in Nat
  BY DEF At, Counts
<1>2. /\ \A i \in Nat : SumUpTo(f, i) \in Nat
      /\ SumUpTo(f, 0) = At(f, 0)
      /\ \A i \in Nat : SumUpTo(f, i + 1) = SumUpTo(f, i) + At(f, i + 1)
  BY SumSteps
<1>3. \A i \in 1..k : SumUpTo(f, i) = SumUpTo(f, i - 1) + At(f, i)
  <2> TAKE i \in 1..k
  <2>1. i - 1 \in Nat /\ (i - 1) + 1 = i
    OBVIOUS
  <2>2. QED
    BY <1>2, <2>1
<1> DEFINE P == {i \in 0..k : j <= i => SumUpTo(f, j) <= SumUpTo(f, i)}
<1>4. k \in P
  <2>1. 0 \in P
    BY <1>2
  <2>2. ASSUME NEW i \in 1..k, i - 1 \in P PROVE i \in P
    <3>1. i \in 0..k /\ i - 1 \in Nat /\ (j <= i => j <= i - 1 \/ j = i)
      OBVIOUS
    <3>2. SumUpTo(f, i) = SumUpTo(f, i - 1) + At(f, i) /\ At(f, i) \in Nat
      BY <1>1, <1>3
    <3>3. SumUpTo(f, i - 1) \in Nat /\ SumUpTo(f, j) \in Nat
      BY <1>2, <3>1
    <3>4. j <= i - 1 => SumUpTo(f, j) <= SumUpTo(f, i - 1)
      BY <2>2
    <3>5. QED
      BY <3>1, <3>2, <3>3, <3>4
  <2>3. \A i \in 1..k : i - 1 \in P => i \in P
    BY <2>2
  <2> HIDE DEF P
  <2>4. \A i \in 0..k : i \in P
    BY <2>1, <2>3, InductionUpTo
  <2>5. QED
    BY <2>4
<1>5. SumUpTo(f, j) <= SumUpTo(f, k)
  BY <1>4
<1>6. At(f, j) <= SumUpTo(f, j)
  <2>1. CASE j = 0
    BY <1>1, <1>2, <2>1
  <2>2. CASE j # 0
    <3>1. SumUpTo(f, j) = SumUpTo(f, j - 1) + At(f, j) /\ j - 1 \in Nat
      BY <1>3, <2>2
    <3>2. SumUpTo(f, j - 1) \in Nat /\ At(f, j) \in Nat
      BY <1>1, <1>2, <3>1
    <3>3. QED
      BY <3>1, <3>2
  <2>3. QED
    BY <2>1, <2>2
<1>7. SumUpTo(f, j) \in Nat /\ SumUpTo(f, k) \in Nat /\ At(f, j) \in Nat
  BY <1>1, <1>2
<1>8. QED
  BY <1>5, <1>6, <1>7

\* More at one place is more in every sum that reaches it.
LEMMA SumOfMore ==
  ASSUME NEW f, Counts(f), NEW t \in Nat, t \in DOMAIN f, NEW w \in Nat,
         NEW k \in Nat
  PROVE  \A g : /\ DOMAIN g = DOMAIN f /\ g[t] = f[t] + w
                /\ \A i \in DOMAIN f \ {t} : g[i] = f[i]
                => Counts(g) /\ SumUpTo(g, k) = SumUpTo(f, k) + (IF t <= k THEN w ELSE 0)
<1> SUFFICES ASSUME NEW g, DOMAIN g = DOMAIN f, g[t] = f[t] + w,
                    \A i \in DOMAIN f \ {t} : g[i] = f[i]
             PROVE  Counts(g) /\ SumUpTo(g, k) = SumUpTo(f, k) + (IF t <= k THEN w ELSE 0)
  OBVIOUS
<1>1. f[t] \in Nat
  BY DEF Counts
<1>2. DOMAIN g = DOMAIN f /\ g[t] = f[t] + w /\ \A i \in DOMAIN f \ {t} : g[i] = f[i]
  OBVIOUS
<1>3. Counts(g)
  BY <1>1, <1>2 DEF Counts
<1>4. \A i : At(g, i) = At(f, i) + (IF i = t THEN w ELSE 0) /\ At(f, i) \in Nat
  BY <1>1, <1>2 DEF At, Counts
<1>5. /\ \A i \in Nat : SumUpTo(f, i) \in Nat
      /\ SumUpTo(f, 0) = At(f, 0)
      /\ \A i \in Nat : SumUpTo(f, i + 1) = SumUpTo(f, i) + At(f, i + 1)
  BY SumSteps
<1>6. /\ \A i \in Nat : SumUpTo(g, i) \in Nat
      /\ SumUpTo(g, 0) = At(g, 0)
      /\ \A i \in Nat : SumUpTo(g, i + 1) = SumUpTo(g, i) + At(g, i + 1)
  BY <1>3, SumSteps
<1> DEFINE P == {i \in 0..k : SumUpTo(g, i) = SumUpTo(f, i) + (IF t <= i THEN w ELSE 0)}
<1>7. 0 \in P
  BY <1>4, <1>5, <1>6
<1>8. ASSUME NEW i \in 1..k, i - 1 \in P PROVE i \in P
  <2>1. i \in 0..k /\ i - 1 \in Nat /\ (i - 1) + 1 = i
    OBVIOUS
  <2>2. SumUpTo(g, i) = SumUpTo(g, i - 1) + At(g, i) /\ SumUpTo(f, i) = SumUpTo(f, i - 1) + At(f, i)
    BY <1>5, <1>6, <2>1
  <2>3. SumUpTo(g, i - 1) = SumUpTo(f, i - 1) + (IF t <= i - 1 THEN w ELSE 0)
    BY <1>8
  <2>4. SumUpTo(f, i - 1) \in Nat /\ SumUpTo(g, i - 1) \in Nat /\ At(f, i) \in Nat
    BY <1>4, <1>5, <1>6, <2>1
  <2>5. At(g, i) = At(f, i) + (IF i = t THEN w ELSE 0)
    BY <1>4
  <2>6. (t <= i <=> t <= i - 1 \/ i = t) /\ ~(t <= i - 1 /\ i = t)
    OBVIOUS
  <2>7. QED
    BY <2>1, <2>2, <2>3, <2>4, <2>5, <2>6
<1>9. k \in P
  <2>1. \A i \in 1..k : i - 1 \in P => i \in P
    BY <1>8
  <2> HIDE DEF P
  <2>2. \A i \in 0..k : i \in P
    BY <1>7, <2>1, InductionUpTo
  <2>3. QED
    BY <2>2
<1>10. QED
  BY <1>3, <1>9

LEMMA SumOfNone ==
  ASSUME NEW S, NEW k \in Nat
  PROVE  Counts(NoneIn(S)) /\ SumUpTo(NoneIn(S), k) = 0
<1> DEFINE f == NoneIn(S)
<1>1. Counts(f) /\ \A i : At(f, i) = 0
  BY DEF NoneIn, Counts, At
<1> HIDE DEF f
<1>2. /\ SumUpTo(f, 0) = At(f, 0)
      /\ \A i \in Nat : SumUpTo(f, i + 1) = SumUpTo(f, i) + At(f, i + 1)
  BY <1>1, SumSteps
<1> DEFINE P == {i \in 0..k : SumUpTo(f, i) = 0}
<1>3. 0 \in P
  BY <1>1, <1>2
<1>4. ASSUME NEW i \in 1..k, i - 1 \in P PROVE i \in P
  <2>1. i \in 0..k /\ i - 1 \in Nat /\ (i - 1) + 1 = i /\ SumUpTo(f, i - 1) = 0
    BY <1>4
  <2>2. SumUpTo(f, i) = SumUpTo(f, i - 1) + At(f, i)
    BY <1>2, <2>1
  <2>3. QED
    BY <1>1, <2>1, <2>2
<1>5. k \in P
  <2>1. \A i \in 1..k : i - 1 \in P => i \in P
    BY <1>4
  <2> HIDE DEF P
  <2>2. \A i \in 0..k : i \in P
    BY <1>3, <2>1, InductionUpTo
  <2>3. QED
    BY <2>2
<1>6. QED
  BY <1>1, <1>5 DEF f

-----------------------------------------------------------------------------
(* The histogram                                                           *)

Weighted(dist) == [t \in Durations |-> t * dist[t]]

LEMMA DistributionCounts ==
  ASSUME NEW dist \in [Durations -> Nat]
  PROVE  Counts(dist) /\ Counts(Weighted(dist))
<1>1. \A t \in Durations : dist[t] \in Nat /\ t \in Nat /\ t * dist[t] \in Nat
  BY DurationsFit
<1>2. QED
  BY <1>1 DEF Counts, Weighted

\* The parts of CountersAgree, under names.
BucketsAgree ==
  /\ samples = SumUpTo(accepted, MaxDuration)
  /\ \A b \in 0..Bits : SumUpTo(buckets, b) = SumUpTo(accepted, TwoTo[b] - 1)

TotalAgrees == total = Least(SumUpTo(Weighted(accepted), MaxDuration), MaxDuration)

ExtremesAgree ==
  /\ \A t \in Durations : accepted[t] > 0 => minimum <= t /\ t <= maximum
  /\ IF samples = 0
     THEN minimum = MaxDuration /\ maximum = 0
     ELSE {minimum, maximum} \subseteq Durations /\ accepted[minimum] > 0 /\ accepted[maximum] > 0

LEMMA PartsOfCounters == CountersAgree <=> BucketsAgree /\ TotalAgrees /\ ExtremesAgree
BY DEF CountersAgree, BucketsAgree, TotalAgrees, ExtremesAgree, Weighted

\* No count exceeds the number of samples.
LEMMA CountsAreSamples ==
  ASSUME HistogramTypeOK, BucketsAgree
  PROVE  /\ \A t \in Durations : accepted[t] <= samples
         /\ \A b \in 0..Bits : buckets[b] <= samples
         /\ SumUpTo(buckets, Bits) = samples
<1>1. /\ accepted \in [Durations -> Nat] /\ buckets \in [0..Bits -> Nat] /\ Bits \in Nat
  BY MaxSamplesAssumption, BitsAssumption DEF HistogramTypeOK
<1>2. Counts(accepted) /\ Counts(buckets)
  BY <1>1 DEF Counts
<1>3. \A t \in Durations : accepted[t] <= samples
  <2> TAKE t \in Durations
  <2>1. t \in Nat /\ t <= MaxDuration /\ MaxDuration \in Nat
    BY DurationsFit
  <2>2. At(accepted, t) <= SumUpTo(accepted, MaxDuration)
    BY <1>2, <2>1, SumGrows
  <2>3. QED
    BY <1>1, <2>2 DEF At, BucketsAgree
<1>4. SumUpTo(buckets, Bits) = samples
  BY DurationsFit DEF BucketsAgree
<1>5. \A b \in 0..Bits : buckets[b] <= samples
  <2> TAKE b \in 0..Bits
  <2>1. At(buckets, b) <= SumUpTo(buckets, Bits)
    BY <1>1, <1>2, SumGrows
  <2>2. QED
    BY <1>1, <1>4, <2>1 DEF At
<1>6. QED
  BY <1>3, <1>4, <1>5

LEMMA ResetHistogram ==
  ASSUME NoneIn(0..Bits) = buckets', samples' = 0, total' = 0, minimum' = MaxDuration,
         maximum' = 0, NoneIn(Durations) = accepted'
  PROVE  HistogramInv'
<1>1. MaxDuration \in Nat /\ \A b \in 0..Bits : TwoTo[b] - 1 \in Nat
  <2>1. \A b \in 0..Bits : TwoTo[b] \in Nat \ {0}
    BY TwoToGrows
  <2>2. QED
    BY <2>1, DurationsFit
<1>2. HistogramTypeOK'
  BY <1>1, MaxSamplesAssumption DEF HistogramTypeOK, NoneIn
<1>3. BucketsAgree'
  <2>1. SumUpTo(NoneIn(Durations), MaxDuration) = 0
    BY <1>1, SumOfNone
  <2>2. \A b \in 0..Bits : SumUpTo(NoneIn(0..Bits), b) = 0
                             /\ SumUpTo(NoneIn(Durations), TwoTo[b] - 1) = 0
    BY <1>1, SumOfNone, BitsAssumption
  <2>3. QED
    BY <2>1, <2>2 DEF BucketsAgree
<1>4. TotalAgrees'
  <2>1. Weighted(NoneIn(Durations)) = NoneIn(Durations)
    BY DurationsFit DEF Weighted, NoneIn
  <2>2. SumUpTo(NoneIn(Durations), MaxDuration) = 0
    BY <1>1, SumOfNone
  <2>3. SumUpTo(Weighted(accepted'), MaxDuration) = 0
    BY <2>1, <2>2
  <2>4. QED
    BY <1>1, <2>3 DEF TotalAgrees, Least
<1>5. ExtremesAgree'
  BY DEF ExtremesAgree, NoneIn
<1>6. CountersAgree'
  BY <1>3, <1>4, <1>5 DEF CountersAgree, BucketsAgree, TotalAgrees, ExtremesAgree, Weighted
<1>7. QED
  BY <1>2, <1>6 DEF HistogramInv

LEMMA ObserveKeeps ==
  ASSUME HistogramInv, NEW d \in Durations, Observe(d)
  PROVE  HistogramInv'
<1>1. /\ HistogramTypeOK /\ BucketsAgree /\ TotalAgrees /\ ExtremesAgree
  BY PartsOfCounters DEF HistogramInv
<1>2. /\ accepted \in [Durations -> Nat] /\ buckets \in [0..Bits -> Nat] /\ Bits \in Nat
      /\ samples \in Nat /\ samples < MaxSamples /\ MaxSamples \in Nat
      /\ total \in Nat /\ total <= MaxDuration
      /\ minimum \in Nat /\ minimum <= MaxDuration /\ maximum \in Nat /\ maximum <= MaxDuration
  BY <1>1, MaxSamplesAssumption, BitsAssumption, DurationsFit DEF HistogramTypeOK, Observe
<1>3. /\ d \in Nat /\ d <= MaxDuration /\ MaxDuration \in Nat
  BY DurationsFit
<1> DEFINE w == BucketFor(d)
<1>4. w \in 0..Bits /\ \A b \in 0..Bits : w <= b <=> d <= TwoTo[b] - 1
  BY <1>3, BucketOfDuration
<1>5. /\ buckets' = [buckets EXCEPT ![w] = @ + 1] /\ samples' = samples + 1
      /\ minimum' = Least(minimum, d) /\ maximum' = Greatest(maximum, d)
      /\ total' = Least(total + d, MaxDuration) /\ accepted' = [accepted EXCEPT ![d] = @ + 1]
  BY DEF Observe
<1> HIDE DEF w
<1>6. Counts(accepted) /\ Counts(buckets) /\ Counts(Weighted(accepted))
  BY <1>2, DistributionCounts DEF Counts
<1>7. HistogramTypeOK'
  <2>1. accepted[d] <= samples /\ buckets[w] <= samples
    BY <1>1, <1>4, CountsAreSamples
  <2>2. accepted' \in [Durations -> 0..MaxSamples]
    <3>1. accepted[d] + 1 \in 0..MaxSamples
      BY <1>2, <2>1
    <3>2. accepted \in [Durations -> 0..MaxSamples]
      BY <1>1 DEF HistogramTypeOK
    <3>3. QED
      BY <1>5, <3>1, <3>2
  <2>3. buckets' \in [0..Bits -> 0..MaxSamples]
    <3>1. buckets[w] + 1 \in 0..MaxSamples
      BY <1>2, <1>4, <2>1
    <3>2. buckets \in [0..Bits -> 0..MaxSamples]
      BY <1>1 DEF HistogramTypeOK
    <3>3. QED
      BY <1>5, <3>1, <3>2
  <2>4. /\ samples' \in 0..MaxSamples /\ total' \in 0..MaxDuration
        /\ minimum' \in 0..MaxDuration /\ maximum' \in 0..MaxDuration
    BY <1>2, <1>3, <1>5 DEF Least, Greatest
  <2>5. QED
    BY <2>2, <2>3, <2>4 DEF HistogramTypeOK
<1>8. BucketsAgree'
  <2>1. \A k \in Nat : SumUpTo(accepted', k) = SumUpTo(accepted, k) + (IF d <= k THEN 1 ELSE 0)
    <3> TAKE k \in Nat
    <3>1. d \in DOMAIN accepted /\ 1 \in Nat
      BY <1>2
    <3>2. /\ DOMAIN accepted' = DOMAIN accepted /\ accepted'[d] = accepted[d] + 1
          /\ \A t \in DOMAIN accepted \ {d} : accepted'[t] = accepted[t]
      BY <1>2, <1>5
    <3>3. QED
      BY <1>3, <1>6, <3>1, <3>2, SumOfMore
  <2>2. \A k \in Nat : SumUpTo(buckets', k) = SumUpTo(buckets, k) + (IF w <= k THEN 1 ELSE 0)
    <3> TAKE k \in Nat
    <3>1. w \in DOMAIN buckets /\ w \in Nat /\ 1 \in Nat
      BY <1>2, <1>4
    <3>2. /\ DOMAIN buckets' = DOMAIN buckets /\ buckets'[w] = buckets[w] + 1
          /\ \A b \in DOMAIN buckets \ {w} : buckets'[b] = buckets[b]
      BY <1>2, <1>4, <1>5
    <3>3. QED
      BY <1>6, <3>1, <3>2, SumOfMore
  <2>3. samples' = SumUpTo(accepted', MaxDuration)
    BY <1>1, <1>3, <1>5, <2>1 DEF BucketsAgree
  <2>4. ASSUME NEW b \in 0..Bits PROVE SumUpTo(buckets', b) = SumUpTo(accepted', TwoTo[b] - 1)
    <3>1. TwoTo[b] - 1 \in Nat /\ b \in Nat
      <4>1. TwoTo[b] \in Nat \ {0}
        BY TwoToGrows
      <4>2. QED
        BY <1>2, <4>1
    <3>2. SumUpTo(buckets, b) = SumUpTo(accepted, TwoTo[b] - 1)
      BY <1>1 DEF BucketsAgree
    <3>3. QED
      BY <1>4, <2>1, <2>2, <3>1, <3>2
  <2>5. QED
    BY <2>3, <2>4 DEF BucketsAgree
<1>9. TotalAgrees'
  <2> DEFINE s == SumUpTo(Weighted(accepted), MaxDuration)
  <2>1. /\ DOMAIN Weighted(accepted') = DOMAIN Weighted(accepted)
        /\ Weighted(accepted')[d] = Weighted(accepted)[d] + d
        /\ \A t \in DOMAIN Weighted(accepted) \ {d} :
             Weighted(accepted')[t] = Weighted(accepted)[t]
    <3>1. \A t \in Durations : t \in Nat /\ accepted[t] \in Nat
      BY <1>2, DurationsFit
    <3>2. d * (accepted[d] + 1) = d * accepted[d] + d
      BY <3>1
    <3>3. accepted'[d] = accepted[d] + 1 /\ \A t \in Durations \ {d} : accepted'[t] = accepted[t]
      BY <1>2, <1>5
    <3>4. \A t \in Durations :
            t * accepted'[t] = IF t = d THEN d * accepted[d] + d ELSE t * accepted[t]
      BY <3>2, <3>3
    <3>5. QED
      BY <3>4 DEF Weighted
  <2>2. d \in DOMAIN Weighted(accepted)
    BY DEF Weighted
  <2>3. SumUpTo(Weighted(accepted'), MaxDuration) = s + d
    BY <1>3, <1>6, <2>1, <2>2, SumOfMore
  <2>4. s \in Nat
    BY <1>3, <1>6, SumSteps
  <2>5. total = Least(s, MaxDuration)
    BY <1>1 DEF TotalAgrees
  <2> HIDE DEF s
  <2>6. Least(total + d, MaxDuration) = Least(s + d, MaxDuration)
    BY <1>3, <2>4, <2>5 DEF Least
  <2>7. QED
    BY <1>5, <2>3, <2>6 DEF TotalAgrees
<1>10. ExtremesAgree'
  <2>1. accepted'[d] = accepted[d] + 1 /\ \A t \in Durations \ {d} : accepted'[t] = accepted[t]
    BY <1>2, <1>5
  <2>2. \A t \in Durations : t \in Nat /\ accepted[t] \in Nat
    BY <1>2, DurationsFit
  <2>3. ASSUME NEW t \in Durations, accepted'[t] > 0 PROVE minimum' <= t /\ t <= maximum'
    <3>1. t = d \/ (minimum <= t /\ t <= maximum)
      BY <1>1, <2>1, <2>3 DEF ExtremesAgree
    <3>2. QED
      BY <1>2, <1>3, <1>5, <2>2, <3>1 DEF Least, Greatest
  <2>4. /\ {minimum', maximum'} \subseteq Durations
        /\ accepted'[minimum'] > 0 /\ accepted'[maximum'] > 0
    <3>1. accepted'[d] > 0
      BY <2>1, <2>2
    <3>2. CASE samples = 0
      <4>1. minimum = MaxDuration /\ maximum = 0
        BY <1>1, <3>2 DEF ExtremesAgree
      <4>2. minimum' = d /\ maximum' = d
        BY <1>3, <1>5, <4>1 DEF Least, Greatest
      <4>3. QED
        BY <3>1, <4>2
    <3>3. CASE samples # 0
      <4>1. /\ minimum \in Durations /\ maximum \in Durations
            /\ accepted[minimum] > 0 /\ accepted[maximum] > 0
        BY <1>1, <3>3 DEF ExtremesAgree
      <4>2. accepted'[minimum] > 0 /\ accepted'[maximum] > 0
        BY <2>1, <2>2, <3>1, <4>1
      <4>3. minimum' \in {minimum, d} /\ maximum' \in {maximum, d}
        BY <1>5 DEF Least, Greatest
      <4>4. QED
        BY <3>1, <4>1, <4>2, <4>3
    <3>4. QED
      BY <3>2, <3>3
  <2>5. samples' # 0
    BY <1>2, <1>5
  <2>6. QED
    BY <2>3, <2>4, <2>5 DEF ExtremesAgree
<1>11. CountersAgree'
  BY <1>8, <1>9, <1>10 DEF CountersAgree, BucketsAgree, TotalAgrees, ExtremesAgree, Weighted
<1>12. QED
  BY <1>7, <1>11 DEF HistogramInv

LEMMA HistogramInvUnchanged == HistogramInv /\ UNCHANGED histogramVars => HistogramInv'
BY DEF histogramVars, HistogramInv, HistogramTypeOK, CountersAgree

\* The histogram stays a digest of the samples counted since the last reset.
THEOREM HistogramIsADigest == HistogramSpec => []HistogramInv
<1>1. HistogramInit => HistogramInv
  <2> SUFFICES ASSUME HistogramInit PROVE HistogramInv
    OBVIOUS
  <2>1. MaxDuration \in Nat /\ \A b \in 0..Bits : TwoTo[b] - 1 \in Nat
    <3>1. \A b \in 0..Bits : TwoTo[b] \in Nat \ {0}
      BY TwoToGrows
    <3>2. QED
      BY <3>1, DurationsFit
  <2>2. HistogramTypeOK
    BY <2>1, MaxSamplesAssumption DEF HistogramInit, HistogramTypeOK, NoneIn
  <2>3. BucketsAgree
    <3>1. SumUpTo(NoneIn(Durations), MaxDuration) = 0
      BY <2>1, SumOfNone
    <3>2. \A b \in 0..Bits : SumUpTo(NoneIn(0..Bits), b) = 0
                               /\ SumUpTo(NoneIn(Durations), TwoTo[b] - 1) = 0
      BY <2>1, SumOfNone, BitsAssumption
    <3>3. QED
      BY <3>1, <3>2 DEF BucketsAgree, HistogramInit
  <2>4. TotalAgrees
    <3>1. Weighted(NoneIn(Durations)) = NoneIn(Durations)
      BY DurationsFit DEF Weighted, NoneIn
    <3>2. SumUpTo(NoneIn(Durations), MaxDuration) = 0
      BY <2>1, SumOfNone
    <3>3. QED
      BY <2>1, <3>1, <3>2 DEF TotalAgrees, Least, HistogramInit
  <2>5. ExtremesAgree
    BY DEF ExtremesAgree, HistogramInit, NoneIn
  <2>6. QED
    BY <2>2, <2>3, <2>4, <2>5, PartsOfCounters DEF HistogramInv
<1>2. HistogramInv /\ [HistogramNext]_histogramVars => HistogramInv'
  <2> SUFFICES ASSUME HistogramInv, [HistogramNext]_histogramVars PROVE HistogramInv'
    OBVIOUS
  <2>1. CASE Reset
    BY <2>1, ResetHistogram DEF Reset
  <2>2. ASSUME NEW elapsed \in Elapsed, StopTimer(elapsed) PROVE HistogramInv'
    <3>1. CASE elapsed >= 0 /\ Observe(elapsed)
      <4>1. elapsed \in Durations
        BY <3>1 DEF Durations
      <4>2. QED
        BY <3>1, <4>1, ObserveKeeps
    <3>2. CASE UNCHANGED histogramVars
      BY <3>2, HistogramInvUnchanged
    <3>3. QED
      BY <2>2, <3>1, <3>2 DEF StopTimer, ObserveFull
  <2>3. CASE UNCHANGED histogramVars
    BY <2>3, HistogramInvUnchanged
  <2>4. QED
    BY <2>1, <2>2, <2>3 DEF HistogramNext
<1>3. QED
  BY <1>1, <1>2, PTL DEF HistogramSpec

\* The counters saturate: until the histogram is reset no figure of a summary
\* turns back.
THEOREM FiguresNeverTurnBack == HistogramSpec => FiguresOnlySaturate
<1> DEFINE Saturates ==
             samples' # 0 => /\ samples' >= samples /\ total' >= total
                             /\ maximum' >= maximum /\ minimum' <= minimum
                             /\ \A b \in 0..Bits : buckets'[b] >= buckets[b]
<1>1. HistogramInv /\ [HistogramNext]_histogramVars => [Saturates]_histogramVars
  <2> SUFFICES ASSUME HistogramInv, HistogramNext, samples' # 0,
                      ~(UNCHANGED histogramVars)
               PROVE  Saturates
    OBVIOUS
  <2>1. PICK d \in Durations : Observe(d)
    BY DEF HistogramNext, Reset, StopTimer, ObserveFull, Durations
  <2>2. /\ samples \in Nat /\ total \in Nat /\ total <= MaxDuration
        /\ minimum \in Nat /\ maximum \in Nat /\ buckets \in [0..Bits -> Nat]
    BY MaxSamplesAssumption, DurationsFit DEF HistogramInv, HistogramTypeOK
  <2>3. d \in Nat /\ MaxDuration \in Nat
    BY DurationsFit
  <2>4. /\ samples' >= samples /\ total' >= total
        /\ maximum' >= maximum /\ minimum' <= minimum
    BY <2>1, <2>2, <2>3 DEF Observe, Least, Greatest
  <2>5. \A b \in 0..Bits : buckets'[b] >= buckets[b]
    <3> TAKE b \in 0..Bits
    <3>1. buckets'[b] \in {buckets[b], buckets[b] + 1} /\ buckets[b] \in Nat
      BY <2>1, <2>2 DEF Observe
    <3>2. QED
      BY <3>1
  <2>6. QED
    BY <2>4, <2>5
<1>2. QED
  BY <1>1, HistogramIsADigest, PTL DEF HistogramSpec, FiguresOnlySaturate

-----------------------------------------------------------------------------
(* Ranks                                                                   *)

\* The two ways to compute a rank agree, and s samples reach it when they are
\* percent of all.
LEMMA RanksAgree ==
  ASSUME NEW n \in Nat \ {0}, NEW p \in 1..100
  PROVE  /\ Rank(n, p) = NearestRank(n, p)
         /\ NearestRank(n, p) \in 1..n
         /\ \A s \in Nat : s >= NearestRank(n, p) <=> 100 * s >= p * n
<1> DEFINE q == n \div 100
           r == n % 100
           x == q * p
           y == r * p
           z == n * p
<1>1. q \in Nat /\ r \in Nat /\ n = 100 * q + r
  OBVIOUS
<1> HIDE DEF q, r
<1>2. x \in Nat /\ y \in Nat /\ z \in Nat /\ z = p * n
  BY <1>1
<1>3. z = 100 * x + y
  <2>1. z = (100 * q + r) * p
    BY <1>1
  <2>2. (100 * q + r) * p = 100 * (q * p) + r * p
    BY <1>1
  <2>3. QED
    BY <2>1, <2>2
<1>4. z >= 1 /\ z <= 100 * n
  <2>1. n * 1 <= n * p /\ n * p <= n * 100
    OBVIOUS
  <2>2. QED
    BY <2>1
<1>5. Rank(n, p) = x + (y + 99) \div 100
  BY DEF Rank, q, r
<1>6. NearestRank(n, p) = Least(Greatest(1, (z + 99) \div 100), n)
  BY DEF NearestRank
<1> HIDE DEF x, y, z
<1>7. (z + 99) \div 100 = x + (y + 99) \div 100
  BY <1>2, <1>3
<1>8. (z + 99) \div 100 >= 1 /\ (z + 99) \div 100 <= n
  BY <1>2, <1>4
<1>9. NearestRank(n, p) = (z + 99) \div 100
  BY <1>2, <1>6, <1>8 DEF Least, Greatest
<1>10. \A s \in Nat : s >= (z + 99) \div 100 <=> 100 * s >= z
  BY <1>2
<1>11. QED
  BY <1>2, <1>5, <1>7, <1>8, <1>9, <1>10

\* The exact percentile: the samples up to a duration reach the rank exactly
\* when the duration is not below it.
LEMMA PercentileIs ==
  ASSUME NEW dist \in [Durations -> Nat], CountOf(dist) > 0, NEW p \in 1..100
  PROVE  /\ Percentile(dist, p) \in Durations
         /\ \A j \in Nat : Percentile(dist, p) <= j
                             <=> SumUpTo(dist, j) >= NearestRank(CountOf(dist), p)
<1> DEFINE n == CountOf(dist)
           rank == NearestRank(n, p)
           Reaching == {t \in Durations : SumUpTo(dist, t) >= rank}
           From == {j \in 0..MaxDuration : SumUpTo(dist, j) >= rank}
<1>1. Counts(dist) /\ MaxDuration \in Nat
  BY DistributionCounts, DurationsFit
<1>2. /\ \A j \in Nat : SumUpTo(dist, j) \in Nat
      /\ SumUpTo(dist, 0) = At(dist, 0)
      /\ \A j \in Nat : SumUpTo(dist, j + 1) = SumUpTo(dist, j) + At(dist, j + 1)
  BY <1>1, SumSteps
<1>3. n \in Nat \ {0} /\ n = SumUpTo(dist, MaxDuration)
  BY <1>1, <1>2 DEF CountOf
<1> HIDE DEF n
<1>4. rank \in 1..n
  BY <1>3, RanksAgree
<1> HIDE DEF rank
<1>5. PICK k \in From : \A j \in From : k <= j
  <2>1. MaxDuration \in From /\ From \subseteq Nat
    BY <1>1, <1>3, <1>4
  <2> HIDE DEF From
  <2>2. QED
    BY <2>1, LeastNatural
<1>6. k \in Nat /\ k <= MaxDuration /\ SumUpTo(dist, k) >= rank
  BY <1>1, <1>5
<1>7. k \in Durations
  <2>1. CASE k = 0
    <3>1. At(dist, 0) >= rank
      BY <1>2, <1>6, <2>1
    <3>2. QED
      BY <1>4, <2>1, <3>1 DEF At
  <2>2. CASE k # 0
    <3>1. k - 1 \in Nat /\ (k - 1) + 1 = k /\ k - 1 \in 0..MaxDuration
      BY <1>1, <1>6, <2>2
    <3>2. ~(SumUpTo(dist, k - 1) >= rank)
      <4>1. k - 1 \notin From
        <5> HIDE DEF From
        <5>1. QED
          BY <1>5, <1>6, <3>1
      <4>2. QED
        BY <3>1, <4>1
    <3>3. SumUpTo(dist, k) = SumUpTo(dist, k - 1) + At(dist, k)
      BY <1>2, <3>1
    <3>4. At(dist, k) # 0
      BY <1>2, <1>4, <1>6, <3>1, <3>2, <3>3
    <3>5. QED
      BY <3>4 DEF At
  <2>3. QED
    BY <2>1, <2>2
<1>8. \A j \in Nat : k <= j <=> SumUpTo(dist, j) >= rank
  <2> TAKE j \in Nat
  <2>1. k <= j => SumUpTo(dist, k) <= SumUpTo(dist, j)
    BY <1>1, <1>6, SumGrows
  <2>2. SumUpTo(dist, k) \in Nat /\ SumUpTo(dist, j) \in Nat
    BY <1>2, <1>6
  <2>3. ASSUME SumUpTo(dist, j) >= rank, ~(k <= j) PROVE FALSE
    <3>1. j \in From
      BY <1>1, <1>6, <2>3
    <3> HIDE DEF From
    <3>2. QED
      BY <1>5, <2>3, <3>1
  <2>4. QED
    BY <1>4, <1>6, <2>1, <2>2, <2>3
<1>9. Percentile(dist, p) = CHOOSE t \in Reaching : \A u \in Reaching : t <= u
  BY DEF Percentile, rank, n
<1>10. \A u \in Reaching : u \in Nat /\ SumUpTo(dist, u) >= rank
  BY DurationsFit
<1>11. k \in Reaching
  BY <1>6, <1>7
<1> HIDE DEF Reaching
<1>12. \A u \in Reaching : k <= u
  BY <1>8, <1>10
<1>13. \A t \in Reaching : (\A u \in Reaching : t <= u) => t = k
  BY <1>6, <1>10, <1>11, <1>12
<1>14. Percentile(dist, p) = k
  BY <1>9, <1>11, <1>12, <1>13
<1>15. QED
  BY <1>7, <1>8, <1>14 DEF rank, n

-----------------------------------------------------------------------------
(* Histogram and benchmark                                                 *)

LEMMA AcceptedIsMeasured ==
  ASSUME HistogramInv
  PROVE  /\ accepted \in [Durations -> Nat] /\ samples \in Nat
         /\ CountOf(accepted) = samples
<1>1. CountOf(accepted) = samples
  BY DEF HistogramInv, CountersAgree, CountOf
<1>2. QED
  BY <1>1, MaxSamplesAssumption DEF HistogramInv, HistogramTypeOK

LEMMA BucketsAnswerThePercentile ==
  ASSUME HistogramInv, samples > 0, NEW p \in 1..100
  PROVE  PercentileUpper(p) = BucketUpper(BucketFor(Percentile(accepted, p)))
<1> DEFINE k == Percentile(accepted, p)
           rank == NearestRank(samples, p)
           Reaching == {b \in 0..Bits : SumUpTo(buckets, b) >= rank}
<1>1. /\ accepted \in [Durations -> Nat] /\ samples \in Nat \ {0}
      /\ CountOf(accepted) = samples
  BY AcceptedIsMeasured
<1>2. Rank(samples, p) = rank
  BY <1>1, RanksAgree
<1>3. k \in Durations /\ \A j \in Nat : k <= j <=> SumUpTo(accepted, j) >= rank
  BY <1>1, PercentileIs
<1> HIDE DEF k, rank
<1>4. BucketFor(k) \in 0..Bits /\ \A b \in 0..Bits : BucketFor(k) <= b <=> k <= TwoTo[b] - 1
  <2>1. k \in Nat /\ k <= MaxDuration
    BY <1>3, DurationsFit
  <2>2. QED
    BY <2>1, BucketOfDuration
<1>5. \A b \in 0..Bits : b \in Reaching <=> BucketFor(k) <= b
  <2> TAKE b \in 0..Bits
  <2>1. TwoTo[b] - 1 \in Nat
    <3>1. TwoTo[b] \in Nat \ {0}
      BY TwoToGrows
    <3>2. QED
      BY <3>1
  <2>2. SumUpTo(buckets, b) = SumUpTo(accepted, TwoTo[b] - 1)
    BY DEF HistogramInv, CountersAgree
  <2>3. QED
    BY <1>3, <1>4, <2>1, <2>2
<1>6. PercentileUpper(p) = IF Reaching = {} THEN maximum
                           ELSE BucketUpper(CHOOSE b \in Reaching : \A c \in Reaching : b <= c)
  <2>1. ~(samples = 0 \/ p = 0 \/ p > 100)
    BY <1>1
  <2>2. QED
    BY <1>2, <2>1 DEF PercentileUpper
<1>7. Reaching \subseteq 0..Bits
  OBVIOUS
<1> HIDE DEF Reaching
<1> DEFINE w == BucketFor(k)
<1>8. w \in Reaching /\ \A c \in Reaching : w <= c
  BY <1>4, <1>5, <1>7
<1>9. \A b \in Reaching : (\A c \in Reaching : b <= c) => b = w
  BY <1>4, <1>7, <1>8
<1> HIDE DEF w
<1>10. (CHOOSE b \in Reaching : \A c \in Reaching : b <= c) = w
  BY <1>8, <1>9
<1>11. QED
  BY <1>6, <1>8, <1>10 DEF w, k

\* Live telemetry and the benchmark, which compute their ranks differently,
\* answer every percentile from the same bucket.
THEOREM TelemetryAgreesWithBench == HistogramSpec => []HistogramAgreesWithBench
<1>1. HistogramInv => HistogramAgreesWithBench
  BY BucketsAnswerThePercentile DEF HistogramAgreesWithBench
<1>2. QED
  BY <1>1, HistogramIsADigest, PTL

-----------------------------------------------------------------------------
(* Records                                                                 *)

\* What the benchmark records of any samples at all is evidence.
LEMMA RecordIs ==
  ASSUME NEW of \in Identities, NEW dist \in [Durations -> Nat], CountOf(dist) > 0, NEW passed \in BOOLEAN
  PROVE  LET record == Record(of, dist, passed)
         IN  /\ record.samples = CountOf(dist) /\ record.correct = passed
             /\ record.p95 = Percentile(dist, 95) /\ record.p99 = Percentile(dist, 99)
             /\ BenchmarkValid(record)
             /\ EvidenceValid(record) <=> (passed = TRUE)
<1> DEFINE n == CountOf(dist)
           record == Record(of, dist, passed)
<1>1. Counts(dist) /\ Counts(Weighted(dist)) /\ MaxDuration \in Nat
  BY DistributionCounts, DurationsFit
<1>2. n \in Nat \ {0}
  BY <1>1, SumSteps DEF CountOf
<1>3. SumUpTo(Weighted(dist), MaxDuration) \div n \in Nat
  <2>1. SumUpTo(Weighted(dist), MaxDuration) \in Nat
    BY <1>1, SumSteps
  <2>2. QED
    BY <1>2, <2>1
<1>4. record = [identity |-> of,
                samples |-> n, mean |-> SumUpTo(Weighted(dist), MaxDuration) \div n,
                p50 |-> Percentile(dist, 50), p95 |-> Percentile(dist, 95),
                p99 |-> Percentile(dist, 99), correct |-> passed]
  BY <1>2 DEF Record, Weighted
<1> HIDE DEF n, record
<1>5. ASSUME NEW p \in 1..100, NEW q \in 1..100, p <= q
      PROVE  Percentile(dist, p) <= Percentile(dist, q)
  <2> DEFINE k == Percentile(dist, q)
             s == SumUpTo(dist, k)
  <2>1. k \in Nat /\ s >= NearestRank(n, q)
    <3>1. k \in Durations /\ \A j \in Nat : k <= j <=> SumUpTo(dist, j) >= NearestRank(n, q)
      BY PercentileIs DEF n
    <3>2. k \in Nat
      BY <3>1, DurationsFit
    <3> HIDE DEF k
    <3>3. QED
      BY <3>1, <3>2
  <2>2. s \in Nat
    BY <1>1, <2>1, SumSteps
  <2> HIDE DEF k, s
  <2>3. 100 * s >= q * n
    BY <1>2, <2>1, <2>2, RanksAgree
  <2>4. q * n >= p * n /\ q * n \in Nat /\ p * n \in Nat
    BY <1>2, <1>5
  <2>5. s >= NearestRank(n, p)
    <3>1. \A u \in Nat : u >= NearestRank(n, p) <=> 100 * u >= p * n
      BY <1>2, RanksAgree
    <3>2. 100 * s >= p * n
      BY <2>2, <2>3, <2>4
    <3>3. QED
      BY <2>2, <3>1, <3>2
  <2>6. QED
    <3>1. \A j \in Nat : Percentile(dist, p) <= j <=> SumUpTo(dist, j) >= NearestRank(n, p)
      BY PercentileIs DEF n
    <3>2. QED
      BY <2>1, <2>5, <3>1 DEF k, s
<1>6. record.p50 <= record.p95 /\ record.p95 <= record.p99
  <2>1. Percentile(dist, 50) <= Percentile(dist, 95) /\ Percentile(dist, 95) <= Percentile(dist, 99)
    BY <1>5
  <2>2. QED
    BY <1>4, <2>1
<1>7. record.samples > 0 /\ Finite(record.mean) /\ record.correct = passed
  <2>1. record.mean \in Nat /\ record.samples = n
    BY <1>3, <1>4
  <2>2. record.mean # NonFinite
    BY <2>1, NonFiniteAssumption
  <2>3. QED
    BY <1>2, <1>4, <2>1, <2>2 DEF Finite
<1>8. BenchmarkValid(record) /\ (EvidenceValid(record) <=> (passed = TRUE))
  BY <1>6, <1>7 DEF BenchmarkValid, EvidenceValid
<1>9. QED
  BY <1>3, <1>4, <1>8 DEF record, n

\* A correct measurement is evidence.
LEMMA CorrectRecord ==
  ASSUME NEW of \in Identities, NEW dist \in [Durations -> Nat], CountOf(dist) > 0
  PROVE  EvidenceValid(Record(of, dist, TRUE))
BY RecordIs

\* Without samples there is no evidence.
LEMMA NoRecordWithoutSamples ==
  ASSUME NEW of \in Identities, NEW dist, CountOf(dist) = 0, NEW passed
  PROVE  ~BenchmarkValid(Record(of, dist, passed))
BY DEF Record, BenchmarkValid

-----------------------------------------------------------------------------
(* The manifest                                                            *)

LEMMA IssuesOfAManifest ==
  ASSUME NEW layers, NEW kind, NEW record
  PROVE  ValidateManifest(Manifest(layers, kind, <<record>>)) = "None"
           <=> /\ ProofOrderValid(layers)
               /\ "representative_benchmark" \in layers => kind = "Representative"
               /\ BenchmarkValid(record)
               /\ "representative_benchmark" \in layers => record.correct
<1> DEFINE m == Manifest(layers, kind, <<record>>)
<1>1. /\ m.schemaMatches /\ m.apiMatches /\ m.identified
      /\ m.hardware = HardwareFields /\ m.workload = WorkloadFields
      /\ m.kind = kind /\ m.layers = layers /\ m.benchmarks = <<record>>
  BY DEF Manifest
<1>2. <<record>> # <<>> /\ DOMAIN <<record>> = {1} /\ <<record>>[1] = record
  OBVIOUS
<1> HIDE DEF m
<1>3. (\E i \in DOMAIN m.benchmarks :
         \/ ~BenchmarkValid(m.benchmarks[i])
         \/ Representative(m) /\ ~m.benchmarks[i].correct)
      <=> ~BenchmarkValid(record) \/ (Representative(m) /\ ~record.correct)
  BY <1>1, <1>2
<1>4. Representative(m) <=> "representative_benchmark" \in layers
  BY <1>1 DEF Representative
<1>5. ValidateManifest(m) = "None"
        <=> /\ ProofOrderValid(layers)
            /\ ~(Representative(m) /\ kind # "Representative")
            /\ ~(~BenchmarkValid(record) \/ (Representative(m) /\ ~record.correct))
  BY <1>1, <1>2, <1>3 DEF ValidateManifest
<1>6. QED
  BY <1>4, <1>5 DEF m

\* Whatever is measured, a manifest that passes with the representative layer
\* holds evidence the gate can compare, and no correct measurement is refused.
THEOREM ManifestsPassEvidence == HistogramSpec => []CertifiedIsComparable
<1>1. HistogramInv => CertifiedIsComparable
  <2> SUFFICES ASSUME HistogramInv, NEW layers \in Claims,
                      NEW kind \in {"Synthetic", "Representative"}, NEW passed \in BOOLEAN
               PROVE  LET record == Record(OnFile, accepted, passed)
                          issue  == ValidateManifest(Manifest(layers, kind, <<record>>))
                      IN  /\ issue = "None" /\ "representative_benchmark" \in layers =>
                               /\ EvidenceValid(record) /\ kind = "Representative"
                               /\ {"source_design", "build_tests"} \subseteq layers
                          /\ samples > 0 /\ passed /\ kind = "Representative" /\ ProofOrderValid(layers)
                               => issue = "None"
    BY DEF CertifiedIsComparable
  <2> DEFINE record == Record(OnFile, accepted, passed)
             issue  == ValidateManifest(Manifest(layers, kind, <<record>>))
  <2>1. /\ accepted \in [Durations -> Nat] /\ samples \in Nat /\ CountOf(accepted) = samples
    BY AcceptedIsMeasured
  <2>3. record.correct = passed
    BY DEF Record
  <2> HIDE DEF record
  <2>4. issue = "None"
          <=> /\ ProofOrderValid(layers)
              /\ "representative_benchmark" \in layers => kind = "Representative"
              /\ BenchmarkValid(record)
              /\ "representative_benchmark" \in layers => record.correct
    BY IssuesOfAManifest
  <2> HIDE DEF issue
  <2>5. samples > 0 => BenchmarkValid(record) /\ (EvidenceValid(record) <=> (passed = TRUE))
    BY <2>1, OnFileAssumption, RecordIs DEF record
  <2>6. BenchmarkValid(record) => samples > 0
    BY <2>1, OnFileAssumption, NoRecordWithoutSamples DEF record
  <2>7. ProofOrderValid(layers) /\ "representative_benchmark" \in layers
          => {"source_design", "build_tests"} \subseteq layers
    <3>1. /\ ProofLayers[1] = "source_design" /\ ProofLayers[2] = "build_tests"
          /\ ProofLayers[3] = "representative_benchmark"
      BY DEF ProofLayers
    <3>2. ProofOrderValid(layers) => /\ ProofLayers[3] \in layers => ProofLayers[2] \in layers
                                     /\ ProofLayers[2] \in layers => ProofLayers[1] \in layers
      <4>1. 2 \in 2..5 /\ 3 \in 2..5 /\ 3 - 1 = 2 /\ 2 - 1 = 1
        OBVIOUS
      <4>2. QED
        BY <4>1 DEF ProofOrderValid
    <3>3. QED
      BY <3>1, <3>2
  <2>8. issue = "None" /\ "representative_benchmark" \in layers =>
          /\ EvidenceValid(record) /\ kind = "Representative"
          /\ {"source_design", "build_tests"} \subseteq layers
    BY <2>3, <2>4, <2>5, <2>6, <2>7
  <2>9. samples > 0 /\ passed /\ kind = "Representative" /\ ProofOrderValid(layers)
          => issue = "None"
    BY <2>3, <2>4, <2>5
  <2>10. QED
    BY <2>8, <2>9 DEF record, issue
<1>2. QED
  BY <1>1, HistogramIsADigest, PTL

-----------------------------------------------------------------------------
(* The regression gate                                                     *)

LEMMA ReferencesAreEvidence ==
  ASSUME NEW reference \in References
  PROVE  /\ reference \in [Durations -> Nat] /\ CountOf(reference) \in Nat \ {0}
         /\ ReferenceRecord[reference] = Record(OnFile, reference, TRUE)
<1>1. /\ reference \in [Durations -> Nat]
      /\ ReferenceRecord[reference] = Record(OnFile, reference, TRUE)
  BY ReferencesAssumption DEF ReferenceRecord
<1>2. PICK t \in Durations : reference[t] > 0
  BY ReferencesAssumption
<1>3. Counts(reference) /\ MaxDuration \in Nat /\ t \in Nat /\ t <= MaxDuration
  BY <1>1, DistributionCounts, DurationsFit
<1>4. At(reference, t) <= CountOf(reference)
  BY <1>3, SumGrows DEF CountOf
<1>5. CountOf(reference) \in Nat
  BY <1>3, SumSteps DEF CountOf
<1>6. QED
  BY <1>1, <1>2, <1>4, <1>5 DEF At

\* What does not exceed keeps its share of the samples within the limits.
LEMMA WithinTheLimits ==
  ASSUME NEW dist \in [Durations -> Nat], CountOf(dist) > 0, NEW p \in 1..100,
         NEW recorded \in Nat, NEW limit \in Nat, NEW absolute \in Nat,
         ~Exceeds(recorded, Percentile(dist, p), limit, absolute)
  PROVE  TailWithin(dist, recorded, p, limit, absolute)
<1> DEFINE k == Percentile(dist, p)
           n == CountOf(dist)
           s == SumUpTo(dist, k)
<1>1. Counts(dist) /\ n \in Nat \ {0}
  <2>1. Counts(dist) /\ MaxDuration \in Nat
    BY DistributionCounts, DurationsFit
  <2>2. QED
    BY <2>1, SumSteps DEF CountOf
<1>2. k \in Durations /\ k \in Nat /\ \A j \in Nat : k <= j <=> SumUpTo(dist, j) >= NearestRank(n, p)
  <2>1. k \in Durations /\ \A j \in Nat : k <= j <=> SumUpTo(dist, j) >= NearestRank(n, p)
    BY PercentileIs
  <2>2. QED
    BY <2>1, DurationsFit
<1> HIDE DEF k, n
<1>3. s >= NearestRank(n, p) /\ s \in Nat
  BY <1>1, <1>2, SumSteps
<1> HIDE DEF s
<1>4. 100 * s >= p * n
  BY <1>1, <1>3, RanksAgree
<1>5. limit * recorded \in Nat
  OBVIOUS
<1> DEFINE slack == limit * recorded
<1>6. ~(/\ k > recorded
        /\ \/ absolute # 0 /\ k - recorded > absolute
           \/ recorded = 0
           \/ 100 * (k - recorded) > slack)
  BY DEF Exceeds, k
<1>7. slack \in Nat
  BY <1>5
<1> HIDE DEF slack
<1>8. 100 * (k - recorded) <= slack /\ (absolute # 0 => k - recorded <= absolute)
  BY <1>2, <1>6, <1>7
<1>9. 100 * SumUpTo(dist, k) >= p * CountOf(dist)
  BY <1>4 DEF s, n
<1>10. k \in DOMAIN dist
  BY <1>2
<1>11. QED
  BY <1>8, <1>9, <1>10 DEF TailWithin, slack

\* No percentile of a candidate that is nowhere slower is above the
\* reference's: the shares compare after crosswise multiplication.
LEMMA NoSlowerPercentile ==
  ASSUME NEW dist \in [Durations -> Nat], CountOf(dist) > 0,
         NEW reference \in References, NoSlower(dist, reference), NEW p \in 1..100
  PROVE  Percentile(dist, p) <= Percentile(reference, p)
<1> DEFINE n == CountOf(dist)
           m == CountOf(reference)
           k == Percentile(reference, p)
           c == SumUpTo(dist, k)
           r == SumUpTo(reference, k)
<1>1. /\ reference \in [Durations -> Nat] /\ m \in Nat \ {0}
      /\ ReferenceRecord[reference].samples = m
  <2>1. /\ reference \in [Durations -> Nat] /\ m \in Nat \ {0}
        /\ ReferenceRecord[reference] = Record(OnFile, reference, TRUE)
    BY ReferencesAreEvidence
  <2>2. Record(OnFile, reference, TRUE).samples = m
    <3>1. m > 0
      BY <2>1
    <3>2. QED
      BY <2>1, <3>1 DEF Record
  <2>3. QED
    BY <2>1, <2>2
<1>2. Counts(dist) /\ Counts(reference) /\ n \in Nat \ {0}
  <2>1. Counts(dist) /\ Counts(reference) /\ MaxDuration \in Nat
    BY <1>1, DistributionCounts, DurationsFit
  <2>2. QED
    BY <2>1, SumSteps DEF CountOf
<1>3. k \in Durations /\ k \in Nat /\ \A j \in Nat : k <= j <=> SumUpTo(reference, j) >= NearestRank(m, p)
  <2>1. k \in Durations /\ \A j \in Nat : k <= j <=> SumUpTo(reference, j) >= NearestRank(m, p)
    BY <1>1, PercentileIs
  <2>2. QED
    BY <2>1, DurationsFit
<1>4. c * m >= r * n
  BY <1>1, <1>3 DEF NoSlower
<1> HIDE DEF k, n, m
<1>5. c \in Nat /\ r \in Nat /\ r >= NearestRank(m, p)
  BY <1>2, <1>3, SumSteps
<1> HIDE DEF c, r
<1>6. 100 * r >= p * m
  BY <1>1, <1>5, RanksAgree
<1>7. 100 * c >= p * n
  <2>1. (100 * r) * n >= (p * m) * n
    BY <1>1, <1>2, <1>5, <1>6
  <2>2. (100 * c) * m >= (100 * r) * n
    <3>1. c * m \in Nat /\ r * n \in Nat
      BY <1>1, <1>2, <1>5
    <3>2. 100 * (c * m) >= 100 * (r * n)
      BY <1>4, <3>1
    <3>3. 100 * (c * m) = (100 * c) * m /\ 100 * (r * n) = (100 * r) * n
      BY <1>1, <1>2, <1>5
    <3>4. QED
      BY <3>2, <3>3
  <2>3. (p * m) * n = (p * n) * m
    BY <1>1, <1>2
  <2>4. (100 * c) * m >= (p * n) * m
    <3>1. (100 * c) * m \in Nat /\ (100 * r) * n \in Nat /\ (p * m) * n \in Nat
      BY <1>1, <1>2, <1>5
    <3>2. QED
      BY <2>1, <2>2, <2>3, <3>1
  <2>5. ASSUME 100 * c < p * n PROVE FALSE
    <3> DEFINE a == 100 * c
               b == p * n
    <3>1. a \in Nat /\ b \in Nat /\ a < b /\ a * m >= b * m
      BY <1>2, <1>5, <2>4, <2>5
    <3> HIDE DEF a, b
    <3>2. (a + 1) * m <= b * m
      BY <1>1, <3>1
    <3>3. (a + 1) * m = a * m + m /\ a * m \in Nat /\ b * m \in Nat
      BY <1>1, <3>1
    <3>4. QED
      BY <1>1, <3>1, <3>2, <3>3
  <2>6. 100 * c \in Nat /\ p * n \in Nat
    BY <1>2, <1>5
  <2>7. QED
    BY <2>5, <2>6
<1>8. c >= NearestRank(n, p)
  BY <1>2, <1>5, <1>7, RanksAgree
<1>9. \A j \in Nat : Percentile(dist, p) <= j <=> SumUpTo(dist, j) >= NearestRank(n, p)
  BY PercentileIs DEF n
<1>10. QED
  BY <1>3, <1>8, <1>9 DEF c, k

\* What passes the gate keeps both tails within the policy's limits, and no
\* valid policy refuses a candidate that is slower at no share.
THEOREM TheGateJudgesTheTail == HistogramSpec => []GateJudgesTheTail
<1>1. HistogramInv => GateJudgesTheTail
  <2> SUFFICES ASSUME HistogramInv, samples > 0, NEW of \in Identities,
                      NEW reference \in References, NEW limits \in RegressionPolicies
               PROVE  LET candidate == Record(of, accepted, TRUE)
                          filed == ReferenceRecord[reference]
                          issue == EvaluatePerformanceRegression(filed, candidate, limits)
                      IN  /\ issue = "None" =>
                               /\ of = OnFile
                               /\ TailWithin(accepted, filed.p95, 95, limits.p95Percent, limits.p95Absolute)
                               /\ TailWithin(accepted, filed.p99, 99, limits.p99Percent, limits.p99Absolute)
                          /\ PolicyValid(limits) /\ of = OnFile /\ issue # "None"
                               => ~NoSlower(accepted, reference)
    BY DEF GateJudgesTheTail
  <2> DEFINE candidate == Record(of, accepted, TRUE)
             filed == ReferenceRecord[reference]
             issue == EvaluatePerformanceRegression(filed, candidate, limits)
             slow95 == Exceeds(filed.p95, candidate.p95, limits.p95Percent, limits.p95Absolute)
             slow99 == Exceeds(filed.p99, candidate.p99, limits.p99Percent, limits.p99Absolute)
  <2>1. /\ accepted \in [Durations -> Nat] /\ CountOf(accepted) > 0
    BY AcceptedIsMeasured
  <2>2. /\ EvidenceValid(candidate) /\ candidate.identity = of
        /\ candidate.p95 = Percentile(accepted, 95) /\ candidate.p99 = Percentile(accepted, 99)
    <3>1. EvidenceValid(candidate)
      BY <2>1, CorrectRecord
    <3>2. candidate = Record(of, accepted, TRUE) /\ CountOf(accepted) # 0
      BY <2>1
    <3> HIDE DEF candidate, issue
    <3>3. /\ candidate.identity = of
          /\ candidate.p95 = Percentile(accepted, 95) /\ candidate.p99 = Percentile(accepted, 99)
      BY <3>2 DEF Record
    <3>4. QED
      BY <3>1, <3>3
  <2>3. /\ reference \in [Durations -> Nat] /\ CountOf(reference) > 0
        /\ filed = Record(OnFile, reference, TRUE)
    <3>1. CountOf(reference) \in Nat \ {0}
      BY ReferencesAreEvidence
    <3>2. CountOf(reference) > 0
      BY <3>1
    <3>3. QED
      BY <3>2, ReferencesAreEvidence
  <2>4. /\ EvidenceValid(filed) /\ filed.identity = OnFile
        /\ filed.p95 = Percentile(reference, 95) /\ filed.p99 = Percentile(reference, 99)
    <3> HIDE DEF filed, candidate, issue
    <3>1. EvidenceValid(Record(OnFile, reference, TRUE))
      BY <2>3, OnFileAssumption, CorrectRecord
    <3>2. CountOf(reference) # 0
      BY <2>3
    <3>3. /\ filed.identity = OnFile
          /\ filed.p95 = Percentile(reference, 95) /\ filed.p99 = Percentile(reference, 99)
      BY <2>3, <3>2 DEF Record
    <3>4. QED
      BY <2>3, <3>1, <3>3
  <2>5. filed.p95 \in Nat /\ filed.p99 \in Nat /\ candidate.p95 \in Nat /\ candidate.p99 \in Nat
    <3>1. /\ Percentile(accepted, 95) \in Durations /\ Percentile(accepted, 99) \in Durations
          /\ Percentile(reference, 95) \in Durations /\ Percentile(reference, 99) \in Durations
      BY <2>1, <2>3, PercentileIs
    <3>2. \A t \in Durations : t \in Nat
      BY DurationsFit
    <3> HIDE DEF candidate, filed
    <3>3. QED
      BY <2>2, <2>4, <3>1, <3>2
  <2>6. issue = "None" <=> PolicyValid(limits) /\ of = OnFile /\ ~slow95 /\ ~slow99
    BY <2>2, <2>4 DEF EvaluatePerformanceRegression
  <2> HIDE DEF candidate, filed, issue
  <2>7. /\ limits.p95Percent \in Int \union {NonFinite} /\ limits.p95Absolute \in Nat
        /\ limits.p99Percent \in Int \union {NonFinite} /\ limits.p99Absolute \in Nat
    BY RegressionPoliciesAssumption
  <2>8. PolicyValid(limits) => limits.p95Percent \in Nat /\ limits.p99Percent \in Nat
    <3>1. \A x \in Int : x >= 0 => x \in Nat
      OBVIOUS
    <3>2. QED
      BY <2>7, <3>1 DEF PolicyValid
  <2>9. issue = "None" =>
          /\ of = OnFile
          /\ TailWithin(accepted, filed.p95, 95, limits.p95Percent, limits.p95Absolute)
          /\ TailWithin(accepted, filed.p99, 99, limits.p99Percent, limits.p99Absolute)
    <3>1. ASSUME issue = "None"
          PROVE  TailWithin(accepted, filed.p95, 95, limits.p95Percent, limits.p95Absolute)
      <4>1. ~Exceeds(filed.p95, Percentile(accepted, 95), limits.p95Percent, limits.p95Absolute)
        BY <2>2, <2>6, <3>1
      <4>2. limits.p95Percent \in Nat /\ 95 \in 1..100
        BY <2>6, <2>8, <3>1
      <4>3. QED
        BY <2>1, <2>5, <2>7, <4>1, <4>2, WithinTheLimits
    <3>2. ASSUME issue = "None"
          PROVE  TailWithin(accepted, filed.p99, 99, limits.p99Percent, limits.p99Absolute)
      <4>1. ~Exceeds(filed.p99, Percentile(accepted, 99), limits.p99Percent, limits.p99Absolute)
        BY <2>2, <2>6, <3>2
      <4>2. limits.p99Percent \in Nat /\ 99 \in 1..100
        BY <2>6, <2>8, <3>2
      <4>3. QED
        BY <2>1, <2>5, <2>7, <4>1, <4>2, WithinTheLimits
    <3>3. QED
      BY <2>6, <3>1, <3>2
  <2>10. ASSUME PolicyValid(limits), of = OnFile, NoSlower(accepted, reference) PROVE issue = "None"
    <3>1. candidate.p95 <= filed.p95 /\ candidate.p99 <= filed.p99
      BY <2>1, <2>2, <2>4, <2>10, NoSlowerPercentile
    <3>2. ~(candidate.p95 > filed.p95) /\ ~(candidate.p99 > filed.p99)
      BY <2>5, <3>1
    <3>3. QED
      BY <2>6, <2>10, <3>2 DEF Exceeds
  <2>11. QED
    BY <2>9, <2>10 DEF candidate, filed, issue
<1>2. QED
  BY <1>1, HistogramIsADigest, PTL
=============================================================================

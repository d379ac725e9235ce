--------------------------- MODULE BudgetGovernor ---------------------------
(***************************************************************************)
(* The compute-budget governor (Tuner/BudgetGovernor.cpp and its header)   *)
(* in the loop it is made for: a consumer completes a turn of the work the *)
(* governor allows, reports how long it took, and sheds work in the next   *)
(* turn accordingly.  The governor times nothing itself; a turn lasts as   *)
(* long as the work classes it was allowed to run cost.                    *)
(***************************************************************************)
EXTENDS Integers

CONSTANTS
  Word,        \* the integers of the code are 0 .. Word - 1 (2^64 in C++)
  Policies,    \* policies consumers write by hand
  Envelopes,   \* compute envelopes consumers delegate
  Loads        \* what the three classes of work cost in a turn

\* Percentages of remainders below 100 fit a word.
ASSUME WordAssumption == Word \in Nat /\ Word > 10000

Words == 0 .. Word - 1

Policy == [enabled : BOOLEAN, resume : Words, soft : Words, hard : Words]

Works == {"Critical", "Important", "Optional"}

ASSUME PoliciesAssumption  == Policies \subseteq Policy
ASSUME EnvelopesAssumption == Envelopes \subseteq Words
ASSUME LoadsAssumption     == Loads \subseteq [Works -> Words]

VARIABLES
  policy,     \* the policy of the coming update
  envelope,   \* the envelope it was derived from, 0 if written by hand
  load,       \* what the work costs at present
  state       \* the consumer's BudgetState

vars == <<policy, envelope, load, state>>

-----------------------------------------------------------------------------
(* Policies                                                                *)

Disabled == [enabled |-> FALSE, resume |-> 0, soft |-> 0, hard |-> 0]

IsValid(p) == p.enabled => p.resume < p.soft /\ p.soft < p.hard

Wrapped(n) == n % Word

\* (fault) the product is formed before the division.
PercentageOfProduct(value, percent) == Wrapped(value * percent) \div 100

\* (fault) the remainder's share is not divided, in an integer wider than the result.
PercentageOfWide(value, percent) == (value \div 100) * percent + (value % 100) * percent

PercentageOf(value, percent) ==
  Wrapped(Wrapped((value \div 100) * percent)
            + Wrapped((value % 100) * percent) \div 100)

ResumePercent == 55
SoftPercent   == 70
HardPercent   == 95

BudgetPolicyFromEnvelope(e) ==
  IF e = 0 THEN Disabled
  ELSE [enabled |-> TRUE,
        resume  |-> PercentageOf(e, ResumePercent),
        soft    |-> PercentageOf(e, SoftPercent),
        hard    |-> PercentageOf(e, HardPercent)]

-----------------------------------------------------------------------------
(* The governor                                                            *)

AllowsWork(s, work) ==
  \/ work = "Critical"
  \/ s.policyValid /\ s.pressure = "Normal"
  \/ s.policyValid /\ s.pressure = "Soft" /\ work = "Important"

\* (fault) the resume threshold itself no longer counts as calm.
PressureStrict(previous, duration, p) ==
  IF ~p.enabled THEN "Normal"
  ELSE IF ~IsValid(p) \/ duration >= p.hard THEN "Hard"
  ELSE IF duration >= p.soft THEN "Soft"
  ELSE IF duration < p.resume THEN "Normal"
  ELSE previous

\* (fault) pressure is released as soon as it is below the soft threshold.
PressureWithoutBand(previous, duration, p) ==
  IF ~p.enabled THEN "Normal"
  ELSE IF ~IsValid(p) \/ duration >= p.hard THEN "Hard"
  ELSE IF duration >= p.soft THEN "Soft"
  ELSE "Normal"

\* (fault) a disabled policy leaves the pressure where it was.
PressureKept(previous, duration, p) ==
  IF ~p.enabled THEN previous
  ELSE IF ~IsValid(p) \/ duration >= p.hard THEN "Hard"
  ELSE IF duration >= p.soft THEN "Soft"
  ELSE IF duration <= p.resume THEN "Normal"
  ELSE previous

\* Between resume and soft the pressure stays what it was.
Pressure(previous, duration, p) ==
  IF ~p.enabled THEN "Normal"
  ELSE IF ~IsValid(p) \/ duration >= p.hard THEN "Hard"
  ELSE IF duration >= p.soft THEN "Soft"
  ELSE IF duration <= p.resume THEN "Normal"
  ELSE previous

UpdateBudgetState(previous, duration, p) ==
  [pressure         |-> Pressure(previous.pressure, duration, p),
   previousDuration |-> duration,
   policyValid      |-> IsValid(p)]

-----------------------------------------------------------------------------
(* The consumer's loop                                                     *)

Cost(work) == IF AllowsWork(state, work) THEN load[work] ELSE 0

\* How long a turn of the allowed work takes.
TurnDuration == Wrapped(Cost("Critical") + Cost("Important") + Cost("Optional"))

Init ==
  /\ policy = Disabled
  /\ envelope = 0
  /\ load \in Loads
  /\ state = [pressure |-> "Normal", previousDuration |-> 0, policyValid |-> TRUE]

CompleteTurn ==
  /\ state' = UpdateBudgetState(state, TurnDuration, policy)
  /\ UNCHANGED <<policy, envelope, load>>

DelegateEnvelope(e) ==
  /\ policy' = BudgetPolicyFromEnvelope(e)
  /\ envelope' = e
  /\ UNCHANGED <<load, state>>

WritePolicy(p) ==
  /\ policy' = p
  /\ envelope' = 0
  /\ UNCHANGED <<load, state>>

ChangeLoad(l) ==
  /\ load' = l
  /\ UNCHANGED <<policy, envelope, state>>

Next ==
  \/ CompleteTurn
  \/ \E e \in Envelopes : DelegateEnvelope(e)
  \/ \E p \in Policies : WritePolicy(p)
  \/ \E l \in Loads : ChangeLoad(l)

\* A consumer keeps completing turns; it need not ever change anything else.
Spec == Init /\ [][Next]_vars /\ WF_vars(CompleteTurn)

-----------------------------------------------------------------------------
(* Properties                                                              *)

\* The pressure is one of the three levels and every threshold a word.
TypeOK ==
  /\ policy \in Policy
  /\ envelope \in Words
  /\ load \in [Works -> Words]
  /\ state \in [pressure : {"Normal", "Soft", "Hard"}, previousDuration : Words,
                policyValid : BOOLEAN]

FullLoad == load["Critical"] + load["Important"] + load["Optional"]

\* The thresholds derived from an envelope are the percentages of it the
\* documentation names, rounded down, however close to the top of the integer
\* range it lies; from 5 ns on they are a valid hysteresis profile.
EnvelopeIsHonoured ==
  envelope > 0 =>
    /\ policy.resume = (envelope * 55) \div 100
    /\ policy.soft   = (envelope * 70) \div 100
    /\ policy.hard   = (envelope * 95) \div 100
    /\ envelope >= 5 => IsValid(policy)

\* Without delegated authority nothing is shed: the turn completed after a
\* consumer withdraws its policy leaves all of its work allowed, whatever
\* pressure had built up before.
NothingShedUndelegated ==
  [][state' # state /\ ~policy.enabled => \A w \in Works : AllowsWork(state', w)]_vars

\* The band between resume and soft keeps shedding from undoing itself: while
\* the whole work is too slow and Optional work costs less than the band is
\* wide, a turn without it does not bring it back.
BandPreventsOscillation ==
  [][ /\ policy.enabled /\ IsValid(policy)
      /\ state.policyValid /\ state.pressure = "Soft"
      /\ FullLoad >= policy.soft /\ FullLoad < Word
      /\ load["Optional"] < policy.soft - policy.resume
      => state'.pressure # "Normal" ]_vars

\* Work that fits comes back: once the policy is valid and stays put and the
\* whole work fits below the resume threshold, all of it is allowed for good.
Fits == IsValid(policy) /\ (policy.enabled => FullLoad <= policy.resume) /\ FullLoad < Word

FittingWorkIsRestored ==
  <>[]Fits => <>[](\A w \in Works : AllowsWork(state, w))
=============================================================================

# TLA+ models of SC2AIOptimize

SC2AIOptimize is a library for StarCraft II bots: compute kernels, a tuner that
decides from evidence which kernel variant to use, proof tooling that certifies
measurements, and thin adapters to six languages. It is single-threaded and
mostly allocation-free. What is hard about it is not concurrency but *state that
outlives a call*: buffers reused by the next search, buckets left behind by a
failed rebuild, decisions applied after the state they were made from has
changed, indices that count in another list than the caller's, half-written
lines in a file, and arithmetic at the edge of its range. The models are aimed
at these.

All paths below are relative to the repository.

## 1. Inventory

| component | state it keeps | operations | interacts with | hard behaviour | correct when |
|---|---|---|---|---|---|
| `Kernel/Hot/SpatialGrid` | cell size, buckets, touched list, counts, ready flag | SetCellSize, Rebuild, Query; brute-force query | consumer's buffers; SpatialStrategy reads its flags | failures keep old buckets; float corners; partial output | answers equal brute force over the last accepted buffer, or are refused |
| `Kernel/Hot/SpatialStrategy` | none (a profile) | choose brute force / grid | Tuner's crossovers, grid flags | stale flags | the choice never changes an answer |
| `Kernel/Hot/Filtering`, `CombatGeometry` | none | filter units, edge range | unit views; selection behind it | partial output, indices | equal to the predicate per unit |
| `Kernel/Hot/BatchGeometry`, `Geometry` | none (writes the caller's buffer) | distances, masks | every language edge | output over input, NaN | all or nothing |
| `Kernel/Compute/Pathing` | g, parent, closed, heap of a workspace | FindPath | grid views | reuse, stale heap nodes, overflow of sums | cheapest route or NoPath |
| `Kernel/Compute/Placement`, `TargetSelection` | none | site filter, best score | a choice runs one behind the other | edges, ties, masks of another length | the best of what is suitable |
| `Kernel/Compute/CombatEvaluation` | none | aggregate, exchange estimate | unit groups | zero and infinite times | no side is preferred |
| `Kernel/Compute/Influence` | none (writes a grid) | radial stamp, two variants | grid views | edges, two variants that must agree | bounded equals reference |
| `Tuner/Champion` | evidence per candidate, champion, mode | Add, Evaluate, Apply, resets | NetBenefit's ids, Persistence | late decisions, lost qualification, thrashing | only qualified improvements; baseline switch holds |
| `Tuner/NetBenefit`, `Calibration`, `Context` | bands in the caller's buffer | choose, build bands, look up | one another | partial bands, gaps between points | looked-up champion is the one measured |
| `Tuner/BudgetGovernor` | pressure, last duration, validity | derive policy, update, allow | the consumer's turn (feedback) | hysteresis, overflow, withdrawn policy | no oscillation, nothing shed for good or unasked |
| `Tuner/Telemetry` | histogram, counters | Observe, Summary, Reset | timers | saturation, percentile rank | upper bounds stay upper bounds |
| `Tuner/Persistence` | a text stream | write, read a record | Champion evidence | torn writes, line breaks, restarts | what is read is what was written |
| `Tuner/TunableRegistry` | none | validate, find | - | - | unique ids and names |
| `Proof/Manifest`, `Profiles`, `Regression` | none | validate, write, compare | benchmark records | two definitions of valid evidence, limits at zero | what is certified can be compared; the gate judges the tail |
| `Adapters/IntegrationContract`, `Adapters/C` | none | compatibility gate, status translation | every language edge | order of refusals, upgrades | an upgrade never shuts out a consumer |
| `Adapters/Cpp/DenseTypeMap` | the caller's map | build | registry | failure before clearing | no stale entry after success |
| other language adapters | none | argument checks, marshalling | C ABI | which of them report a count | as the C ABI |
| `SC2Registry`, model views, bench, examples | - | constants, measurement | - | - | see section 7 |

The components meet in a consumer's process: a handshake decides whether the
library is used at all, start-up builds the type table, and every turn the
consumer packs its units into buffers, rebuilds the grid, asks the strategy which
query to use, filters, selects, places, searches paths, measures all of it, feeds
the measurements to the champion evidence and the budget governor, and lets the
two decide what the next turn runs. Champions are stored and read back after a
restart; measured distributions are certified and compared between releases.

## 2. Modules

| module | models | state and actions |
|---|---|---|
| `RadiusSearch` | validation, the inside test, brute force and the output protocol of a radius query | operators only; float operations are integer operations followed by the parameter `Round` |
| `RadiusIndex` | what an index promises: the last accepted buffer or not ready, brute-force answers | `indexed`, `reply`; `Configure`, `Replace`, `Answer` |
| `SpatialGrid` | `SpatialGrid2D` | one variable per field; `SetInvalidCellSize`, `ChangeCellSize`, `KeepCellSize`, `RejectBuffer`, `AcceptBuffer`, `AskQuery` |
| `SpatialDispatch` | composes the grid with `SpatialStrategy` and the consumer's frames | adds `frame`, `choice`; `Frame`, `Resize`, `Ask`, `Choose`, `Execute` |
| `Champion` | `RunningStats`, `EvaluateChampion`, `ChampionState` | `stats`, `correct`, `champion`, `mode`, `decision`; one action per call, the evaluation as a function |
| `NetBenefit` | the stateless choice between a baseline and challengers | operators only |
| `TunerAgreement` | composes `Champion` with `NetBenefit` | the evidence of `Champion`, put before both deciders |
| `Calibration` | `BuildCrossoverCalibration` and the crossover lookup | `bands` (the caller's buffer), the result's fields, `points`; `Start`, one action per way a point ends, `Finish` |
| `Pathing` | `AStarWorkspace::FindPath` | the four buffers, the call's locals (`expanded`, `trail`, `phase`), `result`; one action per loop turn |
| `BudgetGovernor` | the governor and the consumer's loop around it | `policy`, `envelope`, `load`, `state`; `CompleteTurn` runs what `AllowsWork` allows |
| `Telemetry` | `FixedLatencyHistogram` and its timer | one variable per field, and `accepted`, the samples themselves; `StopTimer`, `Observe`, `Reset` |
| `ReleaseGate` | composes `Telemetry` with the benchmark's percentiles, the manifest and the regression gate | operators over `accepted` |
| `Influence` | both variants of the radial stamp | `grid` (the additions to each cell, in order), `request`, `result`; `Spec` runs the bounded variant, `Reference` the other one over the same variables |
| `IntegrationContract` | the compatibility gate | operators only |
| `DenseTypeMap` | `BuildDenseTypeMap` on a consumer's buffer | `output`, `report`, `built`; one action per way a build ends |
| `BatchGeometry` | the batch kernels behind the C ABI, Go, Node, Java and Python | `memory`, `bytes`, `call`; `Pack`, `Reject`, `Begin`, `Step` (one result), `Return` |
| `FrameKernels` | `Filtering`, `Placement`, `TargetSelection`, `CombatEvaluation`, `WithinEdgeRange` | `decision`; `Filter`, `Retry`, `Select`, `Estimate`, `Forget` |
| `ConsumerSession` | composes the four above into a consumer's process | adds `library`, `wants`, `stage`, `handshake`; `Restart`, `Handshake`, `BuildTable`, `Play`, `BatchCall`, `Decide` |
| `Persistence` | the champion store on a medium that outlives the process | `stream`, `at`, `record`, `phase`, and what was written and read; `WriteChampionRecord`, `TornWrite`, `Restart`, `ReadChampionRecord`, `Resume` |
| `OrderLemmas` | facts about orders the proofs share | - |
| `*_proofs` | theorems about the module of that name | - |
| `MC*` | the instances TLC checks | - |

How the models relate to the code:

- *Grid.* The hash map is a function from keys to sets of entries: an absent
  bucket and an emptied one are the same to every operation. The touched vector
  is a set because an entry is only pushed when its bucket is empty. Failing
  calls change the flags and nothing else, exactly as in the code, so leftovers
  of a failed call are part of the state. `Round` is the identity in the exact
  run and a three-bit float format in the float run.
- *Dispatch.* A choice is a value computed from the point count and the
  readiness of one moment; `Execute` runs it at any later one. `frame` is the
  buffer the consumer has, whether the grid accepted it or not.
- *Champion.* The evidence keeps count, sum and sum of squares; the code's
  comparisons of means and confidence bounds are the same comparisons cross
  multiplied on integers (`Faster`, `EnoughGain`, `Separated`), so no rounding
  is involved. A decision is a variable of its own: it may be applied late,
  twice, or after a reset, because the code makes it a value. Evidence is a
  public struct the caller fills; `Qualify` and `Overwrite` are its assignments.
- *Pathing.* A grid point is its row-major index and the heap a set, because the
  heap's order is total. Costs are integers; `Infinity` is +inf and every sum
  above `MaxCost`, the largest finite cost. Row stride and the shape check of a
  grid view are left out: `Search` holds the costs of the logical cells.
- *Calibration.* The loop takes one step per point and the point is chosen when
  the loop reaches it, which is the same as choosing the list first because the
  code reads it in order and never looks ahead. `points` is what the written
  bands stand for; the issue of a stopped call ends the loop. `have_previous` is
  `written # 0`. A mean is the fraction total/samples, so that evidence is what a
  caller makes of `RunningStats`.
- *Telemetry and release gate.* `accepted` forgets nothing and is only there to
  say what the figures are figures of; it is also the sample list of a benchmark
  whose exact percentiles become a `BenchmarkRecord`. A profile is the set of its
  fields that are not empty, relative limits are in percent. What a record is of,
  candidate and workload size, is one value.
- *Governor.* All integers are below `Word` and computed modulo `Word`. The
  governor measures nothing; how long a turn lasts follows from what it allowed,
  which closes the loop the hysteresis exists for.
- *Influence.* A view is a shape over one storage; a cell holds the sequence of
  additions because float addition depends on their order. Lengths are
  integers of `Unit` per cell, `Unit` standing for a power of two, so that squares
  round like lengths. The test of a cell rounds each result with `Round` and
  overflows from `Infinite` on; of `Round` the module assumes that it is monotone
  and leaves floats alone. The bounded variant's square is computed in double,
  which is exact for floats of this size. Stamps are floats, and so are the
  positions of the cells: grids have up to 2^24 cells a side. The two radius
  values and the falloff formula are a label and the distance they are taken at:
  both variants call the same `EvaluateCell`. Before the first call `request` is
  any request.
- *DenseTypeMap.* A record is known by its catalog name; `built`, the bindings of
  the last build that succeeded, is not in the code. A write outside the buffer
  would extend the domain of `output`, which `TypeOK` forbids.
- *Batch calls.* Coordinates and distances are one memory, so that an output may
  lie over its input, and the loop reads and writes it one point per step.
  `before` in `call`, the memory as the call found it, is not in the code. What a
  point holds when its turn comes (`Found`) is what the call found there or, where
  an output that begins two or more floats ahead inside the input has overwritten
  it, an earlier result. The
  anchor is the origin. Edges differ in which arguments they refuse, in what a
  refusal is called, and in whether a count is returned.
- *Frame kernels.* A filter is one step: it keeps no state of its own, and its
  output is observed only when it returns. Its indices stay in `decision`, with
  those written before it found the buffer too small; `Select` scores what the
  filter left and translates the index back. Unsigned differences are modulo
  `Word`. Only the inclusive boundary of `WithinEdgeRange` occurs. Times are
  fractions, so that comparing them is exact; the code's doubles may call two
  nearly equal times equal.
- *Session.* A library is its contract. `Restart` may find another one
  installed; a consumer is admitted only by `Ready`.
- *Persistence.* The stream is a sequence of tokens. `Open` and `Plain` are the
  halves of a quoted string that a tear or a line break separates; `Words` is
  what `>>` and `std::quoted` make of a line of them. A torn write is a stream
  that fails or a process that dies; both leave the first tokens. After a failed
  write only a restart leads on. A number that is cut short is a number.

Operators whose comment starts with "(fault)" are not part of the model: each
is the form a definition would have with a plausible mistake in it, and serves
to show that a property notices the mistake.

## 3. Runs

| run | instance | what it shows |
|---|---|---|
| `spatial_grid` | two cells each way, up to two points, an odd, an overlong, a non-finite and an out-of-range buffer, valid, invalid and unchanged cell sizes, queries of every boundary and order with buffers of 0 to 2, choices under two profiles run at any later time | grid invariant; answers equal brute force; a refused buffer size suffices when retried; the grid implements `RadiusIndex`; a late choice answers for the present frame or is refused |
| `spatial_grid_float` | three-bit floats, points around a cell boundary | **violated**: `InputOrderEquivalence` (section 6) |
| `champion` | baseline and two optimisations, up to two samples each, four spans (orders, a missing baseline, a duplicate), a confidence-and-margin, an absolute-margin and an invalid policy | decisions are qualified, improvements, stable; the baseline switch holds against late decisions; online and offline decide alike from the baseline; confidence only withholds |
| `champion_drift` | one optimisation, three samples | **violated**: `SlowerIsDisabled` (section 6) |
| `pathing` | 3 x 2 grids: every choice of cheap, dear and blocked for the inner cells, both heuristics, one-cell, invalid and detour searches, a buffer one short | workspace invariant; cheapest route; an answer is a route of that cost, returned whole or, when the buffer is short, by its length alone; every search returns |
| `calibration` | four sizes, eight kinds of evidence (each issue, either winner, an incorrect, an under-sampled and an invalid challenger), three policies, two bands, up to four points | lookups answer the next measured size's choice, on success, after any failure and in a used buffer; bands are canonical; answers paid off |
| `budget_governor` | a word of 2^14, envelopes 0, 1, 4, 5, 10, 199 and the largest word, valid, narrow, disabled and two invalid policies, 18 loads | thresholds exact; no oscillation in the band; nothing shed without a policy; work that fits is restored |
| `telemetry` | three bits, durations 0, 3 and 4 and a negative reading, up to 103 samples; three reference distributions, candidates of the same and of another identity, three policies, five sets of proof layers | the counters digest the samples; live and exact percentiles agree to the bucket; figures only saturate; what is certified can be compared; the gate judges the tail |
| `influence` | a 3 x 3 view with a padding column, two shapes that do not fit and an empty one; discs in half cells inside, across and beside the grid, strict, inclusive, flat and with a ring; in a three-bit float format a far disc whose distances round and one whose squares overflow; three refused stamps; up to two additions to a cell | the bounded variant does what the reference does, but may miss cells beyond the radius that float arithmetic puts on the rim of an inclusive disc; each counted cell is added to once, padding never; refusals write nothing |
| `session` | six libraries one release apart in each respect, three consumers; two slots, three ids, known, unknown and empty names, up to three bindings; 130 batch calls on eight floats through five edges, in place, overlapping and refused; targets and sites under every policy, mask and buffer size; groups of up to two units | types; the table is that of the last successful build; no upgrade shuts out a consumer; a batch call writes its results, each of what its point then held, and nothing else, or nothing; the best suitable candidate is chosen; the estimate has no side |
| `persistence` | three writes of two good records and two with a line break in a string, torn at six places, among five records that must be refused; restarts and full reads between them | acknowledged records are read back in order; one torn write makes no record unless the record behind it has a line break |
| `persistence_torn` | the same | **violated**: `MalformedIsRejected` (section 6) |

*Bounds.* Two points suffice for a leaked bucket, a duplicate, an order and a
buffer that is too small; the grid's behaviour depends on earlier buffers only
through occupied buckets, which two buffers already mix. Two samples per candidate
are the fewest with a standard error; three candidates the fewest with a choice of
challenger. A 3 x 2 grid is the smallest with two disjoint routes of different
length, a detour and a stale heap node (`SkipStale` fires). `RouteLength` 5 is
every simple route on six cells. Two bands overflow at the third crossover, which
four points can have, and a second calibration finds them used. The word 2^14 is
the smallest power of two for which the remainder's product fits, as it does in 64
bits. A histogram needs more than 100 samples for the quotient of the rank to be
1; three durations put samples into an inner, a boundary and the zero bucket. A
second addition to a cell is where order and accumulation first show; a padding
column of one tells a row from its stride. Three bindings put another between two
of the same id, or an unnamed one behind a named one, and two builds are the
fewest that could mix. Floats of three bits have a distance that rounds onto a
radius (18 to 16), and with 480 the least that overflows, a radius of 24 has an
infinite square. Eight floats hold three points in front of, over and behind every
offset of an output of two. Four candidates have one each that fails a filter, is
out of range, ties and scores NaN. Three writes are two torn ones and one more.
`MaxSamples`, `MaxCost`, `RouteLength`, `Word`, `MaxPoints`, `Capacity`, `Bits`,
`Slots`, `MaxAdditions`, `Infinite`, `MaxBindings`, `MemorySize` and `MaxWrites`
are the named bounds; all theorems hold for every value.

*Deadlock* is checked in every run: callers can always call again.

*Fairness.* `Pathing` assumes weak fairness of the search's own work: the code
is a loop in a synchronous call, so a turn that can be taken is taken.
`BudgetGovernor` assumes that the consumer keeps completing turns, and nothing
about whether it ever changes load or policy. The other modules have none and no
liveness property.

## 4. Theorems

`SpatialGrid_proofs`, `Champion_proofs` (the champion, and the store it is kept in),
`Calibration_proofs`, `Pathing_proofs`, `Influence_proofs`,
`RuntimeOptimization_proofs` (the governor, and telemetry with the release gate) and
`ConsumerSession_proofs` are checked by TLAPS for every
value of the constants, from the named `ASSUME`s only (sizes are naturals, inputs
have the types of the code's parameters, a record on file was made of samples).

Loops of the code are recursive functions. `OrderLemmas` gives, by least
counterexample, what the proofs need of them: `RecursionExists` (the function that
such a definition chooses exists and satisfies its equations) and `InductionUpTo`
over its index. A definition that sorts (`Arranged` in `RadiusSearch`) chooses an
ordered numbering of a finite set; `ArrangementExists` shows that there is one.

- *Grid.* `GridInv` is inductive (`GridInvariant`): without `NoLeakedBucket`
  clearing the touched buckets would not leave an empty map, and without
  `EntriesInTheirCell` a new entry could fall into an old bucket. From it follow
  `TypeCorrect`, `EachPointIndexedOnce` and `ExactGridEqualsBruteForce`: with
  exact arithmetic the scanned square contains the cell of every point in reach
  (floor division is monotone, and a point in reach is within the radius in each
  coordinate), so hits and brute-force hits are the same set. Exactness is the one
  hypothesis the float run shows to be needed. `RetryAlwaysFits`: a buffer of the
  size asked for takes every hit. `GridIsARadiusIndex` is the refinement, again
  for exact arithmetic: every step of the grid is one of `RadiusIndex`, which holds
  the last accepted buffer or refuses and answers as brute force does, or a
  stutter.
- *Dispatch.* `ChoicesAnswerTheFrame` adds that a ready grid indexes the present
  frame: a choice that is run late on a ready grid therefore answers what brute
  force answers now. `DispatchUsesTheGrid`: the strategy layer does nothing to the
  grid that a caller of the grid could not do.
- *Champion.* The properties quantify over every span and policy in every
  reachable state. `Fastest` is the lowest mean because comparing means by cross
  multiplication is a strict weak order when counts are positive
  (`QuotientOrder`), which `Eligible` guarantees. `NoThrashing` follows: after a
  change no qualified candidate is faster than the new champion, so the next
  evaluation finds no better challenger.
- *One authority.* `OneAuthority` shows that the online and the offline decider
  name the same champion from the baseline: both searches end at the first
  position of lowest mean (`FastestIsFirst`), on the same eligible positions,
  behind the same gates. `ConfidenceIsConservative` follows.
- *Calibration.* `IInv` adds to the canonical bands that every point lies in the
  band with its champion (`EveryPointHasItsBand`) and that bands end at points
  (`BandsEndAtPoints`): the first puts the band of the next measured size among
  those that reach a size, the second shows that no earlier band does, which is
  `LookupIsExact`. `AnswersWereEarned` needs besides that a finite set of
  eligible challengers has a cheapest one (`MinimalExists`).
- *Pathing.* `SearchInv` is inductive; its core is that cells are closed in order
  of f, which follows from the consistency of the heuristic on costs of at least 1
  (`HeuristicIsConsistent`) and from the total order of the heap. For
  `SearchIsOptimal`, g capped at the goal's own cost is a potential that no step
  of a route raises by more than the step costs, so every route costs at least the
  total returned; when the heap is empty, a route of finite cost would make the
  goal reached. `PathReturnedIsARoute`: parents of closed cells are closed before
  them, so the walk back ends at the start within the number of cells, and it is
  counted before it is asked whether the buffer takes it; the theorem therefore
  takes `RouteLength` to be at least that number less one.
- *Governor.* `PercentageOfIsExact`: splitting the value at 100 keeps every
  intermediate below the word and gives the exact quotient. The band theorem
  bounds the duration of a turn without Optional work from below.
- *Telemetry.* `HistogramInv` is inductive. A sample more adds one to every sum
  that reaches it (`SumOfMore`), and `BucketFor` of a duration is the least bucket
  whose end is not below it (`BucketOfDuration`), so buckets and samples keep
  adding up. `RanksAgree` shows the overflow-free rank of the code to be the
  nearest rank, `PercentileIs` that the exact percentile is where the samples
  reach it; `TelemetryAgreesWithBench` joins the three.
- *Release gate.* Percentiles grow with the percentage, so every record made of
  samples is evidence in both senses (`RecordIs`), which is
  `ManifestsPassEvidence`. In `TheGateJudgesTheTail` the candidate's percentile is
  the duration the tail keeps; for the converse the two distributions are
  compared by cross multiplication (`NoSlowerPercentile`).
- *Influence.* `BoundedRefinesReference` holds whatever rounds and overflows.
  Because rounding is monotone and fixes the radius (`FloatIsMonotone`,
  `FloatIsIdempotent`), a cell further than the radius along an axis has a squared
  distance no smaller than the squared radius (`FarAxis`): a strict disc leaves it
  out, and an inclusive one has it only where the two are equal (`BeyondIsRim`).
  All others are in the square, rounded outwards and clamped to the grid
  (`ReachCovers`). `StrictStampsAgree` and `ExactStampsAgree` are what remains of
  "semantics must remain equivalent" (`Influence.hpp:38`): with strict stamps, or
  with stamps whose squares neither round nor overflow, no cell is on that rim and
  the bounded variant implements the reference. `CellsAreWrittenOnce` rests on
  row-major indexing being injective when rows do not overlap
  (`IndexIsInjective`).
- *Session.* `TableInv` says that the buffer is the function `Bound` of the last
  accepted bindings, that these fit and bind no id twice; the counts of the
  report follow from a bijection between matching bindings and entries
  (`EntriesCount`), and that no write leaves the buffer from `RequiredCovers`.
  `LoopInv` says what a batch call has done so far: the first results are in place
  and nothing else has changed (`WritesOnly`), and each is the distance of what its
  point held at its turn (`IsResult`, `TurnReads`), because a turn reads its point
  before it writes and later turns write elsewhere. `InPlaceReadsTheInput` says
  where that is the coordinates the call was given: everywhere but for an output
  that begins two or more floats ahead inside the input, since two floats are read
  for each one written. `GateMonotone` compares the tests of the gate
  one by one for a library and its upgrade. `SessionTypeCorrect` joins the three.
- *Choices and estimates.* `TheBestIsChosen`: each kernel's loop keeps what the
  scan has found so far (`TakenKeeps`, `FilterWrites`, `BetterKeeps`), the count it
  reports does not depend on the buffer, so the one retry is enough
  (`RetryIsEnough`), and the best of the scores is the best of the suitable ones
  (`SelectChooses`). `MoreUnitsNeverHurt`: the aggregate of a group is a sum
  (`AggregateAppends`), the estimate compares two times to clear in which a side's
  strength enters monotonically (`StrongerPrevails`, `OutcomeFollowsStrength`), and
  swapping the sides swaps the outcome.

- *Persistence* (second half of `Champion_proofs`). `StoreIsRead` is the inductive
  invariant. `StreamInv`: the writes lie one behind the other and cover the medium,
  each whole or cut off within its first sixteen tokens, and the tears are where
  the cut ones end. `ReadInv`: behind the read position every acceptable line has
  been read, once and in order, the caller's record is the last of them, and
  everything ever read is known. "Known" is what `OneTearMakesNoRecord` says, so
  the second theorem is a projection, and the work is `AcceptedIsKnown`: a line
  begins where a write begins or behind a line break inside one
  (`PlaceOnMedium`); the latter begins with the rest of a string, which is no magic
  word (`InsideIsRefused`, `RestIsRefused`). A whole line reads back as its record
  (`RecordIsReadBack`), unless a string of it breaks it, which leaves a string open
  (`OpenEndIsRefused`). A torn write alone on its line has too few words or is its
  own record (`AloneMakesNoRecord`); with a whole line behind it there are too many
  words, or the string left open swallows the magic word and what remains does not
  parse (`WholeBehindTearIsRefused`, `SwallowingLineIsRefused`); with another torn
  write behind it there are two tears (`TwoTears`, `TornBehindTear`). The lexer's
  state is followed token by token (`LexStep`, `LexWhole`, `LexBetween`,
  `LexInside`). The proof of
  `OneTearIsNoRecord` is where the third disjunct of the property comes from: a
  fragment torn inside a string, followed by a record that a line break cuts, can
  have sixteen words, of which `std::quoted` takes the last six as they are
  (section 6).

Only model-checked: the liveness properties `SearchReturns` and
`FittingWorkIsRestored`, which are beyond the prover, as is ENABLED.

## 5. Limits of the abstraction

Floats are integers with or without rounding; NaN and infinities are single
values; rounding in batch distances, overflow of a double in `RunningStats` and of
a float product in the radius test is left out, and so is `Pathing` where costs
add up to more than 2^24 and a float sum no longer counts every step: one cell of
that cost is enough, but sums in the module are exact. Allocation failure is not
modelled. Outside `BatchGeometry` outputs are disjoint from inputs, as the
signatures assume. A write that is torn inside the digits of a number is taken for
one that ends behind a shorter number.

## 6. Where code and documentation disagree

- `docs/PROOF_AND_OUTPUTS.md:9` claims exact equivalence of the grid with brute
  force. The inside test (`Kernel/Hot/SpatialGrid.cpp:222`, and `:78` in brute
  force) rounds the difference of point and centre, so a point slightly out of
  reach counts as inside; its column can lie beyond the corner of the square that
  the grid scans. With cell size 1, centre (-2^-24, 0), radius 1 and the point
  (1, 0) the difference 1 + 2^-24 rounds to 1, while the corner 1 - 2^-24 is exact
  and in cell 0: the grid finds nothing and brute force finds the point. Corners
  computed in double would be the same. The run finds the case in a three-bit
  format (9 rounds to 8, the corner is 7); the theorem shows that rounding is the
  only cause.
- `docs/ARCHITECTURE.md:45` says that a slower optimisation is disabled.
  `Tuner/Champion.cpp:181` applies the margin and confidence gates also to the
  way back to the baseline, so an optimisation that has drifted above the
  baseline by less than the margin stays champion.
- `docs/TUNER.md:54` says that malformed data is rejected.
  `Tuner/Persistence.cpp:90` reads provenance with `std::quoted`, which takes a
  word without quotes as it is: a write torn behind its last number, followed on
  the same line by one torn behind its flags, is read as a record whose
  provenance is the magic word and five numbers. One torn write does this
  only if the record written behind it has a line break in a string: then its first
  quote closes the string that was torn, and the rest of the line is never reached.

Looked at and not counted: the two variants of the radial stamp, which "share one
exact contract" (`docs/COMPUTE.md:11`), differ for inclusive stamps where a
distance beyond the radius rounds or overflows onto it (with centre x at -1e9 and
radius 1e9 the reference touches columns 0 to 32, the bounded variant column 0;
from radius 2e19 on every square is infinite), which no map has: the property of
run `influence` states the difference and the run has such stamps; an output of a
batch call that begins two or more floats ahead inside its own input turns earlier
results into coordinates, of which the documentation says nothing; a map with a
cell of cost 2^24 has steps that a float sum does not count; the
governor has no band between Soft and Hard, so Important work can alternate;
envelopes of 1 to 4 ns give an invalid policy that fails closed; a decision made
before `ResetToBaseline` and applied after it reinstates the old champion in
Adaptive mode; a provenance field with a line break is written, acknowledged and
refused by the reader.

## 7. Not modelled

- `SelectContextChampion`, `CheckControlOverhead` and `TunableRegistry` are pure
  functions with one loop and no failure path: a model would repeat them.
- `WithinFacingCone` is float arithmetic with a square root.
- The JSON writer of the manifest and every text that is only printed: layout.
- The foreign side of the language adapters (strings, versions, exceptions,
  ownership); the Rust and .NET files are declarations.
- `SC2Registry` is a generated constant table, the model views are data layouts.
- The measurement loops of the benchmark, the example and the build files are not
  part of the library.

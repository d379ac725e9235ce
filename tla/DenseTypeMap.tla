---------------------------- MODULE DenseTypeMap ----------------------------
(***************************************************************************)
(* The table a consumer keeps from its own unit type ids to the records of *)
(* the pinned registry, built by BuildDenseTypeMap                         *)
(* (Adapters/Cpp/DenseTypeMap.cpp) into a buffer of the consumer.  A build *)
(* that fails returns before it touches the buffer, so the consumer then   *)
(* still holds the table of an earlier build, perhaps of other bindings.   *)
(***************************************************************************)
EXTENDS Integers, Sequences, FiniteSets, FiniteSetsExt

CONSTANTS
  TypeIds,     \* consumer type ids
  Catalog,     \* the names the registry has a record for
  Names,       \* the names consumers bind
  NoName,      \* the empty name
  NullRecord,  \* nullptr: no record, the type is not accelerated
  Slots,       \* size of the consumer's buffer
  MaxBindings  \* bound of the model on the length of a list of bindings

ASSUME TypeIdsAssumption == TypeIds \subseteq Nat
ASSUME CatalogAssumption == NoName \notin Catalog /\ NullRecord \notin Catalog
ASSUME SlotsAssumption == Slots \in Nat
ASSUME MaxBindingsAssumption == MaxBindings \in Nat

VARIABLES
  output,   \* the buffer; a record is known by its catalog name
  report,   \* the report of the last build
  built     \* the bindings of the last build that succeeded

vars == <<output, report, built>>

Bindings ==
  UNION {[1..n -> [id : TypeIds, name : Names]] : n \in 0..MaxBindings}

Statuses == {"Ok", "OutputTooSmall", "DuplicateConsumerTypeId", "EmptyCatalogName"}

Report(status, required, mapped, unmatched) ==
  [status |-> status, required |-> required, mapped |-> mapped, unmatched |-> unmatched]

Init ==
  /\ output = [t \in 0..Slots - 1 |-> NullRecord]
  /\ report = Report("Ok", 0, 0, 0)
  /\ built = <<>>

-----------------------------------------------------------------------------
(* BuildDenseTypeMap                                                       *)

\* (fault) the size asked for is the largest id.
LargestIdBefore(bindings, n) == Max({0} \union {bindings[i].id : i \in 1..n - 1})

\* The slots the bindings before position n ask for.
RequiredBefore(bindings, n) == Max({0} \union {bindings[i].id + 1 : i \in 1..n - 1})

Unnamed(bindings) == {i \in DOMAIN bindings : bindings[i].name = NoName}

DuplicateIds(bindings) ==
  \E i, j \in DOMAIN bindings : i < j /\ bindings[i].id = bindings[j].id

\* The first unnamed binding ends the validation, with the size so far.
RejectUnnamed(bindings) ==
  /\ Unnamed(bindings) # {}
  /\ report' = Report("EmptyCatalogName", RequiredBefore(bindings, Min(Unnamed(bindings))), 0, 0)
  /\ UNCHANGED <<output, built>>

\* The size is checked before duplicates are looked for.
RejectSize(bindings) ==
  LET required == RequiredBefore(bindings, Len(bindings) + 1)
  IN  /\ Unnamed(bindings) = {}
      /\ Slots < required
      /\ report' = Report("OutputTooSmall", required, 0, 0)
      /\ UNCHANGED <<output, built>>

RejectDuplicate(bindings) ==
  LET required == RequiredBefore(bindings, Len(bindings) + 1)
  IN  /\ Unnamed(bindings) = {}
      /\ Slots >= required
      /\ DuplicateIds(bindings)
      /\ report' = Report("DuplicateConsumerTypeId", required, 0, 0)
      /\ UNCHANGED <<output, built>>

Matched(bindings) == {i \in DOMAIN bindings : bindings[i].name \in Catalog}

\* What the bindings say of a type id: the last one that matches wins.
Bound(bindings, t) ==
  LET matches == {i \in Matched(bindings) : bindings[i].id = t}
  IN  IF matches = {} THEN NullRecord ELSE bindings[Max(matches)].name

\* The slots written, all inside the buffer if the validation is right.
Written(bindings) == {bindings[i].id : i \in Matched(bindings)}

\* (fault) the buffer is not cleared.
AcceptOnTop(bindings) ==
  LET required == RequiredBefore(bindings, Len(bindings) + 1)
  IN  /\ Unnamed(bindings) = {}
      /\ Slots >= required
      /\ ~DuplicateIds(bindings)
      /\ output' = [t \in 0..Slots - 1 |->
                      IF Bound(bindings, t) = NullRecord THEN output[t] ELSE Bound(bindings, t)]
      /\ report' = Report("Ok", required, Cardinality(Matched(bindings)),
                          Len(bindings) - Cardinality(Matched(bindings)))
      /\ built' = bindings

\* The whole buffer is cleared, then every name the registry knows is entered.
Accept(bindings) ==
  LET required == RequiredBefore(bindings, Len(bindings) + 1)
  IN  /\ Unnamed(bindings) = {}
      /\ Slots >= required
      /\ ~DuplicateIds(bindings)
      /\ output' = [t \in 0..Slots - 1 \union Written(bindings) |-> Bound(bindings, t)]
      /\ report' = Report("Ok", required, Cardinality(Matched(bindings)),
                          Len(bindings) - Cardinality(Matched(bindings)))
      /\ built' = bindings

Next ==
  \E bindings \in Bindings : \/ RejectUnnamed(bindings)
                             \/ RejectSize(bindings)
                             \/ RejectDuplicate(bindings)
                             \/ Accept(bindings)

Spec == Init /\ [][Next]_vars

-----------------------------------------------------------------------------
(* Properties                                                              *)

\* In particular no build writes outside the buffer.
TypeOK ==
  /\ output \in [0..Slots - 1 -> Catalog \union {NullRecord}]
  /\ report \in [status : Statuses, required : Nat, mapped : Nat, unmatched : Nat]
  /\ built \in Bindings

\* docs/ADAPTERS.md: "Unknown names remain unaccelerated/null rather than
\* becoming contradictions; duplicate consumer IDs fail closed."  Whatever
\* builds failed in between, the buffer is exactly the table of the last one
\* that succeeded: every known name at its id, null everywhere else, nothing of
\* an older table and nothing of a refused one; and the counts of a successful
\* report are those of the table, since no id is bound twice.
TableIsLastBuild ==
  /\ \A t \in DOMAIN output, name \in Catalog :
       output[t] = name <=> \E i \in DOMAIN built : built[i] = [id |-> t, name |-> name]
  /\ report.status = "Ok" =>
       /\ report.mapped = Cardinality({t \in DOMAIN output : output[t] # NullRecord})
       /\ report.mapped + report.unmatched = Len(built)
       /\ \A t \in DOMAIN output : output[t] # NullRecord => t < report.required
=============================================================================

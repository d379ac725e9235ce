----------------------- MODULE ConsumerSession_proofs -----------------------
(***************************************************************************)
(* Proofs about a consumer's session: the compatibility gate for all       *)
(* contracts, the batch calls for all requests, sizes and overlaps, and    *)
(* the decisions of a frame for all candidates and groups.                 *)
(***************************************************************************)
EXTENDS ConsumerSession, OrderLemmas, FiniteSetTheorems, TLAPS

-----------------------------------------------------------------------------
(* The gate                                                                *)

HandshakeIsCurrent ==
  handshake # Unasked => handshake = CheckIntegrationCompatibility(wants, library)

SessionParts == library \in Libraries /\ wants \in Requirements /\ HandshakeIsCurrent

LEMMA ReportShape ==
  ASSUME NEW w, NEW l
  PROVE  LET r == CheckIntegrationCompatibility(w, l)
         IN  /\ r.status = "MissingCapability" <=> r.missing # {}
             /\ r.status = "Ready" =>
                  /\ CheckVersions(w, l) = "Compatible" /\ CheckIdentity(w, l) = "Compatible"
                  /\ w.capabilities \subseteq l.capabilities
             /\ r.missing # {} =>
                  /\ CheckVersions(w, l) = "Compatible" /\ CheckIdentity(w, l) = "Compatible"
                  /\ r.missing = w.capabilities \ l.capabilities
<1> DEFINE v == CheckVersions(w, l)
           d == CheckIdentity(w, l)
<1>1. v \in {"ApiMajorMismatch", "ApiMinorTooOld", "Compatible"}
  BY DEF CheckVersions
<1>2. d \in {"UnitViewAbiMismatch", "RegistryBuildMismatch",
             "RegistryDataVersionMismatch", "Compatible"}
  BY DEF CheckIdentity
<1> HIDE DEF v, d
<1>3. CASE v # "Compatible"
  BY <1>1, <1>3 DEF CheckIntegrationCompatibility, v
<1>4. CASE v = "Compatible" /\ d # "Compatible"
  BY <1>2, <1>4 DEF CheckIntegrationCompatibility, v, d
<1>5. CASE v = "Compatible" /\ d = "Compatible"
  BY <1>5 DEF CheckIntegrationCompatibility, v, d
<1>6. QED
  BY <1>3, <1>4, <1>5

LEMMA GateMonotone ==
  ASSUME NEW w \in Requirements, NEW l \in Libraries, NEW new \in Libraries,
         CompatibleUpgrade(l, new)
  PROVE  LET r == CheckIntegrationCompatibility(w, l)
             s == CheckIntegrationCompatibility(w, new)
         IN  /\ Position(s.status) >= Position(r.status)
             /\ r.status = "MissingCapability" => s.missing \subseteq r.missing
<1>1. /\ w.minor \in Nat /\ l.minor \in Nat /\ new.minor \in Nat
      /\ new.major = l.major /\ new.minor >= l.minor /\ new.abi = l.abi
      /\ new.build = l.build /\ new.data = l.data
      /\ l.capabilities \subseteq new.capabilities
  BY LibrariesAssumption, RequirementsAssumption DEF CompatibleUpgrade
<1>2. CheckIdentity(w, new) = CheckIdentity(w, l)
  BY <1>1 DEF CheckIdentity
<1> DEFINE v == CheckVersions(w, l)
           u == CheckVersions(w, new)
           d == CheckIdentity(w, l)
<1>3. \/ v = "ApiMajorMismatch" /\ u = "ApiMajorMismatch"
      \/ v = "ApiMinorTooOld" /\ u \in {"ApiMinorTooOld", "Compatible"}
      \/ v = "Compatible" /\ u = "Compatible"
  BY <1>1 DEF CheckVersions
<1>4. d \in {"UnitViewAbiMismatch", "RegistryBuildMismatch",
             "RegistryDataVersionMismatch", "Compatible"}
  BY DEF CheckIdentity
<1> HIDE DEF v, u, d
<1>5. CASE v = "ApiMajorMismatch"
  BY <1>3, <1>5 DEF CheckIntegrationCompatibility, Position, v, u
<1>6. CASE v = "ApiMinorTooOld" /\ u = "ApiMinorTooOld"
  BY <1>6 DEF CheckIntegrationCompatibility, Position, v, u
<1>7. CASE v = "ApiMinorTooOld" /\ u = "Compatible"
  BY <1>2, <1>4, <1>7 DEF CheckIntegrationCompatibility, Position, v, u, d
<1>8. CASE v = "Compatible" /\ d # "Compatible"
  <2>1. /\ CheckIntegrationCompatibility(w, l) = [status |-> d, missing |-> {}]
        /\ CheckIntegrationCompatibility(w, new) = [status |-> d, missing |-> {}]
    BY <1>2, <1>3, <1>8 DEF CheckIntegrationCompatibility, v, u, d
  <2>2. QED
    BY <1>4, <2>1 DEF Position
<1>9. CASE v = "Compatible" /\ d = "Compatible"
  <2>1. /\ CheckIntegrationCompatibility(w, l) =
             [status  |-> IF w.capabilities \ l.capabilities = {} THEN "Ready" ELSE "MissingCapability",
              missing |-> w.capabilities \ l.capabilities]
        /\ CheckIntegrationCompatibility(w, new) =
             [status  |-> IF w.capabilities \ new.capabilities = {} THEN "Ready" ELSE "MissingCapability",
              missing |-> w.capabilities \ new.capabilities]
    BY <1>2, <1>3, <1>9 DEF CheckIntegrationCompatibility, v, u, d
  <2>2. w.capabilities \ new.capabilities \subseteq w.capabilities \ l.capabilities
    BY <1>1
  <2>3. QED
    BY <2>1, <2>2 DEF Position
<1>10. QED
  BY <1>3, <1>5, <1>6, <1>7, <1>8, <1>9

\* The capabilities a report misses are all that the consumer lacks.
LEMMA MissingIsComplete ==
  ASSUME NEW w \in Requirements, NEW l \in Libraries,
         CheckIntegrationCompatibility(w, l).missing # {}
  PROVE  CheckIntegrationCompatibility(w,
           [l EXCEPT !.capabilities = @ \union CheckIntegrationCompatibility(w, l).missing]).status
             = "Ready"
<1> DEFINE m == CheckIntegrationCompatibility(w, l).missing
           more == [l EXCEPT !.capabilities = @ \union m]
<1>1. /\ CheckVersions(w, l) = "Compatible" /\ CheckIdentity(w, l) = "Compatible"
      /\ m = w.capabilities \ l.capabilities
  BY ReportShape
<1> HIDE DEF m
<1>2. l \in [major : Nat, minor : Nat, abi : Nat, build : STRING, data : STRING,
             capabilities : SUBSET STRING]
  BY LibrariesAssumption
<1>3. /\ more.major = l.major /\ more.minor = l.minor /\ more.abi = l.abi
      /\ more.build = l.build /\ more.data = l.data
      /\ more.capabilities = l.capabilities \union m
  BY <1>2
<1> HIDE DEF more
<1>4. CheckVersions(w, more) = "Compatible" /\ CheckIdentity(w, more) = "Compatible"
  BY <1>1, <1>3 DEF CheckVersions, CheckIdentity
<1>5. w.capabilities \ more.capabilities = {}
  BY <1>1, <1>3
<1>6. CheckIntegrationCompatibility(w, more).status = "Ready"
  BY <1>4, <1>5 DEF CheckIntegrationCompatibility
<1>7. QED
  BY <1>6 DEF more, m

LEMMA PartsKept == SessionParts /\ [SessionNext]_sessionVars => SessionParts'
<1> SUFFICES ASSUME SessionParts, [SessionNext]_sessionVars PROVE SessionParts'
  OBVIOUS
<1> USE DEF SessionParts, HandshakeIsCurrent
<1>1. CASE Restart
  BY <1>1 DEF Restart
<1>2. CASE Handshake
  BY <1>2 DEF Handshake
<1>3. CASE BuildTable \/ Play \/ BatchCall \/ Decide
  BY <1>3 DEF BuildTable, Play, BatchCall, Decide
<1>4. CASE UNCHANGED sessionVars
  BY <1>4 DEF sessionVars
<1>5. QED
  BY <1>1, <1>2, <1>3, <1>4 DEF SessionNext

\* For every set of libraries and requirements: no compatible upgrade gets
\* less far in the gate than the library that was asked, and the capabilities
\* reported missing are all that is missing.
THEOREM UpgradesKeepAdmission == SessionSpec => []GateIsMonotone
<1>1. SessionInit => SessionParts
  BY DEF SessionInit, SessionParts, HandshakeIsCurrent
<1>2. SessionParts => GateIsMonotone
  <2> SUFFICES ASSUME SessionParts, handshake # Unasked PROVE GateIsMonotone
    BY DEF GateIsMonotone
  <2>1. /\ handshake = CheckIntegrationCompatibility(wants, library)
        /\ wants \in Requirements /\ library \in Libraries
    BY DEF SessionParts, HandshakeIsCurrent
  <2>2. QED
    BY <2>1, ReportShape, GateMonotone, MissingIsComplete DEF GateIsMonotone
<1>3. QED
  BY <1>1, <1>2, PartsKept, PTL DEF SessionSpec

-----------------------------------------------------------------------------
(* The type table                                                          *)

LEMMA MaxOfNaturals ==
  ASSUME NEW T, T \subseteq Nat, T # {}, IsFiniteSet(T)
  PROVE  Max(T) \in T /\ \A y \in T : y <= Max(T)
<1> DEFINE R == {p \in T \X T : p[1] > p[2]}
<1>1. \A i, j \in T : <<i, j>> \in R <=> i > j
  OBVIOUS
<1> HIDE DEF R
<1>2. \E i \in T : \A j \in T : <<j, i>> \notin R
  <2>1. \A i, j \in T : <<i, j>> \in R => <<j, i>> \notin R
    BY <1>1
  <2>2. \A i, j, k \in T : <<i, j>> \in R /\ <<j, k>> \in R => <<i, k>> \in R
    BY <1>1
  <2>3. QED
    BY <2>1, <2>2, MinimalExists
<1>3. \E i \in T : \A j \in T : i >= j
  <2>1. PICK i \in T : \A j \in T : <<j, i>> \notin R
    BY <1>2
  <2>2. ASSUME NEW j \in T PROVE i >= j
    <3>1. i \in Nat /\ j \in Nat /\ ~(j > i)
      BY <1>1, <2>1
    <3>2. QED
      BY <3>1
  <2>3. QED
    BY <2>2
<1>4. QED
  BY <1>3 DEF Max

LEMMA BindingsShape ==
  ASSUME NEW b \in Bindings
  PROVE  /\ DOMAIN b = 1..Len(b) /\ Len(b) \in Nat
         /\ \A i \in DOMAIN b : b[i] = [id |-> b[i].id, name |-> b[i].name] /\ b[i].id \in Nat
<1>1. PICK n \in 0..MaxBindings : b \in [1..n -> [id : TypeIds, name : Names]]
  BY DEF Bindings
<1>2. n \in Nat
  BY <1>1, MaxBindingsAssumption
<1>3. DOMAIN b = 1..n /\ \A i \in 1..n : b[i] \in [id : TypeIds, name : Names]
  BY <1>1
<1> DEFINE Entries == [id : TypeIds, name : Names]
<1>4. Len(b) = n
  <2>1. b \in [1..n -> Entries]
    BY <1>1
  <2> HIDE DEF Entries
  <2>2. b \in Seq(Entries)
    BY <2>1, <1>2
  <2>3. QED
    BY <2>1, <2>2, <1>2
<1>5. ASSUME NEW i \in 1..n PROVE b[i] = [id |-> b[i].id, name |-> b[i].name] /\ b[i].id \in Nat
  <2>1. PICK entry \in [id : TypeIds, name : Names] : b[i] = entry
    BY <1>3
  <2>2. entry = [id |-> entry.id, name |-> entry.name] /\ entry.id \in TypeIds
    OBVIOUS
  <2>3. QED
    BY <2>1, <2>2, TypeIdsAssumption
<1>6. QED
  BY <1>2, <1>3, <1>4, <1>5

\* The size asked for before a position covers every id up to there.
LEMMA RequiredSoFar ==
  ASSUME NEW b \in Bindings, NEW m \in 1 .. Len(b) + 1
  PROVE  /\ RequiredBefore(b, m) \in Nat
         /\ \A i \in 1 .. m - 1 : b[i].id + 1 <= RequiredBefore(b, m)
<1> DEFINE n == m - 1
           ids == {b[i].id + 1 : i \in 1..n}
           f == [i \in 1..n |-> b[i].id + 1]
<1>1. /\ n \in Nat /\ \A i \in 1..n : b[i].id \in Nat
  <2>1. /\ DOMAIN b = 1..Len(b) /\ Len(b) \in Nat /\ \A i \in DOMAIN b : b[i].id \in Nat
    BY BindingsShape
  <2>2. n \in Nat /\ n <= Len(b)
    BY <2>1
  <2>3. QED
    BY <2>1, <2>2
<1>2. IsFiniteSet(ids)
  <2>1. IsFiniteSet(1..n)
    BY <1>1, FS_Interval
  <2>2. f \in Surjection(1..n, ids)
    BY DEF Surjection
  <2>3. QED
    BY <2>1, <2>2, FS_Surjection
<1>3. IsFiniteSet({0} \union ids)
  BY <1>2, FS_Singleton, FS_Union
<1>4. {0} \union ids \subseteq Nat /\ {0} \union ids # {}
  BY <1>1
<1> DEFINE sizes == {0} \union ids
<1>5. /\ Max(sizes) \in Nat
      /\ \A y \in sizes : y <= Max(sizes)
  <2>1. IsFiniteSet(sizes) /\ sizes \subseteq Nat /\ sizes # {}
    BY <1>3, <1>4
  <2> HIDE DEF sizes
  <2>2. QED
    BY <2>1, MaxOfNaturals
<1>6. RequiredBefore(b, m) = Max({0} \union ids)
  BY DEF RequiredBefore
<1>7. QED
  BY <1>1, <1>5, <1>6

\* The whole size covers every id that is bound.
LEMMA RequiredCovers ==
  ASSUME NEW b \in Bindings
  PROVE  /\ RequiredBefore(b, Len(b) + 1) \in Nat
         /\ \A i \in DOMAIN b : b[i].id + 1 <= RequiredBefore(b, Len(b) + 1)
<1>1. Len(b) \in Nat /\ DOMAIN b = 1..Len(b)
  BY BindingsShape
<1>2. Len(b) + 1 \in 1 .. Len(b) + 1 /\ (Len(b) + 1) - 1 = Len(b)
  BY <1>1
<1>3. QED
  BY <1>1, <1>2, RequiredSoFar

\* No id twice: what is bound to an id is the name of its only binding.
LEMMA BoundIsTheBinding ==
  ASSUME NEW b \in Bindings, ~DuplicateIds(b)
  PROVE  /\ \A i \in Matched(b) : Bound(b, b[i].id) = b[i].name
         /\ \A t : (\A i \in Matched(b) : b[i].id # t) => Bound(b, t) = NullRecord
<1> DEFINE matches(t) == {i \in Matched(b) : b[i].id = t}
<1>1. ASSUME NEW i \in Matched(b) PROVE Bound(b, b[i].id) = b[i].name
  <2>1. Matched(b) \subseteq DOMAIN b /\ DOMAIN b \subseteq Nat
    BY BindingsShape DEF Matched
  <2>2. matches(b[i].id) = {i}
    BY <2>1 DEF DuplicateIds
  <2>3. Max({i}) = i
    BY <2>1 DEF Max
  <2>4. QED
    BY <2>2, <2>3 DEF Bound
<1>2. ASSUME NEW t, \A i \in Matched(b) : b[i].id # t PROVE Bound(b, t) = NullRecord
  <2>1. matches(t) = {}
    BY <1>2
  <2>2. QED
    BY <2>1 DEF Bound
<1>3. QED
  BY <1>1, <1>2

\* The buffer is the table of the last build, which fits it and binds no id
\* twice; the report, when it is Ok, is the report of that build.
TableInv ==
  /\ built \in Bindings /\ ~DuplicateIds(built)
  /\ RequiredBefore(built, Len(built) + 1) <= Slots
  /\ output = [t \in 0..Slots - 1 |-> Bound(built, t)]
  /\ report.status = "Ok" =>
       /\ report.required = RequiredBefore(built, Len(built) + 1)
       /\ report.mapped = Cardinality(Matched(built))
       /\ report.unmatched = Len(built) - Cardinality(Matched(built))

LEMMA EmptyTable ==
  /\ <<>> \in Bindings /\ ~DuplicateIds(<<>>)
  /\ RequiredBefore(<<>>, Len(<<>>) + 1) = 0
  /\ Matched(<<>>) = {} /\ Cardinality(Matched(<<>>)) = 0
  /\ \A t : Bound(<<>>, t) = NullRecord
<1>1. <<>> \in [1..0 -> [id : TypeIds, name : Names]]
  OBVIOUS
<1>2. <<>> \in Bindings
  BY <1>1, MaxBindingsAssumption DEF Bindings
<1>3. Matched(<<>>) = {} /\ ~DuplicateIds(<<>>)
  BY DEF Matched, DuplicateIds
<1>4. Max({0}) = 0
  BY DEF Max
<1>5. RequiredBefore(<<>>, Len(<<>>) + 1) = 0
  <2>1. {<<>>[i].id + 1 : i \in 1..(Len(<<>>) + 1) - 1} = {}
    OBVIOUS
  <2>2. QED
    BY <1>4, <2>1 DEF RequiredBefore
<1>6. QED
  BY <1>2, <1>3, <1>5, FS_EmptySet DEF Bound

LEMMA EmptyTableInv ==
  ASSUME Init PROVE TableInv
<1>1. Report("Ok", 0, 0, 0).status = "Ok"
  BY DEF Report
<1>2. QED
  BY EmptyTable, SlotsAssumption DEF Init, TableInv, Report

LEMMA AcceptKeepsTable ==
  ASSUME NEW b \in Bindings, Accept(b) PROVE TableInv'
<1>1. /\ Slots >= RequiredBefore(b, Len(b) + 1) /\ ~DuplicateIds(b)
      /\ output' = [t \in 0..Slots - 1 \union Written(b) |-> Bound(b, t)]
      /\ report' = Report("Ok", RequiredBefore(b, Len(b) + 1), Cardinality(Matched(b)),
                          Len(b) - Cardinality(Matched(b)))
      /\ built' = b
  BY DEF Accept
<1>2. RequiredBefore(b, Len(b) + 1) <= Slots /\ RequiredBefore(b, Len(b) + 1) \in Int
  <2>1. RequiredBefore(b, Len(b) + 1) \in Nat
    BY RequiredCovers
  <2>2. QED
    BY <1>1, <2>1, SlotsAssumption
<1>3. Written(b) \subseteq 0..Slots - 1
  <2> SUFFICES ASSUME NEW i \in Matched(b) PROVE b[i].id \in 0..Slots - 1
    BY DEF Written
  <2>1. i \in DOMAIN b /\ b[i].id \in Nat
    BY BindingsShape DEF Matched
  <2>2. b[i].id + 1 <= RequiredBefore(b, Len(b) + 1)
    BY <2>1, RequiredCovers
  <2>3. QED
    BY <1>2, <2>1, <2>2, SlotsAssumption
<1>4. 0..Slots - 1 \union Written(b) = 0..Slots - 1
  BY <1>3
<1>5. output' = [t \in 0..Slots - 1 |-> Bound(b, t)]
  BY <1>1, <1>4
<1>6. QED
  BY <1>1, <1>2, <1>5 DEF TableInv, Report

LEMMA TableKept == TableInv /\ [SessionNext]_sessionVars => TableInv'
<1> SUFFICES ASSUME TableInv, [SessionNext]_sessionVars PROVE TableInv'
  OBVIOUS
<1>1. CASE Restart
  <2>1. /\ output' = [t \in 0..Slots - 1 |-> NullRecord] /\ built' = <<>>
        /\ report' = Report("Ok", 0, 0, 0)
    BY <1>1 DEF Restart
  <2>2. QED
    BY <2>1, EmptyTable, SlotsAssumption DEF TableInv, Report
<1>2. CASE BuildTable
  <2>1. PICK b \in Bindings : RejectUnnamed(b) \/ RejectSize(b) \/ RejectDuplicate(b) \/ Accept(b)
    BY <1>2 DEF BuildTable, Next
  <2>2. CASE RejectUnnamed(b) \/ RejectSize(b) \/ RejectDuplicate(b)
    <3>1. UNCHANGED <<output, built>> /\ report'.status # "Ok"
      BY <2>2 DEF RejectUnnamed, RejectSize, RejectDuplicate, Report
    <3>2. QED
      BY <3>1 DEF TableInv
  <2>3. QED
    BY <2>1, <2>2, AcceptKeepsTable
<1>3. CASE Handshake \/ Play \/ BatchCall \/ Decide \/ UNCHANGED sessionVars
  <2>1. UNCHANGED <<output, report, built>>
    BY <1>3 DEF Handshake, Play, BatchCall, Decide, sessionVars
  <2>2. QED
    BY <2>1 DEF TableInv
<1>4. QED
  BY <1>1, <1>2, <1>3 DEF SessionNext

\* An entry for each binding that matches.
LEMMA EntriesCount ==
  ASSUME TableInv
  PROVE  Cardinality({t \in DOMAIN output : output[t] # NullRecord}) = Cardinality(Matched(built))
<1> DEFINE entries == {t \in DOMAIN output : output[t] # NullRecord}
           f == [i \in Matched(built) |-> built[i].id]
<1>1. /\ built \in Bindings /\ ~DuplicateIds(built) /\ DOMAIN output = 0..Slots - 1
      /\ \A t \in 0..Slots - 1 : output[t] = Bound(built, t)
      /\ RequiredBefore(built, Len(built) + 1) <= Slots
  BY DEF TableInv
<1>2. /\ DOMAIN built = 1..Len(built) /\ Len(built) \in Nat
      /\ \A i \in DOMAIN built : built[i].id \in Nat
  BY <1>1, BindingsShape
<1>3. Matched(built) \subseteq DOMAIN built /\ \A i \in Matched(built) : built[i].name \in Catalog
  BY DEF Matched
<1>4. \A i \in Matched(built) : built[i].id \in 0..Slots - 1
  <2> TAKE i \in Matched(built)
  <2>1. built[i].id + 1 <= RequiredBefore(built, Len(built) + 1)
    BY <1>1, <1>3, RequiredCovers
  <2>2. RequiredBefore(built, Len(built) + 1) \in Nat
    BY <1>1, RequiredCovers
  <2>3. QED
    BY <1>1, <1>2, <1>3, <2>1, <2>2, SlotsAssumption
<1>5. \A i \in Matched(built) : f[i] \in entries
  BY <1>1, <1>3, <1>4, BoundIsTheBinding, CatalogAssumption
<1>6. \A t \in entries : \E i \in Matched(built) : f[i] = t
  BY <1>1, BoundIsTheBinding
<1>7. \A i, j \in Matched(built) : f[i] = f[j] => i = j
  BY <1>1, <1>2, <1>3 DEF DuplicateIds
<1>8. f \in Bijection(Matched(built), entries)
  <2>1. f \in [Matched(built) -> entries]
    BY <1>5
  <2>2. QED
    BY <1>6, <1>7, <2>1 DEF Bijection, Injection, Surjection, IsInjective
<1>9. IsFiniteSet(Matched(built))
  <2>1. IsFiniteSet(1..Len(built))
    BY <1>2, FS_Interval
  <2>2. QED
    BY <1>2, <1>3, <2>1, FS_Subset
<1>10. ExistsBijection(Matched(built), entries)
  BY <1>8 DEF ExistsBijection
<1>11. QED
  BY <1>9, <1>10, FS_Bijection

\* For every registry, buffer and sequence of builds and restarts the buffer is
\* exactly the table of the last build that succeeded, and its report counts it.
THEOREM TableIsTheLastBuild == SessionSpec => []TableIsLastBuild
<1>1. SessionInit => TableInv
  BY EmptyTableInv DEF SessionInit
<1>2. TableInv => TableIsLastBuild
  <2> SUFFICES ASSUME TableInv PROVE TableIsLastBuild
    OBVIOUS
  <2>1. /\ built \in Bindings /\ ~DuplicateIds(built) /\ DOMAIN output = 0..Slots - 1
        /\ \A t \in 0..Slots - 1 : output[t] = Bound(built, t)
        /\ RequiredBefore(built, Len(built) + 1) <= Slots
    BY DEF TableInv
  <2>2. \A i \in DOMAIN built : built[i] = [id |-> built[i].id, name |-> built[i].name]
    BY <2>1, BindingsShape
  <2>3. ASSUME NEW t \in DOMAIN output, NEW name \in Catalog
        PROVE  output[t] = name <=> \E i \in DOMAIN built : built[i] = [id |-> t, name |-> name]
    <3>1. ASSUME NEW i \in DOMAIN built, built[i] = [id |-> t, name |-> name]
          PROVE  output[t] = name
      BY <2>1, <3>1, BoundIsTheBinding DEF Matched
    <3>2. ASSUME output[t] = name
          PROVE  \E i \in DOMAIN built : built[i] = [id |-> t, name |-> name]
      <4>1. Bound(built, t) # NullRecord
        BY <2>1, <2>3, <3>2, CatalogAssumption
      <4>2. PICK i \in Matched(built) : built[i].id = t
        BY <2>1, <4>1, BoundIsTheBinding
      <4>3. i \in DOMAIN built /\ built[i].name = name
        BY <2>1, <3>2, <4>2, BoundIsTheBinding DEF Matched
      <4>4. QED
        BY <2>2, <4>2, <4>3
    <3>3. QED
      BY <3>1, <3>2
  <2>4. ASSUME report.status = "Ok"
        PROVE  /\ report.mapped = Cardinality({t \in DOMAIN output : output[t] # NullRecord})
               /\ report.mapped + report.unmatched = Len(built)
               /\ \A t \in DOMAIN output : output[t] # NullRecord => t < report.required
    <3>1. /\ report.mapped = Cardinality(Matched(built))
          /\ report.unmatched = Len(built) - Cardinality(Matched(built))
          /\ report.required = RequiredBefore(built, Len(built) + 1)
      BY <2>4 DEF TableInv
    <3>2. Cardinality(Matched(built)) \in Nat /\ Len(built) \in Nat
      <4>1. Len(built) \in Nat /\ DOMAIN built = 1..Len(built)
        BY <2>1, BindingsShape
      <4>2. IsFiniteSet(1..Len(built))
        BY <4>1, FS_Interval
      <4>3. IsFiniteSet(Matched(built))
        BY <4>1, <4>2, FS_Subset DEF Matched
      <4>4. QED
        BY <4>1, <4>3, FS_CardinalityType
    <3>3. ASSUME NEW t \in DOMAIN output, output[t] # NullRecord PROVE t < report.required
      <4>1. PICK i \in Matched(built) : built[i].id = t
        BY <2>1, <3>3, BoundIsTheBinding
      <4>2. i \in DOMAIN built /\ t \in Nat
        BY <2>1, <4>1, BindingsShape DEF Matched
      <4>3. t + 1 <= RequiredBefore(built, Len(built) + 1)
        BY <2>1, <4>1, <4>2, RequiredCovers
      <4>4. QED
        BY <3>1, <4>2, <4>3, <2>1, RequiredCovers
    <3>4. QED
      BY <3>1, <3>2, <3>3, EntriesCount
  <2>5. QED
    BY <2>3, <2>4 DEF TableIsLastBuild
<1>3. QED
  BY <1>1, <1>2, TableKept, PTL DEF SessionSpec

-----------------------------------------------------------------------------
(* Batch calls                                                             *)

Here == call.request
There == call.next

Running == [phase : {"running"}, request : Requests, next : Nat,
            before : [Addresses -> Int], bytesBefore : [Addresses -> {0, 1, Unset}]]

\* What a call under way has done so far: the first There results, and nothing
\* else.
LoopInv ==
  call.phase = "running" =>
    /\ call \in Running /\ Here \in Requests
    /\ ~Refused(Here) /\ Validate(Here) = "Ok"
    /\ There \in Nat /\ There <= Points(Here)
    /\ WritesOnly(Here, There)
    /\ \A i \in 0 .. There - 1 : IsResult(Here, i)

Floats == memory \in [Addresses -> Int]
Bytes  == bytes \in [Addresses -> {0, 1, Unset}]

BatchInv == Floats /\ Bytes /\ LoopInv /\ BatchIsAllOrNothing

\* The buffers of a call that passed its tests lie in the memory.
LEMMA BuffersFit ==
  ASSUME NEW r \in Requests, ~Refused(r), Validate(r) = "Ok"
  PROVE  /\ r.xy \in Nat /\ r.out \in Nat /\ r.count \in Nat /\ r.room \in Nat
         /\ Points(r) \in Nat /\ 2 * Points(r) = r.count /\ Points(r) <= r.room
         /\ r.xy + r.count <= MemorySize /\ r.out + r.room <= MemorySize
         /\ r.kernel \in {"distance", "mask"}
<1>1. /\ r.xy \in Nat /\ r.out \in Nat /\ r.count \in Int /\ r.room \in Int
      /\ r.kernel \in {"distance", "mask"}
      /\ r.xy + r.count <= MemorySize /\ r.out + r.room <= MemorySize
  BY RequestsAssumption DEF Request
<1>2. r.count >= 0 /\ r.room >= 0
  BY <1>1 DEF Refused
<1>3. r.count % 2 = 0 /\ ~(r.room < Points(r))
  BY DEF Validate
<1>4. Points(r) \in Nat /\ 2 * Points(r) = r.count
  BY <1>1, <1>2, <1>3 DEF Points
<1>5. QED
  BY <1>1, <1>2, <1>3, <1>4

\* The two floats of a point lie in the memory.
LEMMA PointsFit ==
  ASSUME NEW r \in Requests, ~Refused(r), Validate(r) = "Ok",
         NEW i \in 0 .. Points(r) - 1
  PROVE  /\ r.xy + 2 * i \in Addresses /\ r.xy + 2 * i + 1 \in Addresses
         /\ r.out + i \in Addresses
<1>1. /\ r.xy \in Nat /\ r.out \in Nat /\ Points(r) \in Nat
      /\ r.xy + 2 * Points(r) <= MemorySize /\ r.out + Points(r) <= MemorySize
  <2>1. /\ r.xy \in Nat /\ r.out \in Nat /\ r.count \in Nat /\ r.room \in Nat
        /\ Points(r) \in Nat /\ 2 * Points(r) = r.count /\ Points(r) <= r.room
        /\ r.xy + r.count <= MemorySize /\ r.out + r.room <= MemorySize
    BY BuffersFit
  <2> QED
    BY <2>1, MemorySizeAssumption
<1> DEFINE n == Points(r)
<1>2. n \in Nat /\ i \in 0 .. n - 1 /\ r.xy + 2 * n <= MemorySize /\ r.out + n <= MemorySize
  BY <1>1
<1> HIDE DEF n
<1> QED
  BY <1>1, <1>2, MemorySizeAssumption DEF Addresses

\* A turn of the loop reads what its point finds.
LEMMA TurnReads ==
  ASSUME WritesOnly(Here, There)
  PROVE  /\ \A a \in Addresses : memory[a] = Found(Here, There, a)
         /\ Here.kernel # "distance" => \A a \in Addresses : memory[a] = call.before[a]
BY DEF WritesOnly, Found

LEMMA StepKeeps == ASSUME BatchInv, Step PROVE BatchInv'
<1> DEFINE r == Here
           i == There
           spot == r.out + i
<1>1. /\ call.phase = "running" /\ r \in Requests /\ ~Refused(r) /\ Validate(r) = "Ok"
      /\ i \in Nat /\ i < Points(r)
      /\ WritesOnly(r, i)
      /\ \A k \in 0 .. i - 1 : IsResult(r, k)
  BY DEF Step, BatchInv, LoopInv, Here, There
<1>2. r.out \in Nat /\ Points(r) \in Nat /\ r.kernel \in {"distance", "mask"}
  BY <1>1, BuffersFit
<1>3. /\ r.xy + 2 * i \in Addresses /\ r.xy + 2 * i + 1 \in Addresses
      /\ spot \in Addresses
  <2>1. i \in 0 .. Points(r) - 1
    BY <1>1, <1>2
  <2> QED
    BY <1>1, <2>1, PointsFit
<1>4. call' = [call EXCEPT !.next = i + 1]
  BY DEF Step, There
<1>5. /\ \A a \in Addresses : memory[a] = Found(r, i, a)
      /\ r.kernel # "distance" => \A a \in Addresses : memory[a] = call.before[a]
  BY <1>1, TurnReads
<1>6. /\ r.kernel = "distance" =>
           memory' = [memory EXCEPT ![spot] = DistanceOf(memory, r, i)] /\ bytes' = bytes
      /\ r.kernel = "mask" =>
           bytes' = [bytes EXCEPT ![spot] = Marked(memory, r, i)] /\ memory' = memory
  BY DEF Step, Here, There
<1>7. /\ call'.phase = "running" /\ call'.request = r /\ call'.next = i + 1
      /\ call'.before = call.before /\ call'.bytesBefore = call.bytesBefore
      /\ call' \in Running
      /\ Here' = r /\ There' = i + 1
  <2>1. call \in Running /\ i + 1 \in Nat
    BY <1>1 DEF BatchInv, LoopInv
  <2>2. call' = [phase |-> "running", request |-> r, next |-> i + 1,
                 before |-> call.before, bytesBefore |-> call.bytesBefore]
    BY <1>1, <1>4, <2>1 DEF Running, Here
  <2>3. QED
    BY <2>1, <2>2, <1>1 DEF Running, Here, There
<1>8. DistanceOf(memory, r, i) \in Int /\ Marked(memory, r, i) \in {0, 1}
  <2>1. memory[r.xy + 2 * i] \in Int /\ memory[r.xy + 2 * i + 1] \in Int
    BY <1>3 DEF BatchInv, Floats
  <2>2. QED
    BY <2>1 DEF DistanceOf, Distance, Marked
<1>9. /\ DistanceOf(memory, r, i)
           = Distance(Found(r, i, r.xy + 2 * i), Found(r, i, r.xy + 2 * i + 1))
      /\ r.kernel # "distance" => Marked(memory, r, i) = Marked(call.before, r, i)
  BY <1>3, <1>5 DEF DistanceOf, Marked
<1> HIDE DEF r, i, spot
<1>10. memory \in [Addresses -> Int] /\ bytes \in [Addresses -> {0, 1, Unset}]
  BY DEF BatchInv, Floats, Bytes
<1>11. /\ memory' \in [Addresses -> Int] /\ bytes' \in [Addresses -> {0, 1, Unset}]
       /\ \A a \in Addresses : a # spot => memory'[a] = memory[a] /\ bytes'[a] = bytes[a]
       /\ r.kernel = "distance" =>
            memory'[spot] = DistanceOf(memory, r, i) /\ bytes'[spot] = bytes[spot]
       /\ r.kernel = "mask" =>
            bytes'[spot] = Marked(memory, r, i) /\ memory'[spot] = memory[spot]
  <2>1. CASE r.kernel = "distance"
    BY <1>3, <1>6, <1>8, <1>10, <2>1
  <2>2. CASE r.kernel = "mask"
    BY <1>3, <1>6, <1>8, <1>10, <2>2
  <2>3. QED
    BY <1>2, <2>1, <2>2
<1>12. WritesOnly(Here, There)'
  <2>1. ASSUME NEW a \in Addresses
        PROVE  /\ memory'[a] # call.before[a] =>
                    r.kernel = "distance" /\ a \in r.out .. r.out + (i + 1) - 1
               /\ bytes'[a] # call.bytesBefore[a] =>
                    r.kernel = "mask" /\ a \in r.out .. r.out + (i + 1) - 1
    <3>1. /\ memory[a] # call.before[a] =>
               r.kernel = "distance" /\ a \in r.out .. r.out + i - 1
          /\ bytes[a] # call.bytesBefore[a] =>
               r.kernel = "mask" /\ a \in r.out .. r.out + i - 1
      BY <1>1 DEF WritesOnly
    <3>2. a \in r.out .. r.out + i - 1 => a \in r.out .. r.out + (i + 1) - 1
      BY <1>1, <1>2
    <3>3. CASE a # spot
      BY <1>11, <3>1, <3>2, <3>3
    <3>4. CASE a = spot
      <4>1. spot \in r.out .. r.out + (i + 1) - 1
        BY <1>1, <1>2 DEF spot
      <4> QED
        BY <1>2, <1>11, <3>1, <3>4, <4>1
    <3> QED
      BY <3>3, <3>4
  <2> QED
    BY <1>7, <2>1 DEF WritesOnly
<1>13. \A k \in 0 .. (i + 1) - 1 : IsResult(Here, k)'
  <2> SUFFICES ASSUME NEW k \in 0 .. (i + 1) - 1 PROVE IsResult(Here, k)'
    OBVIOUS
  <2>1. k \in 0 .. i - 1 \/ k = i
    BY <1>1
  <2>2. k \in Nat /\ k <= i /\ k < Points(r)
    BY <1>1, <1>2
  <2>3. /\ r.xy + 2 * k \in Addresses /\ r.xy + 2 * k + 1 \in Addresses
        /\ r.out + k \in Addresses
    <3>1. k \in 0 .. Points(r) - 1
      BY <1>2, <2>2
    <3> QED
      BY <1>1, <3>1, PointsFit
  \* What an earlier point found is not written again.
  <2>4. \A a \in Addresses :
          (IF r.kernel = "distance" /\ a \in r.out .. r.out + k - 1
           THEN memory'[a] ELSE call.before[a]) = Found(r, k, a)
    <3>1. \A a \in Addresses : a \in r.out .. r.out + k - 1 => a # spot
      BY <1>1, <1>2, <2>2 DEF spot
    <3> QED
      BY <1>11, <3>1 DEF Found
  <2>5. IsResult(Here, k)' =
          IF r.kernel = "distance"
          THEN memory'[r.out + k] =
                 Distance(Found(r, k, r.xy + 2 * k), Found(r, k, r.xy + 2 * k + 1))
          ELSE bytes'[r.out + k] = Marked(call.before, r, k)
    BY <1>7, <2>3, <2>4 DEF IsResult, Found, Marked, DistanceOf
  <2>6. CASE k \in 0 .. i - 1
    <3>1. r.out + k # spot
      BY <1>1, <1>2, <2>6 DEF spot
    <3>2. IsResult(r, k)
      BY <1>1, <2>6
    <3> QED
      BY <1>11, <2>3, <2>5, <3>1, <3>2 DEF IsResult
  <2>7. CASE k = i
    BY <1>2, <1>9, <1>11, <2>5, <2>7 DEF spot
  <2> QED
    BY <2>1, <2>6, <2>7
<1>14. LoopInv'
  <2>1. i + 1 \in Nat /\ i + 1 <= Points(r)
    BY <1>1, <1>2
  <2>2. \A k \in 0 .. There' - 1 : IsResult(Here, k)'
    BY <1>7, <1>13
  <2> QED
    BY <1>1, <1>7, <1>12, <2>1, <2>2 DEF LoopInv
<1>15. QED
  BY <1>7, <1>11, <1>14 DEF BatchInv, Floats, Bytes, BatchIsAllOrNothing

LEMMA ReturnKeeps == ASSUME BatchInv, Return PROVE BatchInv'
<1> DEFINE r == Here
<1>1. /\ call.phase = "running" /\ r \in Requests /\ ~Refused(r) /\ Validate(r) = "Ok"
      /\ WritesOnly(r, Points(r))
      /\ \A k \in 0 .. Points(r) - 1 : IsResult(r, k)
  <2>1. /\ call.phase = "running" /\ call.next >= Points(call.request)
    BY DEF Return
  <2>2. Points(Here) \in Nat
    BY <2>1, BuffersFit DEF BatchInv, LoopInv
  <2>3. There = Points(Here)
    BY <2>1, <2>2 DEF BatchInv, LoopInv, Here, There
  <2>4. QED
    BY <2>1, <2>3 DEF BatchInv, LoopInv
<1>2. Points(r) \in Nat /\ Points(r) <= r.room
  BY <1>1, BuffersFit
<1>3. /\ call'.phase = "returned" /\ call'.request = r /\ call'.status = "OK"
      /\ call'.written = AllWritten(r)
      /\ call'.before = call.before /\ call'.bytesBefore = call.bytesBefore
      /\ memory' = memory /\ bytes' = bytes
  BY DEF Return, Returned, Here
<1> HIDE DEF r
<1>4. AllWritten(r) = Points(r) \/ r.edge \in {"Node", "Java"}
  BY DEF AllWritten
<1>5. /\ call'.request = r /\ Points(Here)' = Points(r)
      /\ WritesOnly(Here, Points(Here))'
      /\ \A k \in 0 .. Points(Here)' - 1 : IsResult(Here, k)'
  <2>1. Here' = r /\ Points(Here)' = Points(r)
    BY <1>3 DEF Here, Points
  <2>2. WritesOnly(Here, Points(Here))'
    BY <1>1, <1>3, <2>1 DEF WritesOnly
  <2>3. ASSUME NEW k \in 0 .. Points(r) - 1 PROVE IsResult(Here, k)'
    <3>1. IsResult(r, k)
      BY <1>1, <2>3
    <3> QED
      BY <1>3, <2>1, <3>1 DEF IsResult, Found
  <2> QED
    BY <1>3, <2>1, <2>2, <2>3
<1>6. BatchIsAllOrNothing'
  BY <1>2, <1>3, <1>4, <1>5 DEF BatchIsAllOrNothing, Here
<1>7. QED
  BY <1>3, <1>6 DEF BatchInv, Floats, Bytes, LoopInv

LEMMA BeginKeeps ==
  ASSUME BatchInv, NEW r \in Requests, Begin(r) PROVE BatchInv'
<1>1. /\ call' = [phase |-> "running", request |-> r, next |-> 0,
                  before |-> memory, bytesBefore |-> bytes]
      /\ ~Refused(r) /\ Validate(r) = "Ok" /\ memory' = memory /\ bytes' = bytes
  BY DEF Begin
<1>2. memory \in [Addresses -> Int] /\ bytes \in [Addresses -> {0, 1, Unset}]
  BY DEF BatchInv, Floats, Bytes
<1>3. call' \in Running
  BY <1>1, <1>2 DEF Running
<1>4. Points(r) \in Nat
  BY <1>1, BuffersFit
<1>5. LoopInv'
  BY <1>1, <1>3, <1>4 DEF LoopInv, Here, There, WritesOnly
<1>6. QED
  BY <1>1, <1>2, <1>5 DEF BatchInv, Floats, Bytes, BatchIsAllOrNothing

LEMMA RejectKeeps ==
  ASSUME BatchInv, NEW r \in Requests, Reject(r) PROVE BatchInv'
<1>1. /\ call'.phase = "returned" /\ call'.request = r
      /\ call'.written = NoneWritten(r)
      /\ call'.before = memory /\ call'.bytesBefore = bytes
      /\ memory' = memory /\ bytes' = bytes
      /\ call'.status = StatusAt(r.edge, IF Refused(r) THEN "Refused" ELSE Validate(r))
      /\ Refused(r) \/ Validate(r) # "Ok"
  BY DEF Reject, Returned
<1>2. call'.status # "OK"
  BY <1>1 DEF StatusAt
<1>3. NoneWritten(r) \in {0, Untouched}
  BY DEF NoneWritten
<1>4. QED
  BY <1>1, <1>2, <1>3 DEF BatchInv, Floats, Bytes, LoopInv, BatchIsAllOrNothing

LEMMA BatchKept == BatchInv /\ [SessionNext]_sessionVars => BatchInv'
<1> SUFFICES ASSUME BatchInv, [SessionNext]_sessionVars PROVE BatchInv'
  OBVIOUS
<1>1. ASSUME memory' \in Packings, bytes' = [a \in Addresses |-> Unset], call' = Idle
      PROVE  BatchInv'
  BY <1>1, PackingsAssumption
     DEF BatchInv, Floats, Bytes, LoopInv, BatchIsAllOrNothing, Idle
<1>2. ASSUME UNCHANGED batchVars PROVE BatchInv'
  BY <1>2 DEF batchVars, BatchInv, Floats, Bytes, LoopInv, BatchIsAllOrNothing, Here, There,
              WritesOnly, IsResult, Found
<1>3. CASE Restart
  BY <1>1, <1>3 DEF Restart
<1>4. CASE Handshake \/ BuildTable \/ Play \/ Decide \/ UNCHANGED sessionVars
  BY <1>2, <1>4 DEF Handshake, BuildTable, Play, Decide, sessionVars, batchVars
<1>5. CASE BatchCall
  <2>1. CASE Pack
    BY <1>1, <2>1 DEF Pack
  <2>2. CASE Step
    BY <2>2, StepKeeps
  <2>3. CASE Return
    BY <2>3, ReturnKeeps
  <2>4. ASSUME NEW r \in Requests, Reject(r) \/ Begin(r) PROVE BatchInv'
    BY <2>4, RejectKeeps, BeginKeeps
  <2>5. QED
    BY <1>5, <2>1, <2>2, <2>3, <2>4 DEF BatchCall, BatchNext
<1>6. QED
  BY <1>3, <1>4, <1>5 DEF SessionNext

\* For every memory, request and overlap: a batch call that returns OK has
\* written its results, of what it found in place of the coordinates, and
\* nothing else; one that does not has written nothing.
THEOREM BatchAllOrNothing == SessionSpec => []BatchIsAllOrNothing
<1>1. SessionInit => BatchInv
  BY PackingsAssumption
     DEF SessionInit, BatchInit, BatchInv, Floats, Bytes, LoopInv, BatchIsAllOrNothing, Idle
<1>2. BatchInv => BatchIsAllOrNothing
  BY DEF BatchInv
<1>3. QED
  BY <1>1, <1>2, BatchKept, PTL DEF SessionSpec

\* The output does not run ahead of the input it overlaps: a call in place,
\* or one whose output starts up to one float into the coordinates.
ReadBeforeWritten(r) == r.out <= r.xy + 1 \/ r.xy + r.count <= r.out

\* In place, in a buffer of its own and wherever the output starts at most one
\* float into the coordinates, every point finds its own coordinates: the loop
\* writes one float for two it has read.
THEOREM InPlaceReadsTheInput ==
  ASSUME NEW r \in Requests, ~Refused(r), Validate(r) = "Ok", ReadBeforeWritten(r),
         NEW i \in 0 .. Points(r) - 1
  PROVE  \A a \in {r.xy + 2 * i, r.xy + 2 * i + 1} : Found(r, i, a) = call.before[a]
<1>1. /\ r.xy \in Nat /\ r.out \in Nat /\ r.count \in Nat
      /\ Points(r) \in Nat /\ 2 * Points(r) = r.count
  BY BuffersFit
<1> DEFINE n == Points(r)
<1>2. n \in Nat /\ 2 * n = r.count /\ i \in 0 .. n - 1
  BY <1>1
<1>3. r.out <= r.xy + 1 \/ r.xy + r.count <= r.out
  BY DEF ReadBeforeWritten
<1> HIDE DEF n
<1>4. \A a \in {r.xy + 2 * i, r.xy + 2 * i + 1} : a \notin r.out .. r.out + i - 1
  BY <1>1, <1>2, <1>3
<1>5. QED
  BY <1>4 DEF Found

-----------------------------------------------------------------------------
(* Types                                                                   *)

\* Whatever way a build ends, its report counts naturals.
LEMMA BuildsReport ==
  ASSUME NEW b \in Bindings, RejectUnnamed(b) \/ RejectSize(b) \/ RejectDuplicate(b) \/ Accept(b)
  PROVE  report' \in [status : Statuses, required : Nat, mapped : Nat, unmatched : Nat]
<1> DEFINE Reports == [status : Statuses, required : Nat, mapped : Nat, unmatched : Nat]
<1>1. Len(b) \in Nat /\ DOMAIN b = 1..Len(b)
  BY BindingsShape
<1>2. IsFiniteSet(DOMAIN b)
  BY <1>1, FS_Interval
<1>3. CASE RejectUnnamed(b)
  <2>1. Unnamed(b) \subseteq Nat /\ Unnamed(b) # {} /\ Unnamed(b) \subseteq 1..Len(b)
    BY <1>1, <1>3 DEF RejectUnnamed, Unnamed
  <2>2. Min(Unnamed(b)) \in Unnamed(b)
    BY <2>1, LeastNatural DEF Min
  <2>3. Min(Unnamed(b)) \in 1 .. Len(b) + 1
    BY <1>1, <2>1, <2>2
  <2>4. RequiredBefore(b, Min(Unnamed(b))) \in Nat
    BY <2>3, RequiredSoFar
  <2>5. QED
    BY <1>3, <2>4 DEF RejectUnnamed, Report, Statuses
<1>4. CASE RejectSize(b) \/ RejectDuplicate(b)
  BY <1>4, RequiredCovers DEF RejectSize, RejectDuplicate, Report, Statuses
<1>5. CASE Accept(b)
  <2>1. /\ Cardinality(Matched(b)) \in Nat /\ Cardinality(Matched(b)) <= Cardinality(DOMAIN b)
    <3>1. Matched(b) \in SUBSET DOMAIN b
      BY DEF Matched
    <3>2. /\ IsFiniteSet(Matched(b))
          /\ Cardinality(Matched(b)) <= Cardinality(DOMAIN b)
      BY <1>2, <3>1, FS_Subset
    <3>3. QED
      BY <3>2, FS_CardinalityType
  <2>2. Cardinality(DOMAIN b) = Len(b)
    <3>1. Cardinality(1..Len(b)) = IF 1 > Len(b) THEN 0 ELSE Len(b) - 1 + 1
      BY <1>1, FS_Interval
    <3>2. QED
      BY <1>1, <3>1
  <2>3. Len(b) - Cardinality(Matched(b)) \in Nat
    BY <1>1, <2>1, <2>2
  <2>4. QED
    BY <1>5, <2>1, <2>3, RequiredCovers DEF Accept, Report, Statuses
<1>6. QED
  BY <1>3, <1>4, <1>5

\* What the table holds follows from what it is the table of.
LEMMA TableIsTyped ==
  ASSUME TableInv PROVE output \in [0..Slots - 1 -> Catalog \union {NullRecord}]
<1>1. built \in Bindings /\ ~DuplicateIds(built) /\ output = [t \in 0..Slots - 1 |-> Bound(built, t)]
  BY DEF TableInv
<1>2. ASSUME NEW t \in 0..Slots - 1 PROVE Bound(built, t) \in Catalog \union {NullRecord}
  <2>1. CASE \E i \in Matched(built) : built[i].id = t
    BY <1>1, <2>1, BoundIsTheBinding DEF Matched
  <2>2. CASE \A i \in Matched(built) : built[i].id # t
    BY <1>1, <2>2, BoundIsTheBinding
  <2>3. QED
    BY <2>1, <2>2
<1>3. QED
  BY <1>1, <1>2

\* What the two invariants leave to be shown.
Session ==
  /\ report \in [status : Statuses, required : Nat, mapped : Nat, unmatched : Nat]
  /\ call.phase \in {"idle", "running", "returned"}
  /\ library \in Libraries /\ wants \in Requirements
  /\ stage \in {"loaded", "startup", "playing", "off"}
  /\ stage \in {"startup", "playing"} => handshake.status = "Ready"

LEMMA SessionKept == BatchInv /\ Session /\ [SessionNext]_sessionVars => Session'
<1> SUFFICES ASSUME BatchInv, Session, [SessionNext]_sessionVars PROVE Session'
  OBVIOUS
<1>1. CASE Restart
  BY <1>1 DEF Restart, Session, Report, Statuses, Idle
<1>2. CASE Handshake
  BY <1>2 DEF Handshake, Session
<1>3. CASE BuildTable
  <2>1. report' \in [status : Statuses, required : Nat, mapped : Nat, unmatched : Nat]
    BY <1>3, BuildsReport DEF BuildTable, Next
  <2>2. QED
    BY <1>3, <2>1 DEF BuildTable, Session
<1>4. CASE BatchCall
  <2>1. call'.phase \in {"idle", "running", "returned"}
    <3>1. CASE Pack
      BY <3>1 DEF Pack, Idle
    <3>2. CASE Step
      <4>1. call \in Running /\ call' = [call EXCEPT !.next = call.next + 1]
        BY <3>2 DEF Step, BatchInv, LoopInv
      <4>2. QED
        BY <4>1 DEF Running
    <3>3. CASE Return \/ \E r \in Requests : Reject(r) \/ Begin(r)
      BY <3>3 DEF Return, Reject, Begin, Returned
    <3>4. QED
      BY <1>4, <3>1, <3>2, <3>3 DEF BatchCall, BatchNext
  <2>2. QED
    BY <1>4, <2>1 DEF BatchCall, Session
<1>5. CASE Play \/ Decide \/ UNCHANGED sessionVars
  BY <1>5 DEF Play, Decide, sessionVars, Session
<1>6. QED
  BY <1>1, <1>2, <1>3, <1>4, <1>5 DEF SessionNext

\* For all libraries, requirements, registries and requests: the session keeps
\* its types, in particular no build writes outside its buffer and no batch
\* call outside the memory, and the edge is used only behind a handshake.
THEOREM SessionTypeCorrect == SessionSpec => []SessionTypeOK
<1>1. SessionInit => TableInv /\ BatchInv /\ Session
  <2>1. SessionInit => TableInv
    BY EmptyTableInv DEF SessionInit
  <2>2. SessionInit => BatchInv
    BY PackingsAssumption
       DEF SessionInit, BatchInit, BatchInv, Floats, Bytes, LoopInv, BatchIsAllOrNothing, Idle
  <2>3. SessionInit => Session
    BY DEF SessionInit, Init, BatchInit, Session, Report, Statuses, Idle
  <2>4. QED
    BY <2>1, <2>2, <2>3
<1>2. TableInv /\ BatchInv /\ Session => SessionTypeOK
  <2> SUFFICES ASSUME TableInv, BatchInv, Session PROVE SessionTypeOK
    OBVIOUS
  <2>1. TypeOK
    BY TableIsTyped DEF TypeOK, TableInv, Session
  <2>2. BatchTypeOK
    BY DEF BatchTypeOK, BatchInv, Floats, Bytes, LoopInv, Session, Here, There
  <2>3. QED
    BY <2>1, <2>2 DEF SessionTypeOK, Session
<1>3. QED
  BY <1>1, <1>2, TableKept, BatchKept, SessionKept, PTL DEF SessionSpec

-----------------------------------------------------------------------------
(* The exchange                                                            *)

Group == Seq(Combatant)

AllValid(group) == \A i \in DOMAIN group : Valid(group[i])

Strength == [health : Nat, dps : Nat]

\* What a group with one unit more is worth.
Reinforced(side, c) ==
  IF c.health = 0 THEN side
  ELSE [health |-> side.health + c.health, dps |-> side.dps + c.dps]

\* The loop of AggregateCombatants over its first units.
Aggregates(group, pass) ==
  /\ pass \in [0 .. Len(group) -> Strength]
  /\ pass[0] = [health |-> 0, dps |-> 0]
  /\ \A i \in 1 .. Len(group) : pass[i] = Reinforced(pass[i - 1], group[i])

LEMMA ReinforcedTyped ==
  ASSUME NEW side \in Strength, NEW c \in Combatant, Valid(c)
  PROVE  /\ Reinforced(side, c) \in Strength
         /\ Reinforced(side, c).health >= side.health
         /\ Reinforced(side, c).dps >= side.dps
<1>1. c.health \in Nat /\ c.dps \in Nat
  BY DEF Combatant, Valid
<1>2. QED
  BY <1>1 DEF Reinforced, Strength

LEMMA GroupUnits ==
  ASSUME NEW group \in Group, AllValid(group), NEW i \in 1 .. Len(group)
  PROVE  group[i] \in Combatant /\ Valid(group[i])
<1> HIDE DEF Combatant
<1>1. QED
  BY DEF Group, AllValid

LEMMA AggregateIsTheLoop ==
  ASSUME NEW group \in Group, AllValid(group)
  PROVE  \E pass : Aggregates(group, pass) /\ AggregateCombatants(group) = pass[Len(group)]
<1> DEFINE n == Len(group)
           Loop(f) == f = [i \in 0..n |->
                        IF i = 0 THEN [health |-> 0, dps |-> 0]
                        ELSE IF group[i].health = 0 THEN f[i - 1]
                        ELSE [health |-> f[i - 1].health + group[i].health,
                              dps    |-> f[i - 1].dps + group[i].dps]]
           step == [i \in 1..n |-> [side \in Strength |-> Reinforced(side, group[i])]]
           none == [health |-> 0, dps |-> 0]
<1>1. n \in Nat
  BY DEF Group
<1> HIDE DEF n
<1>2. \A i \in 1..n : group[i] \in Combatant /\ Valid(group[i])
  BY GroupUnits DEF n
<1>3. \A i \in 1..n : \A v \in Strength : step[i][v] \in Strength
  BY <1>2, ReinforcedTyped
<1>4. none \in Strength
  BY DEF Strength
<1> HIDE DEF step, none, Loop
<1>5. PICK f : Computes(n, Strength, none, step, f)
  BY <1>1, <1>3, <1>4, RecursionExists DEF Loops
<1>6. \A i \in 1..n : f[i] = Reinforced(f[i-1], group[i])
  <2> TAKE i \in 1..n
  <2>1. i - 1 \in 0..n /\ f[i-1] \in Strength
    BY <1>1, <1>5 DEF Computes
  <2>2. QED
    BY <1>5, <2>1 DEF Computes, step
<1>7. Loop(f)
  <2> USE DEF Loop
  <2>1. \A i \in 0..n : f[i] = IF i = 0 THEN none ELSE Reinforced(f[i-1], group[i])
    BY <1>1, <1>5, <1>6 DEF Computes
  <2>2. f = [i \in 0..n |-> IF i = 0 THEN none ELSE Reinforced(f[i-1], group[i])]
    BY <1>5, <2>1 DEF Computes
  <2>3. QED
    BY <2>2 DEF Reinforced, none
<1> DEFINE pass == CHOOSE f_1 : Loop(f_1)
<1>8. Loop(pass)
  <2>1. QED
    BY <1>7
<1>9. AggregateCombatants(group) = pass[n]
  BY DEF AggregateCombatants, n, Loop
<1> HIDE DEF pass
<1>10. /\ DOMAIN pass = 0..n
       /\ \A i \in 0..n : pass[i] = IF i = 0 THEN none ELSE Reinforced(pass[i-1], group[i])
  BY <1>8 DEF Reinforced, none, Loop
<1> DEFINE P == {i \in 0..n : pass[i] \in Strength}
<1>11. 0 \in P
  BY <1>1, <1>4, <1>10
<1>12. ASSUME NEW i \in 1..n, i - 1 \in P PROVE i \in P
  <2>1. i \in 0..n /\ i # 0
    BY <1>1
  <2>2. pass[i] = Reinforced(pass[i-1], group[i])
    BY <1>10, <2>1
  <2>3. QED
    BY <1>2, <1>12, <2>1, <2>2, ReinforcedTyped
<1>13. \A i \in 0..n : i \in P
  <2> HIDE DEF P
  <2>1. \A i \in 1..n : i - 1 \in P => i \in P
    BY <1>12
  <2>2. QED
    BY <1>1, <1>11, <2>1, InductionUpTo
<1>14. pass \in [0..n -> Strength]
  <2>1. \A i \in 0..n : pass[i] \in Strength
    BY <1>13
  <2>2. pass = [i \in 0..n |-> pass[i]]
    BY <1>8 DEF Loop
  <2>3. QED
    BY <2>1, <2>2
<1>15. Aggregates(group, pass)
  <2>1. \A i \in 1..n : pass[i] = Reinforced(pass[i-1], group[i])
    BY <1>1, <1>10
  <2>2. pass[0] = none
    BY <1>1, <1>10
  <2>3. QED
    BY <1>14, <2>1, <2>2 DEF Aggregates, n, none
<1>16. QED
  BY <1>9, <1>15 DEF n

LEMMA AggregateTyped ==
  ASSUME NEW group \in Group, AllValid(group)
  PROVE  AggregateCombatants(group) \in Strength
<1>1. PICK pass : Aggregates(group, pass) /\ AggregateCombatants(group) = pass[Len(group)]
  BY AggregateIsTheLoop
<1>2. Len(group) \in Nat
  BY DEF Group
<1>3. QED
  BY <1>1, <1>2 DEF Aggregates

\* A unit more adds what it is worth, wherever the loop had got to before it.
LEMMA AggregateAppends ==
  ASSUME NEW group \in Group, AllValid(group), NEW c \in Combatant, Valid(c)
  PROVE  /\ Append(group, c) \in Group /\ AllValid(Append(group, c))
         /\ AggregateCombatants(group) \in Strength
         /\ AggregateCombatants(Append(group, c)) = Reinforced(AggregateCombatants(group), c)
<1> DEFINE n == Len(group)
           more == Append(group, c)
<1>1. n \in Nat /\ more \in Group /\ Len(more) = n + 1 /\ DOMAIN group = 1..n
      /\ DOMAIN more = 1..n+1
  <2> HIDE DEF Combatant
  <2>1. QED
    BY DEF Group
<1>2. more[n + 1] = c /\ \A i \in 1..n : more[i] = group[i]
  <2> HIDE DEF Combatant
  <2>1. QED
    BY DEF Group
<1> HIDE DEF n, more
<1>3. AllValid(more)
  <2>1. \A i \in 1..n+1 : i \in 1..n \/ i = n + 1
    BY <1>1
  <2>2. QED
    BY <1>1, <1>2, <2>1 DEF AllValid
<1>4. PICK f : Aggregates(group, f) /\ AggregateCombatants(group) = f[n]
  BY AggregateIsTheLoop DEF n
<1>5. PICK g : Aggregates(more, g) /\ AggregateCombatants(more) = g[n + 1]
  BY <1>1, <1>3, AggregateIsTheLoop
<1> DEFINE P == {i \in 0..n : f[i] = g[i]}
<1>6. /\ f[0] = g[0]
      /\ \A i \in 1..n : f[i] = Reinforced(f[i-1], group[i]) /\ g[i] = Reinforced(g[i-1], group[i])
      /\ g[n + 1] = Reinforced(g[n], c)
      /\ f[n] \in Strength
  BY <1>1, <1>2, <1>4, <1>5 DEF Aggregates, n
<1>7. 0 \in P
  BY <1>1, <1>6
<1>8. \A i \in 1..n : i - 1 \in P => i \in P
  BY <1>1, <1>6
<1>9. n \in P
  <2> HIDE DEF P
  <2>1. QED
    BY <1>1, <1>7, <1>8, InductionUpTo
<1>10. QED
  BY <1>1, <1>3, <1>4, <1>5, <1>6, <1>9 DEF more

-----------------------------------------------------------------------------
(* The outcome from the sides' strengths.                                  *)

\* The first side clears the second before it is cleared.
Prevails(side, other) ==
  IF other.health = 0 THEN side.health > 0
  ELSE other.health * other.dps < side.health * side.dps

LEMMA ProductsGrow ==
  ASSUME NEW a \in Nat, NEW b \in Nat, NEW x \in Nat, NEW y \in Nat, a <= x, b <= y
  PROVE  a * b <= x * y
<1>1. a * b <= x * b
  <2>1. PICK k \in Nat : x = a + k
    <3>1. x - a \in Nat /\ x = a + (x - a)
      OBVIOUS
    <3>2. QED
      BY <3>1
  <2>2. x * b = a * b + k * b /\ k * b \in Nat /\ a * b \in Nat
    BY <2>1
  <2>3. QED
    BY <2>2
<1>2. x * b <= x * y
  <2>1. PICK k \in Nat : y = b + k
    <3>1. y - b \in Nat /\ y = b + (y - b)
      OBVIOUS
    <3>2. QED
      BY <3>1
  <2>2. x * y = x * b + x * k /\ x * k \in Nat /\ x * b \in Nat
    BY <2>1
  <2>3. QED
    BY <2>2
<1>3. a * b \in Nat /\ x * b \in Nat /\ x * y \in Nat
  OBVIOUS
<1>4. QED
  BY <1>1, <1>2, <1>3

LEMMA PrevailsIsShorter ==
  ASSUME NEW side \in Strength, NEW other \in Strength
  PROVE  /\ Shorter(SecondsToClear(other.health, side.dps), SecondsToClear(side.health, other.dps))
              <=> Prevails(side, other)
         /\ ~(Prevails(side, other) /\ Prevails(other, side))
         /\ side.health = 0 => ~Prevails(side, other)
<1> DEFINE h == side.health
           d == side.dps
           k == other.health
           e == other.dps
<1>1. h \in Nat /\ d \in Nat /\ k \in Nat /\ e \in Nat
  BY DEF Strength
<1> HIDE DEF h, d, k, e
<1>2. h * d \in Nat /\ k * e \in Nat
  BY <1>1
<1>3. (h = 0 => h * d = 0) /\ (d = 0 => h * d = 0) /\ (k = 0 => k * e = 0) /\ (e = 0 => k * e = 0)
  BY <1>1
<1>4. h > 0 /\ d > 0 => h * d > 0
  BY <1>1
<1> DEFINE s == SecondsToClear(k, d)
           t == SecondsToClear(h, e)
<1>5. Shorter(s, t) <=> IF k = 0 THEN h > 0 ELSE k * e < h * d
  <2>1. CASE k = 0
    <3>1. s = <<0, 1>>
      BY <2>1 DEF SecondsToClear
    <3>2. CASE h = 0
      BY <1>1, <2>1, <3>1, <3>2 DEF SecondsToClear, Shorter
    <3>3. CASE h > 0 /\ e > 0
      BY <1>1, <2>1, <3>1, <3>3 DEF SecondsToClear, Shorter
    <3>4. CASE h > 0 /\ e = 0
      BY <1>1, <2>1, <3>1, <3>4 DEF SecondsToClear, Shorter
    <3>5. QED
      BY <1>1, <3>2, <3>3, <3>4
  <2>2. CASE k > 0 /\ d = 0
    <3>1. s = <<1, 0>>
      BY <1>1, <2>2 DEF SecondsToClear
    <3>2. t[2] \in Nat /\ t[1] \in Nat
      BY <1>1 DEF SecondsToClear
    <3>3. ~Shorter(s, t)
      <4> HIDE DEF t
      <4>1. s[1] = 1 /\ s[2] = 0
        BY <3>1
      <4>2. QED
        BY <3>2, <4>1 DEF Shorter
    <3>4. QED
      BY <1>1, <1>2, <1>3, <2>2, <3>3
  <2>3. CASE k > 0 /\ d > 0
    <3>1. s = <<k, d>>
      BY <1>1, <2>3 DEF SecondsToClear
    <3>2. CASE h = 0
      BY <1>1, <1>2, <1>3, <2>3, <3>1, <3>2 DEF SecondsToClear, Shorter
    <3>3. CASE h > 0 /\ e > 0
      BY <1>1, <2>3, <3>1, <3>3 DEF SecondsToClear, Shorter
    <3>4. CASE h > 0 /\ e = 0
      BY <1>1, <1>2, <1>3, <1>4, <2>3, <3>1, <3>4 DEF SecondsToClear, Shorter
    <3>5. QED
      BY <1>1, <3>2, <3>3, <3>4
  <2>4. QED
    BY <1>1, <2>1, <2>2, <2>3
<1>6. Prevails(side, other) <=> IF k = 0 THEN h > 0 ELSE k * e < h * d
  BY DEF Prevails, h, d, k, e
<1>7. Prevails(other, side) <=> IF h = 0 THEN k > 0 ELSE h * d < k * e
  BY DEF Prevails, h, d, k, e
<1> HIDE DEF s, t
<1>8. /\ Shorter(s, t) <=> Prevails(side, other)
      /\ ~(Prevails(side, other) /\ Prevails(other, side))
      /\ h = 0 => ~Prevails(side, other)
  BY <1>1, <1>2, <1>3, <1>5, <1>6, <1>7
<1>9. QED
  BY <1>8 DEF s, t, h, d, k, e

LEMMA StrongerPrevails ==
  ASSUME NEW side \in Strength, NEW more \in Strength, NEW other \in Strength,
         more.health >= side.health, more.dps >= side.dps
  PROVE  /\ Prevails(side, other) => Prevails(more, other)
         /\ Prevails(other, more) => Prevails(other, side)
<1>1. /\ side.health \in Nat /\ side.dps \in Nat /\ more.health \in Nat /\ more.dps \in Nat
      /\ other.health \in Nat /\ other.dps \in Nat
  BY DEF Strength
<1>2. side.health * side.dps <= more.health * more.dps
  BY <1>1, ProductsGrow
<1>3. /\ side.health * side.dps \in Nat /\ more.health * more.dps \in Nat
      /\ other.health * other.dps \in Nat
      /\ other.health = 0 => other.health * other.dps = 0
  BY <1>1
<1>4. QED
  BY <1>1, <1>2, <1>3 DEF Prevails

\* The outcome is read off the strengths, whichever of equal times it names.
LEMMA OutcomeFollowsStrength ==
  ASSUME NEW a \in Group, NEW b \in Group, AllValid(a), AllValid(b)
  PROVE  LET outcome == EstimateContinuousExchange(a, b)
             sideA == AggregateCombatants(a)
             sideB == AggregateCombatants(b)
         IN  /\ outcome = "SideAPrevails" <=> Prevails(sideA, sideB)
             /\ outcome = "SideBPrevails" <=> Prevails(sideB, sideA)
             /\ ~Prevails(sideA, sideB) /\ ~Prevails(sideB, sideA) =>
                  outcome = IF sideA.health > 0 /\ sideB.dps = 0 THEN "Stalemate"
                                                                 ELSE "MutualDestruction"
<1> DEFINE sideA == AggregateCombatants(a)
           sideB == AggregateCombatants(b)
           clearB == SecondsToClear(sideB.health, sideA.dps)
           clearA == SecondsToClear(sideA.health, sideB.dps)
<1>1. sideA \in Strength /\ sideB \in Strength
  BY AggregateTyped
<1>2. ~\E c \in {a[i] : i \in DOMAIN a} \union {b[i] : i \in DOMAIN b} : ~Valid(c)
  BY DEF AllValid
<1>3. EstimateContinuousExchange(a, b) =
        IF Shorter(clearB, clearA) THEN "SideAPrevails"
        ELSE IF Shorter(clearA, clearB) THEN "SideBPrevails"
        ELSE IF clearA[2] = 0 THEN "Stalemate" ELSE "MutualDestruction"
  BY <1>2 DEF EstimateContinuousExchange
<1>4. clearA[2] = 0 <=> sideA.health > 0 /\ sideB.dps = 0
  <2>1. sideA.health \in Nat /\ sideB.dps \in Nat
    BY <1>1 DEF Strength
  <2> HIDE DEF sideA, sideB
  <2>2. QED
    BY <2>1 DEF SecondsToClear
<1> HIDE DEF sideA, sideB
<1>5. /\ Shorter(clearB, clearA) <=> Prevails(sideA, sideB)
      /\ Shorter(clearA, clearB) <=> Prevails(sideB, sideA)
      /\ ~(Prevails(sideA, sideB) /\ Prevails(sideB, sideA))
  BY <1>1, PrevailsIsShorter
<1> HIDE DEF clearA, clearB
<1>6. QED
  BY <1>3, <1>4, <1>5 DEF sideA, sideB

EstimateIsOfBattle ==
  decision.phase = "estimated" =>
    /\ decision.battle \in Battles
    /\ decision.outcome = EstimateContinuousExchange(decision.battle[1], decision.battle[2])

LEMMA FilteredShape ==
  ASSUME NEW q, NEW room
  PROVE  Filtered(q, room).phase = "filtered" /\ Filtered(q, room).choice = q
BY DEF Filtered

LEMMA EstimateKept == EstimateIsOfBattle /\ [SessionNext]_sessionVars => EstimateIsOfBattle'
<1> SUFFICES ASSUME EstimateIsOfBattle, [SessionNext]_sessionVars PROVE EstimateIsOfBattle'
  OBVIOUS
<1>1. CASE Restart
  BY <1>1 DEF Restart, EstimateIsOfBattle, Undecided
<1>2. CASE Decide
  <2>1. CASE \E q \in Questions : Filter(q)
    BY <2>1, FilteredShape DEF Filter, EstimateIsOfBattle
  <2>2. CASE \E battle \in Battles : Estimate(battle)
    BY <2>2 DEF Estimate, EstimateIsOfBattle
  <2>3. CASE Retry
    BY <2>3, FilteredShape DEF Retry, EstimateIsOfBattle
  <2>4. CASE Select
    BY <2>4 DEF Select, EstimateIsOfBattle
  <2>5. CASE Forget
    BY <2>5 DEF Forget, Undecided, EstimateIsOfBattle
  <2>6. QED
    BY <1>2, <2>1, <2>2, <2>3, <2>4, <2>5 DEF Decide, FrameNext
<1>3. CASE Handshake \/ BuildTable \/ Play \/ BatchCall \/ UNCHANGED sessionVars
  BY <1>3 DEF Handshake, BuildTable, Play, BatchCall, sessionVars, EstimateIsOfBattle
<1>4. QED
  BY <1>1, <1>2, <1>3 DEF SessionNext

LEMMA MirrorAndReinforce ==
  ASSUME NEW battle \in Battles,
         EstimateContinuousExchange(battle[1], battle[2]) # "InvalidInput"
  PROVE  LET a == battle[1]
             b == battle[2]
             outcome == EstimateContinuousExchange(a, b)
         IN  /\ EstimateContinuousExchange(b, a) = Mirrored(outcome)
             /\ \A c \in Combatants :
                  Valid(c) => Rank(EstimateContinuousExchange(Append(a, c), b)) >= Rank(outcome)
             /\ AggregateCombatants(a).health = 0 => outcome # "SideAPrevails"
<1> DEFINE a == battle[1]
           b == battle[2]
           outcome == EstimateContinuousExchange(a, b)
           sideA == AggregateCombatants(a)
           sideB == AggregateCombatants(b)
<1>1. a \in Group /\ b \in Group
  BY BattlesAssumption DEF Group
<1>2. AllValid(a) /\ AllValid(b)
  BY DEF EstimateContinuousExchange, AllValid
<1> HIDE DEF a, b
<1>3. sideA \in Strength /\ sideB \in Strength
  BY <1>1, <1>2, AggregateTyped
<1>4. /\ outcome = "SideAPrevails" <=> Prevails(sideA, sideB)
      /\ outcome = "SideBPrevails" <=> Prevails(sideB, sideA)
      /\ ~Prevails(sideA, sideB) /\ ~Prevails(sideB, sideA) =>
           outcome = IF sideA.health > 0 /\ sideB.dps = 0 THEN "Stalemate" ELSE "MutualDestruction"
  BY <1>1, <1>2, OutcomeFollowsStrength
<1>5. /\ ~(Prevails(sideA, sideB) /\ Prevails(sideB, sideA))
      /\ sideA.health = 0 => ~Prevails(sideA, sideB)
  BY <1>3, PrevailsIsShorter
<1>6. EstimateContinuousExchange(b, a) = Mirrored(outcome)
  <2> DEFINE back == EstimateContinuousExchange(b, a)
  <2>1. /\ back = "SideAPrevails" <=> Prevails(sideB, sideA)
        /\ back = "SideBPrevails" <=> Prevails(sideA, sideB)
        /\ ~Prevails(sideA, sideB) /\ ~Prevails(sideB, sideA) =>
             back = IF sideB.health > 0 /\ sideA.dps = 0 THEN "Stalemate" ELSE "MutualDestruction"
    BY <1>1, <1>2, OutcomeFollowsStrength
  <2>2. ASSUME ~Prevails(sideA, sideB), ~Prevails(sideB, sideA)
        PROVE  sideA.health > 0 /\ sideB.dps = 0 <=> sideB.health > 0 /\ sideA.dps = 0
    <3>1. /\ sideA.health \in Nat /\ sideA.dps \in Nat
          /\ sideB.health \in Nat /\ sideB.dps \in Nat
      BY <1>3 DEF Strength
    <3>2. /\ IF sideB.health = 0 THEN ~(sideA.health > 0)
             ELSE ~(sideB.health * sideB.dps < sideA.health * sideA.dps)
          /\ IF sideA.health = 0 THEN ~(sideB.health > 0)
             ELSE ~(sideA.health * sideA.dps < sideB.health * sideB.dps)
      BY <2>2 DEF Prevails
    <3> HIDE DEF sideA, sideB
    <3>3. \A h, d, k, e \in Nat :
            /\ IF k = 0 THEN ~(h > 0) ELSE ~(k * e < h * d)
            /\ IF h = 0 THEN ~(k > 0) ELSE ~(h * d < k * e)
            => (h > 0 /\ e = 0 <=> k > 0 /\ d = 0)
      <4> TAKE h, d, k, e \in Nat
      <4>1. /\ h * d \in Nat /\ k * e \in Nat
            /\ h > 0 /\ d > 0 => h * d > 0
            /\ k > 0 /\ e > 0 => k * e > 0
            /\ d = 0 => h * d = 0
            /\ e = 0 => k * e = 0
        OBVIOUS
      <4>2. QED
        BY <4>1
    <3>4. QED
      BY <3>1, <3>2, <3>3
  <2> HIDE DEF back, outcome, sideA, sideB
  <2>3. back = Mirrored(outcome)
    BY <1>4, <1>5, <2>1, <2>2 DEF Mirrored
  <2>4. QED
    BY <2>3 DEF back
<1>7. ASSUME NEW c \in Combatants, Valid(c)
      PROVE  Rank(EstimateContinuousExchange(Append(a, c), b)) >= Rank(outcome)
  <2> DEFINE more == Append(a, c)
             after == EstimateContinuousExchange(more, b)
             sideC == AggregateCombatants(more)
  <2>1. c \in Combatant
    BY CombatantsAssumption
  <2>2. /\ more \in Group /\ AllValid(more)
        /\ sideC = Reinforced(sideA, c)
    BY <1>1, <1>2, <1>7, <2>1, AggregateAppends
  <2>3. sideC \in Strength /\ sideC.health >= sideA.health /\ sideC.dps >= sideA.dps
    BY <1>3, <1>7, <2>1, <2>2, ReinforcedTyped
  <2>4. /\ Prevails(sideA, sideB) => Prevails(sideC, sideB)
        /\ Prevails(sideB, sideC) => Prevails(sideB, sideA)
    BY <1>3, <2>3, StrongerPrevails
  <2>5. /\ after = "SideAPrevails" <=> Prevails(sideC, sideB)
        /\ after = "SideBPrevails" <=> Prevails(sideB, sideC)
    BY <1>1, <1>2, <2>2, OutcomeFollowsStrength
  <2> HIDE DEF after, sideA, sideB, sideC, outcome
  <2>6. Rank(after) >= Rank(outcome)
    BY <1>4, <1>5, <2>4, <2>5 DEF Rank
  <2>7. QED
    BY <2>6 DEF after
<1>8. sideA.health = 0 => outcome # "SideAPrevails"
  BY <1>4, <1>5
<1>9. QED
  BY <1>6, <1>7, <1>8 DEF a, b

\* For groups of any size and units of any strength: exchanged sides exchange
\* the outcome, another valid unit never makes its side fare worse, and a side
\* with nobody left does not prevail.
THEOREM MoreUnitsNeverHurt == SessionSpec => []ReinforcementNeverHurts
<1>1. SessionInit => EstimateIsOfBattle
  BY DEF SessionInit, Undecided, EstimateIsOfBattle
<1>2. EstimateIsOfBattle => ReinforcementNeverHurts
  <2> SUFFICES ASSUME EstimateIsOfBattle, decision.phase = "estimated",
                      decision.outcome # "InvalidInput"
               PROVE  ReinforcementNeverHurts
    BY DEF ReinforcementNeverHurts
  <2>1. /\ decision.battle \in Battles
        /\ decision.outcome = EstimateContinuousExchange(decision.battle[1], decision.battle[2])
    BY DEF EstimateIsOfBattle
  <2> DEFINE battle == decision.battle
  <2> HIDE DEF battle
  <2>2. QED
    BY <2>1, MirrorAndReinforce DEF ReinforcementNeverHurts, battle
<1>3. QED
  BY <1>1, <1>2, EstimateKept, PTL DEF SessionSpec

-----------------------------------------------------------------------------
(* The filters                                                             *)

\* What the loop of a filter has counted and written.
Progress(room) == [required : Nat, output : [1..room -> Nat]]

Taken(done, room, i) ==
  [required |-> done.required + 1,
   output   |-> IF done.required < room THEN [done.output EXCEPT ![done.required + 1] = i]
                                        ELSE done.output]

FilterLoop(q, room, pass) ==
  /\ pass \in [0 .. Len(q.candidates) -> Progress(room)]
  /\ pass[0] = [required |-> 0, output |-> [k \in 1..room |-> 0]]
  /\ \A i \in 1 .. Len(q.candidates) :
       pass[i] = IF Fits(q, i) THEN Taken(pass[i - 1], room, i) ELSE pass[i - 1]

LEMMA TakenTyped ==
  ASSUME NEW room \in Nat, NEW done \in Progress(room), NEW i \in Nat
  PROVE  Taken(done, room, i) \in Progress(room)
<1>1. done.required \in Nat /\ done.output \in [1..room -> Nat]
  BY DEF Progress
<1>2. [done.output EXCEPT ![done.required + 1] = i] \in [1..room -> Nat]
  BY <1>1
<1>3. QED
  BY <1>1, <1>2 DEF Progress, Taken

LEMMA CandidatesCount ==
  ASSUME NEW q \in Questions
  PROVE  /\ Len(q.candidates) \in Nat /\ DOMAIN q.candidates = 1 .. Len(q.candidates)
         /\ q.room \in Nat
         /\ \A i \in DOMAIN q.candidates : q.scores[i] \in Int \union {NotFinite}
         /\ q.mask \in {"none", "filtered", "all"}
<1> HIDE DEF UnitView
<1>1. Len(q.scores) >= Len(q.candidates)
  BY QuestionsAssumption
<1>2. CASE q \in TargetQuestion
  <2>1. q.candidates \in Seq(UnitView) /\ q.scores \in Scores /\ q.room \in Nat
        /\ q.mask \in {"none", "filtered", "all"}
    BY <1>2 DEF TargetQuestion
  <2> DEFINE c == q.candidates
             s == q.scores
  <2> HIDE DEF c, s
  <2>2. c \in Seq(UnitView) /\ s \in Seq(Int \union {NotFinite}) /\ Len(s) >= Len(c)
    BY <1>1, <2>1 DEF Scores, c, s
  <2>3. /\ Len(c) \in Nat /\ DOMAIN c = 1 .. Len(c)
        /\ \A i \in DOMAIN c : s[i] \in Int \union {NotFinite}
    BY <2>2
  <2>4. QED
    BY <2>1, <2>3 DEF c, s
<1>3. CASE q \in SiteQuestion
  <2> DEFINE Anchor == [x : 0 .. Word - 1, y : 0 .. Word - 1]
  <2> HIDE DEF Anchor
  <2>1. q.candidates \in Seq(Anchor) /\ q.scores \in Scores /\ q.room \in Nat
        /\ q.mask \in {"none", "filtered", "all"}
    BY <1>3 DEF SiteQuestion, Anchor
  <2> DEFINE c == q.candidates
             s == q.scores
  <2> HIDE DEF c, s
  <2>2. c \in Seq(Anchor) /\ s \in Seq(Int \union {NotFinite}) /\ Len(s) >= Len(c)
    BY <1>1, <2>1 DEF Scores, c, s
  <2>3. /\ Len(c) \in Nat /\ DOMAIN c = 1 .. Len(c)
        /\ \A i \in DOMAIN c : s[i] \in Int \union {NotFinite}
    BY <2>2
  <2>4. QED
    BY <2>1, <2>3 DEF c, s
<1>4. QED
  BY <1>2, <1>3, QuestionsAssumption

LEMMA FilteredIsTheLoop ==
  ASSUME NEW q \in Questions, NEW room \in Nat, Refusal(q) = "Ok"
  PROVE  \E pass :
           /\ FilterLoop(q, room, pass)
           /\ Filtered(q, room) =
                [phase |-> "filtered", choice |-> q,
                 required |-> pass[Len(q.candidates)].required,
                 output   |-> pass[Len(q.candidates)].output,
                 status   |-> IF pass[Len(q.candidates)].required > room THEN "OutputTooSmall"
                                                                         ELSE "Ok"]
<1> DEFINE n == Len(q.candidates)
           Loop(f) == f = [i \in 0..n |->
                        IF i = 0 THEN [required |-> 0, output |-> [k \in 1..room |-> 0]]
                        ELSE IF ~Fits(q, i) THEN f[i - 1]
                        ELSE [required |-> f[i - 1].required + 1,
                              output   |-> IF f[i - 1].required < room
                                           THEN [f[i - 1].output EXCEPT ![f[i - 1].required + 1] = i]
                                           ELSE f[i - 1].output]]
           Next1(done, i) == IF Fits(q, i) THEN Taken(done, room, i) ELSE done
           V == Progress(room)
           step == [i \in 1..n |-> [done \in V |-> Next1(done, i)]]
           none == [required |-> 0, output |-> [k \in 1..room |-> 0]]
           pass == CHOOSE f : Loop(f)
<1>1. n \in Nat
  BY CandidatesCount
<1>2. Filtered(q, room) =
        [phase |-> "filtered", choice |-> q, required |-> pass[n].required,
         output |-> pass[n].output,
         status |-> IF pass[n].required > room THEN "OutputTooSmall" ELSE "Ok"]
  BY DEF Filtered
<1> HIDE DEF n, pass
<1>3. \A f : Loop(f) <=> f = [i \in 0..n |-> IF i = 0 THEN none ELSE Next1(f[i - 1], i)]
  BY DEF Taken
<1> HIDE DEF Loop
<1>4. ASSUME NEW done \in V, NEW i \in 1..n PROVE Next1(done, i) \in V
  BY <1>1, TakenTyped
<1>5. none \in V
  BY DEF Progress
<1> HIDE DEF Next1, none, V
<1>6. \A i \in 1..n : \A v \in V : step[i][v] \in V
  BY <1>4
<1> HIDE DEF step
<1>7. PICK f : Computes(n, V, none, step, f)
  BY <1>1, <1>5, <1>6, RecursionExists DEF Loops
<1>8. Loop(f)
  <2>1. ASSUME NEW i \in 1..n PROVE f[i] = Next1(f[i-1], i)
    <3>1. f[i-1] \in V
      BY <1>1, <1>7 DEF Computes
    <3>2. QED
      BY <1>7, <3>1 DEF Computes, step
  <2>2. \A i \in 0..n : f[i] = IF i = 0 THEN none ELSE Next1(f[i - 1], i)
    BY <1>1, <1>7, <2>1 DEF Computes
  <2>3. f = [i \in 0..n |-> IF i = 0 THEN none ELSE Next1(f[i - 1], i)]
    BY <1>7, <2>2 DEF Computes
  <2>4. QED
    BY <1>3, <2>3
<1>9. Loop(pass)
  BY <1>8 DEF pass
<1>10. pass = [i \in 0..n |-> IF i = 0 THEN none ELSE Next1(pass[i - 1], i)]
  BY <1>3, <1>9
<1>11. pass[0] = none /\ \A i \in 1..n : pass[i] = Next1(pass[i - 1], i)
  BY <1>1, <1>10
<1> DEFINE P == {i \in 0..n : pass[i] \in V}
<1>12. 0 \in P
  BY <1>1, <1>5, <1>11
<1>13. ASSUME NEW i \in 1..n, i - 1 \in P PROVE i \in P
  <2>1. i \in 0..n /\ pass[i] = Next1(pass[i - 1], i)
    BY <1>1, <1>11
  <2>2. pass[i - 1] \in V
    BY <1>13
  <2>3. QED
    BY <1>4, <2>1, <2>2
<1>14. \A i \in 0..n : i \in P
  <2> HIDE DEF P
  <2>1. \A i \in 1..n : i - 1 \in P => i \in P
    BY <1>13
  <2>2. QED
    BY <1>1, <1>12, <2>1, InductionUpTo
<1>15. pass \in [0..n -> V]
  <2>1. pass = [i \in 0..n |-> pass[i]]
    BY <1>10
  <2>2. QED
    BY <1>14, <2>1
<1>16. FilterLoop(q, room, pass)
  BY <1>11, <1>15 DEF FilterLoop, n, none, Next1, V
<1>17. QED
  BY <1>2, <1>16 DEF n

\* What fits is counted alike whatever the room.
LEMMA CountIgnoresRoom ==
  ASSUME NEW q \in Questions, NEW room \in Nat, NEW more \in Nat,
         NEW f, FilterLoop(q, room, f), NEW g, FilterLoop(q, more, g)
  PROVE  f[Len(q.candidates)].required = g[Len(q.candidates)].required
<1> DEFINE n == Len(q.candidates)
           P == {i \in 0..n : f[i].required = g[i].required}
<1>1. n \in Nat
  BY CandidatesCount
<1>2. /\ f[0].required = 0 /\ g[0].required = 0
      /\ \A i \in 1..n :
           /\ f[i].required = IF Fits(q, i) THEN f[i-1].required + 1 ELSE f[i-1].required
           /\ g[i].required = IF Fits(q, i) THEN g[i-1].required + 1 ELSE g[i-1].required
  <2>1. \A done, r, i : Taken(done, r, i).required = done.required + 1
    BY DEF Taken
  <2>2. /\ f[0].required = 0
        /\ \A i \in 1..n : f[i] = IF Fits(q, i) THEN Taken(f[i - 1], room, i) ELSE f[i - 1]
    BY DEF FilterLoop
  <2>3. /\ g[0].required = 0
        /\ \A i \in 1..n : g[i] = IF Fits(q, i) THEN Taken(g[i - 1], more, i) ELSE g[i - 1]
    BY DEF FilterLoop
  <2> HIDE DEF n
  <2>4. QED
    BY <2>1, <2>2, <2>3
<1> HIDE DEF n
<1>3. 0 \in P
  BY <1>1, <1>2
<1>4. \A i \in 1..n : i - 1 \in P => i \in P
  BY <1>1, <1>2
<1>5. n \in P
  <2> HIDE DEF P
  <2>1. QED
    BY <1>1, <1>3, <1>4, InductionUpTo
<1>6. QED
  BY <1>5 DEF n

\* What has been written after i candidates: the first of those that fit, in
\* their order, all of them where there is room; and whether all fit.
WrittenSoFar(q, room, done, i) ==
  /\ done.required \in 0..i
  /\ \A k \in 1 .. done.required : k <= room =>
       /\ done.output[k] \in 1..i /\ Fits(q, done.output[k])
       /\ done.required = i => done.output[k] = k
  /\ \A k, l \in 1 .. done.required : k < l /\ l <= room => done.output[k] < done.output[l]
  /\ done.required <= room =>
       \A j \in 1..i : Fits(q, j) => \E k \in 1 .. done.required : done.output[k] = j
  /\ done.required = i <=> \A j \in 1..i : Fits(q, j)

LEMMA TakenKeeps ==
  ASSUME NEW q, NEW room \in Nat, NEW done \in Progress(room), NEW i \in Nat \ {0},
         WrittenSoFar(q, room, done, i - 1)
  PROVE  WrittenSoFar(q, room, IF Fits(q, i) THEN Taken(done, room, i) ELSE done, i)
<1> DEFINE r == done.required
           out == done.output
           fits(j) == Fits(q, j)
<1>1. r \in Nat /\ out \in [1..room -> Nat] /\ i \in Nat /\ i - 1 \in Nat
  BY DEF Progress
<1>2. /\ r \in 0 .. i-1
      /\ \A k \in 1..r : k <= room =>
           /\ out[k] \in 1 .. i-1 /\ fits(out[k])
           /\ r = i - 1 => out[k] = k
      /\ \A k, l \in 1..r : k < l /\ l <= room => out[k] < out[l]
      /\ r <= room => \A j \in 1 .. i-1 : fits(j) => \E k \in 1..r : out[k] = j
      /\ r = i - 1 <=> \A j \in 1 .. i-1 : fits(j)
  BY DEF WrittenSoFar
<1>3. \A j \in 1..i : j \in 1 .. i-1 \/ j = i
  BY <1>1
<1>4. CASE ~Fits(q, i)
  <2> HIDE DEF r, out, fits
  <2>1. ~fits(i)
    BY <1>4 DEF fits
  <2>2. /\ r \in 0..i
        /\ \A k \in 1..r : k <= room =>
             /\ out[k] \in 1..i /\ fits(out[k])
             /\ r = i => out[k] = k
    BY <1>1, <1>2
  <2>3. r <= room => \A j \in 1..i : fits(j) => \E k \in 1..r : out[k] = j
    BY <1>2, <1>3, <2>1
  <2>4. r = i <=> \A j \in 1..i : fits(j)
    <3>1. r # i
      BY <1>1, <1>2
    <3>2. i \in 1..i
      BY <1>1
    <3>3. QED
      BY <2>1, <3>1, <3>2
  <2>5. \A k, l \in 1..r : k < l /\ l <= room => out[k] < out[l]
    BY <1>2
  <2>6. QED
    BY <1>4, <2>2, <2>3, <2>4, <2>5 DEF WrittenSoFar, r, out, fits
<1>5. CASE Fits(q, i)
  <2> DEFINE after == Taken(done, room, i)
             now == after.output
  <2>1. after.required = r + 1
    BY DEF Taken
  <2>2. /\ \A k \in 1..r : k <= room => now[k] = out[k]
        /\ r + 1 <= room => now[r + 1] = i
    <3>1. now = IF r < room THEN [out EXCEPT ![r + 1] = i] ELSE out
      BY DEF Taken
    <3> HIDE DEF now, after, r, out
    <3>2. \A k \in 1..r : k <= room => k \in 1..room /\ k # r + 1
      BY <1>1
    <3>3. r + 1 <= room => r < room /\ r + 1 \in 1..room
      BY <1>1
    <3>4. QED
      BY <1>1, <3>1, <3>2, <3>3
  <2> HIDE DEF now
  <2> HIDE DEF after, r, out, fits
  <2>3. fits(i)
    BY <1>5 DEF fits
  <2>4. \A k \in 1 .. r+1 : k \in 1..r \/ k = r + 1
    BY <1>1
  <2>5. \A k \in 1 .. r+1 : k <= room =>
             /\ now[k] \in 1..i /\ fits(now[k])
             /\ r + 1 = i => now[k] = k
    <3> TAKE k \in 1 .. r+1
    <3> HAVE k <= room
    <3>1. CASE k \in 1..r
      BY <1>1, <1>2, <2>2, <3>1
    <3>2. CASE k = r + 1
      BY <1>1, <2>2, <2>3, <3>2
    <3>3. QED
      BY <2>4, <3>1, <3>2
  <2>6. \A k, l \in 1 .. r+1 : k < l /\ l <= room => now[k] < now[l]
    <3> TAKE k, l \in 1 .. r+1
    <3> HAVE k < l /\ l <= room
    <3>1. k \in 1..r /\ k <= room /\ now[k] = out[k] /\ out[k] \in 1 .. i-1
      BY <1>1, <1>2, <2>2
    <3>2. CASE l \in 1..r
      BY <1>2, <2>2, <3>1, <3>2
    <3>3. CASE l = r + 1
      BY <1>1, <2>2, <3>1, <3>3
    <3>4. QED
      BY <2>4, <3>2, <3>3
  <2>7. r + 1 <= room => \A j \in 1..i : fits(j) => \E k \in 1 .. r+1 : now[k] = j
    <3> HAVE r + 1 <= room
    <3> TAKE j \in 1..i
    <3> HAVE fits(j)
    <3>1. CASE j = i
      BY <1>1, <2>2, <3>1
    <3>2. CASE j \in 1 .. i-1
      <4>1. PICK k \in 1..r : out[k] = j
        BY <1>1, <1>2, <3>2
      <4>2. k \in 1 .. r+1 /\ k <= room
        BY <1>1
      <4>3. QED
        BY <2>2, <4>1, <4>2
    <3>3. QED
      BY <1>3, <3>1, <3>2
  <2>8. r + 1 = i <=> \A j \in 1..i : fits(j)
    <3>1. r + 1 = i <=> r = i - 1
      BY <1>1
    <3>2. (\A j \in 1..i : fits(j)) <=> (\A j \in 1 .. i-1 : fits(j))
      BY <1>1, <1>3, <2>3
    <3>3. QED
      BY <1>2, <3>1, <3>2
  <2>9. r + 1 \in 0..i
    BY <1>1, <1>2
  <2>10. QED
    BY <1>5, <2>1, <2>5, <2>6, <2>7, <2>8, <2>9 DEF WrittenSoFar, now, after, fits
<1>6. QED
  BY <1>4, <1>5

LEMMA FilterWrites ==
  ASSUME NEW q \in Questions, NEW room \in Nat, NEW pass, FilterLoop(q, room, pass)
  PROVE  WrittenSoFar(q, room, pass[Len(q.candidates)], Len(q.candidates))
<1> DEFINE n == Len(q.candidates)
           P == {i \in 0..n : WrittenSoFar(q, room, pass[i], i)}
<1>1. n \in Nat
  BY CandidatesCount
<1>2. /\ \A i \in 0..n : pass[i] \in Progress(room)
      /\ pass[0] = [required |-> 0, output |-> [k \in 1..room |-> 0]]
      /\ \A i \in 1..n : pass[i] = IF Fits(q, i) THEN Taken(pass[i-1], room, i) ELSE pass[i-1]
  BY DEF FilterLoop
<1> HIDE DEF n
<1>3. 0 \in P
  <2>1. pass[0].required = 0
    BY <1>2
  <2>2. QED
    BY <1>1, <2>1 DEF WrittenSoFar
<1>4. ASSUME NEW i \in 1..n, i - 1 \in P PROVE i \in P
  <2>1. i \in Nat \ {0} /\ i \in 0..n /\ i - 1 \in 0..n
    BY <1>1
  <2>2. WrittenSoFar(q, room, pass[i-1], i - 1) /\ pass[i-1] \in Progress(room)
    BY <1>2, <1>4, <2>1
  <2>3. QED
    BY <1>2, <2>1, <2>2, TakenKeeps
<1>5. n \in P
  <2> HIDE DEF P
  <2>1. \A i \in 1..n : i - 1 \in P => i \in P
    BY <1>4
  <2>2. QED
    BY <1>1, <1>3, <2>1, InductionUpTo
<1>6. QED
  BY <1>5 DEF n

\* Unsigned differences and all: a mask can be placed where every cell of the
\* footprint is on the grid, and free where it is needed.
LEMMA SuitableFits ==
  ASSUME NEW q \in Questions, Refusal(q) = "Ok"
  PROVE  Suitable(q) = {i \in DOMAIN q.candidates : Fits(q, i)}
<1>1. CASE q.kind = "target"
  BY <1>1 DEF Suitable, Fits
<1>2. CASE q.kind # "target"
  <2>1. q \in SiteQuestion /\ q.kind = "site"
    BY <1>2, QuestionsAssumption DEF TargetQuestion, SiteQuestion
  <2> DEFINE W == q.grid.width
             H == q.grid.height
             w == q.footprint.width
             h == q.footprint.height
             Free(p, a) == Cell(q.footprint, p[1], p[2]) # 0
                             => Cell(q.grid, a.x + p[1], a.y + p[2]) # 0
  <2>2. ShapeFits(q.grid) /\ ShapeFits(q.footprint)
    BY <2>1 DEF Refusal
  <2>3. /\ W \in 1 .. Word - 1 /\ H \in 1 .. Word - 1
        /\ w \in 1 .. Word - 1 /\ h \in 1 .. Word - 1
    <3>1. q.grid \in GridView /\ q.footprint \in GridView
      BY <2>1 DEF SiteQuestion
    <3>2. \A g \in GridView : g.width \in 0 .. Word - 1 /\ g.height \in 0 .. Word - 1
      BY DEF GridView
    <3>3. QED
      BY <2>2, <3>1, <3>2, WordAssumption DEF ShapeFits
  <2>4. ASSUME NEW i \in DOMAIN q.candidates
        PROVE  Fits(q, i) <=> \A p \in (0 .. w - 1) \X (0 .. h - 1) : OnGrid(q, i, p)
    <3> DEFINE a == q.candidates[i]
    <3>1. a.x \in Nat /\ a.y \in Nat
      <4> DEFINE Anchor == [x : 0 .. Word - 1, y : 0 .. Word - 1]
      <4>1. \A b \in Anchor : b.x \in Nat /\ b.y \in Nat
        BY WordAssumption
      <4> HIDE DEF Anchor
      <4>2. q.candidates \in Seq(Anchor)
        BY <2>1 DEF SiteQuestion, Anchor
      <4>3. a \in Anchor
        BY <2>4, <4>2
      <4>4. QED
        BY <4>1, <4>3
    <3>2. Fits(q, i) <=>
            /\ w <= W /\ h <= H /\ a.x <= (W - w) % Word /\ a.y <= (H - h) % Word
            /\ \A x \in 0 .. w - 1, y \in 0 .. h - 1 :
                 Cell(q.footprint, x, y) # 0 => Cell(q.grid, a.x + x, a.y + y) # 0
      BY <1>2, <2>2 DEF Fits, CanPlaceMask
    <3>3. \A p : OnGrid(q, i, p) <=> a.x + p[1] < W /\ a.y + p[2] < H /\ Free(p, a)
      BY DEF OnGrid
    <3> HIDE DEF a, W, H, w, h
    <3>4. w <= W => (W - w) % Word = W - w
      BY <2>3, WordAssumption
    <3>5. h <= H => (H - h) % Word = H - h
      BY <2>3, WordAssumption
    <3>6. (\A p \in (0 .. w - 1) \X (0 .. h - 1) : Free(p, a))
            <=> \A x \in 0 .. w - 1, y \in 0 .. h - 1 :
                  Cell(q.footprint, x, y) # 0 => Cell(q.grid, a.x + x, a.y + y) # 0
      <4>1. \A p \in (0 .. w - 1) \X (0 .. h - 1) : p[1] \in 0 .. w - 1 /\ p[2] \in 0 .. h - 1
        OBVIOUS
      <4>2. \A x \in 0 .. w - 1, y \in 0 .. h - 1 :
              <<x, y>> \in (0 .. w - 1) \X (0 .. h - 1) /\ <<x, y>>[1] = x /\ <<x, y>>[2] = y
        OBVIOUS
      <4>3. QED
        BY <4>1, <4>2
    <3> HIDE DEF Free
    <3>7. (\A p \in (0 .. w - 1) \X (0 .. h - 1) : a.x + p[1] < W /\ a.y + p[2] < H)
            <=> a.x + w <= W /\ a.y + h <= H
      <4>1. ASSUME \A p \in (0 .. w - 1) \X (0 .. h - 1) : a.x + p[1] < W /\ a.y + p[2] < H
            PROVE  a.x + w <= W /\ a.y + h <= H
        <5>1. <<w - 1, h - 1>> \in (0 .. w - 1) \X (0 .. h - 1)
          BY <2>3
        <5>2. a.x + (w - 1) < W /\ a.y + (h - 1) < H
          BY <4>1, <5>1
        <5>3. QED
          BY <2>3, <3>1, <5>2
      <4>2. ASSUME a.x + w <= W /\ a.y + h <= H,
                   NEW p \in (0 .. w - 1) \X (0 .. h - 1)
            PROVE  a.x + p[1] < W /\ a.y + p[2] < H
        <5>1. p[1] \in 0 .. w - 1 /\ p[2] \in 0 .. h - 1
          OBVIOUS
        <5>2. QED
          BY <2>3, <3>1, <4>2, <5>1
      <4>3. QED
        BY <4>1, <4>2
    <3>8. w <= W /\ h <= H /\ a.x <= W - w /\ a.y <= H - h <=> a.x + w <= W /\ a.y + h <= H
      BY <2>3, <3>1
    <3>9. QED
      BY <3>2, <3>3, <3>4, <3>5, <3>6, <3>7, <3>8
  <2>5. QED
    BY <1>2, <2>4 DEF Suitable
<1>3. QED
  BY <1>1, <1>2

-----------------------------------------------------------------------------
(* The selection                                                           *)

\* Candidate j takes part.
Counts(scores, eligible, j) == ~(eligible # <<>> /\ ~eligible[j]) /\ scores[j] # NotFinite

Ahead(policy, s, t) == IF policy.goal = "Maximize" THEN s > t ELSE s < t

\* b is the best of the first i candidates, 0 when none of them takes part.
BestOfFirst(scores, eligible, policy, b, i) ==
  /\ b \in 0..i
  /\ b = 0 => \A j \in 1..i : ~Counts(scores, eligible, j)
  /\ b # 0 =>
       /\ Counts(scores, eligible, b)
       /\ \A j \in 1..i : j # b /\ Counts(scores, eligible, j) =>
            \/ Ahead(policy, scores[b], scores[j])
            \/ scores[b] = scores[j] /\ (IF policy.tie = "Last" THEN j < b ELSE b < j)

BetterOf(scores, eligible, policy, b, i) ==
  IF ~Counts(scores, eligible, i) THEN b
  ELSE IF \/ b = 0
          \/ Ahead(policy, scores[i], scores[b])
          \/ scores[i] = scores[b] /\ policy.tie = "Last" THEN i
  ELSE b

LEMMA BetterKeeps ==
  ASSUME NEW scores, NEW eligible, NEW policy, NEW i \in Nat \ {0},
         \A j \in 1..i : scores[j] \in Int \union {NotFinite},
         NEW b, BestOfFirst(scores, eligible, policy, b, i - 1)
  PROVE  BestOfFirst(scores, eligible, policy, BetterOf(scores, eligible, policy, b, i), i)
<1> DEFINE in(j) == Counts(scores, eligible, j)
           Beats(c, j) == \/ Ahead(policy, scores[c], scores[j])
                          \/ scores[c] = scores[j] /\ (IF policy.tie = "Last" THEN j < c ELSE c < j)
           c == BetterOf(scores, eligible, policy, b, i)
<1>1. /\ b \in 0 .. i-1
      /\ b = 0 => \A j \in 1 .. i-1 : ~in(j)
      /\ b # 0 => in(b) /\ \A j \in 1 .. i-1 : j # b /\ in(j) => Beats(b, j)
  BY DEF BestOfFirst
<1>2. \A j \in 1..i : j \in 1 .. i-1 \/ j = i
  OBVIOUS
<1>3. \A j \in 1..i : in(j) => scores[j] \in Int
  BY DEF Counts
<1>4. /\ c \in 0..i
      /\ c = 0 => \A j \in 1..i : ~in(j)
      /\ c # 0 => in(c) /\ \A j \in 1..i : j # c /\ in(j) => Beats(c, j)
  <2>1. CASE ~in(i)
    <3>1. c = b
      BY <2>1 DEF BetterOf
    <3> HIDE DEF in, Beats, c
    <3>2. QED
      BY <1>1, <1>2, <2>1, <3>1
  <2>2. CASE in(i) /\ b = 0
    <3>1. c = i
      BY <2>2 DEF BetterOf
    <3> HIDE DEF in, Beats, c
    <3>2. QED
      BY <1>1, <1>2, <2>2, <3>1
  <2>3. CASE in(i) /\ b # 0
    <3>1. b \in 1..i /\ b < i /\ in(b) /\ scores[b] \in Int /\ scores[i] \in Int
      BY <1>1, <1>3, <2>3
    <3> DEFINE better == \/ Ahead(policy, scores[i], scores[b])
                         \/ scores[i] = scores[b] /\ policy.tie = "Last"
    <3>2. CASE better
      <4>1. c = i
        BY <2>3, <3>2 DEF BetterOf
      <4>2. ASSUME NEW j \in 1 .. i-1, in(j) PROVE Beats(i, j)
        <5>1. scores[j] \in Int /\ j < i
          BY <1>3, <4>2
        <5>2. j = b \/ Beats(b, j)
          BY <1>1, <2>3, <4>2
        <5>3. QED
          BY <3>1, <3>2, <5>1, <5>2 DEF Ahead
      <4> HIDE DEF in, Beats, c
      <4>3. QED
        BY <1>2, <2>3, <4>1, <4>2
    <3>3. CASE ~better
      <4>1. c = b
        BY <2>3, <3>3 DEF BetterOf
      <4>2. Beats(b, i)
        BY <3>1, <3>3 DEF Ahead
      <4> HIDE DEF in, Beats, c
      <4>3. QED
        BY <1>1, <1>2, <2>3, <3>1, <4>1, <4>2
    <3> HIDE DEF in, Beats, c, better
    <3>4. QED
      BY <3>2, <3>3
  <2>4. QED
    BY <2>1, <2>2, <2>3
<1>5. QED
  BY <1>4 DEF BestOfFirst

LEMMA SelectsTheBest ==
  ASSUME NEW m \in Nat, NEW scores, Len(scores) = m,
         \A j \in 1..m : scores[j] \in Int \union {NotFinite},
         NEW eligible, eligible # <<>> => Len(eligible) = m, NEW policy
  PROVE  \E b \in 0..m :
           /\ SelectBestScore(scores, eligible, policy) =
                [status |-> IF b = 0 THEN "NoCandidate" ELSE "Ok", index |-> b]
           /\ BestOfFirst(scores, eligible, policy, b, m)
<1> DEFINE Beats(score, best) ==
             \/ IF policy.goal = "Maximize" THEN score > best ELSE score < best
             \/ score = best /\ policy.tie = "Last"
           Body(f, i) ==
             IF i = 0 THEN 0
             ELSE IF eligible # <<>> /\ ~eligible[i] THEN f[i - 1]
             ELSE IF scores[i] = NotFinite THEN f[i - 1]
             ELSE IF f[i - 1] = 0 \/ Beats(scores[i], scores[f[i - 1]]) THEN i
             ELSE f[i - 1]
           Loop(f) == f = [i \in 0 .. Len(scores) |-> Body(f, i)]
           Next1(b, i) == BetterOf(scores, eligible, policy, b, i)
           V == 0..m
           step == [i \in 1..m |-> [b \in V |-> Next1(b, i)]]
           pass == CHOOSE f : Loop(f)
<1>1. SelectBestScore(scores, eligible, policy) =
        [status |-> IF pass[m] = 0 THEN "NoCandidate" ELSE "Ok", index |-> pass[m]]
  BY DEF SelectBestScore
<1> HIDE DEF pass
<1>2. \A f : Loop(f) <=> f = [i \in 0..m |-> IF i = 0 THEN 0 ELSE Next1(f[i - 1], i)]
  <2>1. \A f, i : Body(f, i) = IF i = 0 THEN 0 ELSE Next1(f[i - 1], i)
    BY DEF BetterOf, Counts, Ahead
  <2> HIDE DEF Body, Next1
  <2>2. QED
    BY <2>1
<1> HIDE DEF Loop
<1>3. ASSUME NEW b \in V, NEW i \in 1..m PROVE Next1(b, i) \in V
  BY DEF BetterOf
<1> HIDE DEF Next1
<1>4. 0 \in V
  OBVIOUS
<1> HIDE DEF V
<1>5. \A i \in 1..m : \A b \in V : step[i][b] \in V
  BY <1>3
<1> HIDE DEF step
<1>6. PICK f : Computes(m, V, 0, step, f)
  BY <1>4, <1>5, RecursionExists DEF Loops
<1>7. Loop(f)
  <2>1. ASSUME NEW i \in 1..m PROVE f[i] = Next1(f[i-1], i)
    <3>1. f[i-1] \in V
      BY <1>6 DEF Computes
    <3>2. QED
      BY <1>6, <3>1 DEF Computes, step
  <2>2. \A i \in 0..m : f[i] = IF i = 0 THEN 0 ELSE Next1(f[i - 1], i)
    BY <1>6, <2>1 DEF Computes
  <2>3. f = [i \in 0..m |-> IF i = 0 THEN 0 ELSE Next1(f[i - 1], i)]
    BY <1>6, <2>2 DEF Computes
  <2>4. QED
    BY <1>2, <2>3
<1>8. Loop(pass)
  BY <1>7 DEF pass
<1>9. pass = [i \in 0..m |-> IF i = 0 THEN 0 ELSE Next1(pass[i - 1], i)]
  BY <1>2, <1>8
<1>10. pass[0] = 0 /\ \A i \in 1..m : pass[i] = Next1(pass[i - 1], i)
  BY <1>9
<1> DEFINE P == {i \in 0..m : BestOfFirst(scores, eligible, policy, pass[i], i)}
<1>11. 0 \in P
  BY <1>10 DEF BestOfFirst
<1>12. ASSUME NEW i \in 1..m, i - 1 \in P PROVE i \in P
  <2>1. i \in 0..m /\ i \in Nat \ {0} /\ \A j \in 1..i : scores[j] \in Int \union {NotFinite}
    OBVIOUS
  <2>2. BestOfFirst(scores, eligible, policy, pass[i - 1], i - 1)
    BY <1>12
  <2>3. pass[i] = BetterOf(scores, eligible, policy, pass[i - 1], i)
    BY <1>10 DEF Next1
  <2>4. QED
    BY <2>1, <2>2, <2>3, BetterKeeps
<1>13. m \in P
  <2> HIDE DEF P
  <2>1. \A i \in 1..m : i - 1 \in P => i \in P
    BY <1>12
  <2>2. \A i \in 0..m : i \in P
    BY <1>11, <2>1, InductionUpTo
  <2>3. QED
    BY <2>2
<1>14. BestOfFirst(scores, eligible, policy, pass[m], m) /\ pass[m] \in 0..m
  BY <1>13 DEF BestOfFirst
<1>15. QED
  BY <1>1, <1>14

-----------------------------------------------------------------------------
(* The choice                                                              *)

\* What Select makes of a filter's result.
SelectionOf(d) ==
  LET q        == d.choice
      scores   == [k \in 1 .. d.required |-> q.scores[d.output[k]]]
      eligible == CASE q.mask = "none" -> <<>>
                    [] q.mask = "filtered" ->
                         [k \in 1 .. d.required |-> Eligible(q, d.output[k])]
                    [] q.mask = "all" -> [i \in DOMAIN q.candidates |-> Eligible(q, i)]
      best     == SelectBestScore(scores, eligible, q.policy)
  IN  [phase |-> "chosen", choice |-> q, status |-> best.status,
       chosen |-> IF best.status = "Ok" THEN d.output[best.index] ELSE 0]

ChosenIsBest(d) ==
  LET q == d.choice
      c == d.chosen
  IN  CASE d.status = "Ok" ->
             /\ c \in Proper(q)
             /\ \A i \in Proper(q) \ {c} :
                  \/ IF q.policy.goal = "Maximize" THEN q.scores[c] > q.scores[i]
                                                   ELSE q.scores[c] < q.scores[i]
                  \/ q.scores[c] = q.scores[i] /\ (IF q.policy.tie = "Last" THEN i < c ELSE c < i)
        [] d.status = "NoCandidate" -> Proper(q) = {}
        [] OTHER -> q.mask = "all" /\ Suitable(q) # DOMAIN q.candidates

\* A complete filter's output lists what is suitable, in order.
LEMMA FilterLists ==
  ASSUME NEW q \in Questions, NEW room \in Nat, Filtered(q, room).status = "Ok"
  PROVE  LET d == Filtered(q, room)
         IN  /\ d.choice = q /\ d.required \in Nat
             /\ \A k \in 1 .. d.required : d.output[k] \in Suitable(q)
             /\ \A k, l \in 1 .. d.required : k < l => d.output[k] < d.output[l]
             /\ \A j \in Suitable(q) : \E k \in 1 .. d.required : d.output[k] = j
             /\ d.required = Len(q.candidates) <=> Suitable(q) = DOMAIN q.candidates
             /\ d.required = Len(q.candidates) => \A k \in 1 .. d.required : d.output[k] = k
<1> DEFINE n == Len(q.candidates)
           d == Filtered(q, room)
<1>1. Refusal(q) = "Ok"
  <2>1. Refusal(q) # "Ok" => Filtered(q, room).status = Refusal(q)
    BY DEF Filtered
  <2>2. QED
    BY <2>1
<1>2. PICK pass :
        /\ FilterLoop(q, room, pass)
        /\ d = [phase |-> "filtered", choice |-> q,
                required |-> pass[n].required, output |-> pass[n].output,
                status |-> IF pass[n].required > room THEN "OutputTooSmall" ELSE "Ok"]
  BY <1>1, FilteredIsTheLoop
<1>3. WrittenSoFar(q, room, pass[n], n)
  BY <1>2, FilterWrites
<1>4. n \in Nat /\ DOMAIN q.candidates = 1..n
  BY CandidatesCount
<1>5. Suitable(q) = {i \in 1..n : Fits(q, i)}
  BY <1>1, <1>4, SuitableFits
<1> DEFINE r == pass[n].required
           out == pass[n].output
<1>6. d.choice = q /\ d.required = r /\ d.output = out
  BY <1>2
<1>7. d.status = IF r > room THEN "OutputTooSmall" ELSE "Ok"
  BY <1>2
<1> HIDE DEF d, n
<1>8. /\ r \in 0..n
      /\ \A k \in 1..r : k <= room =>
           out[k] \in 1..n /\ Fits(q, out[k]) /\ (r = n => out[k] = k)
      /\ \A k, l \in 1..r : k < l /\ l <= room => out[k] < out[l]
      /\ r <= room => \A j \in 1..n : Fits(q, j) => \E k \in 1..r : out[k] = j
      /\ r = n <=> \A j \in 1..n : Fits(q, j)
  BY <1>3 DEF WrittenSoFar
<1> HIDE DEF r, out
<1>9. r <= room
  BY <1>4, <1>7, <1>8 DEF d
<1>10. \A k \in 1..r : k <= room
  BY <1>4, <1>8, <1>9
<1>11. /\ \A k \in 1..r : out[k] \in Suitable(q)
       /\ \A k, l \in 1..r : k < l => out[k] < out[l]
       /\ \A j \in Suitable(q) : \E k \in 1..r : out[k] = j
       /\ r = n => \A k \in 1..r : out[k] = k
  BY <1>5, <1>8, <1>9, <1>10
<1>12. r = n <=> Suitable(q) = 1..n
  BY <1>5, <1>8
<1>13. r \in Nat
  BY <1>4, <1>8
<1>14. QED
  BY <1>4, <1>6, <1>11, <1>12, <1>13 DEF d, n

LEMMA SelectChooses ==
  ASSUME NEW q \in Questions, NEW room \in Nat, Filtered(q, room).status = "Ok"
  PROVE  ChosenIsBest(SelectionOf(Filtered(q, room)))
<1> DEFINE d == Filtered(q, room)
           n == Len(q.candidates)
           r == d.required
           out == d.output
           scores == [k \in 1..r |-> q.scores[out[k]]]
           mask == [k \in 1..r |-> Eligible(q, out[k])]
           maskAll == [i \in DOMAIN q.candidates |-> Eligible(q, i)]
           eligible == CASE q.mask = "none" -> <<>>
                         [] q.mask = "filtered" -> mask
                         [] q.mask = "all" -> maskAll
           best == SelectBestScore(scores, eligible, q.policy)
           chosen == SelectionOf(d)
<1>1. /\ d.choice = q /\ r \in Nat
      /\ \A k \in 1..r : out[k] \in Suitable(q)
      /\ \A k, l \in 1..r : k < l => out[k] < out[l]
      /\ \A j \in Suitable(q) : \E k \in 1..r : out[k] = j
      /\ r = n <=> Suitable(q) = DOMAIN q.candidates
      /\ r = n => \A k \in 1..r : out[k] = k
  BY FilterLists
<1>2. /\ n \in Nat /\ DOMAIN q.candidates = 1..n
      /\ \A i \in 1..n : q.scores[i] \in Int \union {NotFinite}
      /\ q.mask \in {"none", "filtered", "all"}
  BY CandidatesCount
<1>3. chosen = [phase |-> "chosen", choice |-> q, status |-> best.status,
                chosen |-> IF best.status = "Ok" THEN out[best.index] ELSE 0]
  BY <1>1 DEF SelectionOf
<1> HIDE DEF d, n, r, out, chosen
<1>4. Suitable(q) \subseteq 1..n
  BY <1>2 DEF Suitable
<1>5. /\ Len(scores) = r
      /\ \A k \in 1..r : scores[k] = q.scores[out[k]]
      /\ \A k \in 1..r : scores[k] \in Int \union {NotFinite}
  BY <1>1, <1>2, <1>4
<1>6. Len(mask) = r /\ \A k \in 1..r : mask[k] <=> Eligible(q, out[k])
  BY <1>1
<1>7. Len(maskAll) = n /\ \A i \in 1..n : maskAll[i] <=> Eligible(q, i)
  BY <1>2
<1>8. Len(<<>>) = 0
  OBVIOUS
<1> HIDE DEF scores, mask, maskAll
<1>9. CASE q.mask = "all" /\ r # n
  <2>1. eligible = maskAll
    BY <1>9
  <2>2. n # 0
    <3>1. n = 0 => \A k \in 1..r : FALSE
      BY <1>1, <1>4
    <3>2. QED
      BY <1>1, <1>9, <3>1
  <2>3. eligible # <<>>
    BY <1>1, <1>2, <1>7, <1>8, <2>1, <2>2
  <2> HIDE DEF eligible
  <2>4. best = [status |-> "LengthMismatch", index |-> 0]
    BY <1>5, <1>7, <1>9, <2>1, <2>3 DEF SelectBestScore
  <2>5. chosen.status = "LengthMismatch" /\ chosen.choice = q
    BY <1>3, <2>4
  <2>6. QED
    BY <1>1, <1>9, <2>5 DEF ChosenIsBest, chosen, d
<1>10. CASE ~(q.mask = "all" /\ r # n)
  <2>1. eligible # <<>> => Len(eligible) = r
    BY <1>2, <1>6, <1>7, <1>10
  <2>2. \A k \in 1..r : Counts(scores, eligible, k) <=> out[k] \in Proper(q)
    <3> TAKE k \in 1..r
    <3>1. Counts(scores, eligible, k) <=>
            q.scores[out[k]] # NotFinite /\ (q.mask # "none" => Eligible(q, out[k]))
      <4>1. CASE q.mask = "none"
        <5>1. eligible = <<>>
          BY <4>1
        <5>2. QED
          BY <1>5, <4>1, <5>1 DEF Counts
      <4>2. CASE q.mask = "filtered"
        <5>1. eligible = mask /\ mask # <<>>
          BY <1>1, <1>6, <1>8, <4>2
        <5>2. QED
          BY <1>5, <1>6, <4>2, <5>1 DEF Counts
      <4>3. CASE q.mask = "all"
        <5>1. eligible = maskAll /\ maskAll # <<>> /\ r = n /\ out[k] = k
          BY <1>1, <1>2, <1>7, <1>8, <1>10, <4>3
        <5>2. QED
          BY <1>5, <1>7, <4>3, <5>1 DEF Counts
      <4>4. QED
        BY <1>2, <4>1, <4>2, <4>3
    <3>2. QED
      BY <1>1, <3>1 DEF Proper
  <2> HIDE DEF eligible
  <2>3. PICK b \in 0..r :
          /\ best = [status |-> IF b = 0 THEN "NoCandidate" ELSE "Ok", index |-> b]
          /\ BestOfFirst(scores, eligible, q.policy, b, r)
    BY <1>1, <1>5, <2>1, SelectsTheBest
  <2>4. \A i \in Proper(q) : \E k \in 1..r : out[k] = i /\ Counts(scores, eligible, k)
    <3>1. Proper(q) \subseteq Suitable(q)
      BY DEF Proper
    <3>2. QED
      BY <1>1, <2>2, <3>1
  <2>5. CASE b = 0
    <3>1. Proper(q) = {}
      BY <2>3, <2>4, <2>5 DEF BestOfFirst
    <3>2. chosen.status = "NoCandidate" /\ chosen.choice = q
      BY <1>3, <2>3, <2>5
    <3>3. QED
      BY <3>1, <3>2 DEF ChosenIsBest, chosen, d
  <2>6. CASE b # 0
    <3>1. b \in 1..r
      BY <1>1, <2>6
    <3>2. chosen.status = "Ok" /\ chosen.choice = q /\ chosen.chosen = out[b]
      BY <1>3, <2>3, <2>6
    <3>3. out[b] \in Proper(q)
      BY <2>2, <2>3, <2>6, <3>1 DEF BestOfFirst
    <3>4. ASSUME NEW i \in Proper(q) \ {out[b]}
          PROVE  \/ IF q.policy.goal = "Maximize" THEN q.scores[out[b]] > q.scores[i]
                                                  ELSE q.scores[out[b]] < q.scores[i]
                 \/ q.scores[out[b]] = q.scores[i]
                      /\ (IF q.policy.tie = "Last" THEN i < out[b] ELSE out[b] < i)
      <4>1. PICK k \in 1..r : out[k] = i /\ Counts(scores, eligible, k)
        BY <2>4
      <4>2. k # b
        BY <3>4, <4>1
      <4>3. \/ Ahead(q.policy, scores[b], scores[k])
            \/ scores[b] = scores[k] /\ (IF q.policy.tie = "Last" THEN k < b ELSE b < k)
        BY <2>3, <2>6, <4>1, <4>2 DEF BestOfFirst
      <4>4. scores[b] = q.scores[out[b]] /\ scores[k] = q.scores[i]
        BY <1>5, <3>1, <4>1
      <4>5. (k < b => i < out[b]) /\ (b < k => out[b] < i)
        BY <1>1, <3>1, <4>1
      <4>6. QED
        BY <4>3, <4>4, <4>5 DEF Ahead
    <3>5. QED
      BY <3>2, <3>3, <3>4 DEF ChosenIsBest, chosen, d
  <2>7. QED
    BY <2>5, <2>6
<1>11. QED
  BY <1>9, <1>10

\* The decision is what a filter left, or the best of it.
ChoiceInv ==
  /\ decision.phase = "filtered" =>
       /\ decision.choice \in Questions
       /\ \E room \in Nat : decision = Filtered(decision.choice, room)
  /\ decision.phase = "chosen" => ChosenIsBest(decision)

LEMMA RetryIsEnough ==
  ASSUME NEW q \in Questions, NEW room \in Nat, Filtered(q, room).status = "OutputTooSmall"
  PROVE  /\ Filtered(q, room).required \in Nat
         /\ Filtered(q, Filtered(q, room).required).status = "Ok"
<1> DEFINE n == Len(q.candidates)
           r == Filtered(q, room).required
<1>1. Refusal(q) = "Ok"
  <2>1. Refusal(q) # "Ok" => Filtered(q, room).status = Refusal(q)
    BY DEF Filtered
  <2>2. Refusal(q) # "OutputTooSmall"
    BY DEF Refusal
  <2>3. QED
    BY <2>1, <2>2
<1>2. n \in Nat
  BY CandidatesCount
<1>3. PICK f : FilterLoop(q, room, f) /\ r = f[n].required
  <2>1. PICK f :
          /\ FilterLoop(q, room, f)
          /\ Filtered(q, room) =
               [phase |-> "filtered", choice |-> q,
                required |-> f[n].required, output |-> f[n].output,
                status |-> IF f[n].required > room THEN "OutputTooSmall" ELSE "Ok"]
    BY <1>1, FilteredIsTheLoop
  <2>2. QED
    BY <2>1
<1>4. r \in Nat
  <2>1. f[n] \in Progress(room)
    BY <1>2, <1>3 DEF FilterLoop
  <2>2. QED
    BY <1>3, <2>1 DEF Progress
<1> HIDE DEF r
<1>5. PICK g :
        /\ FilterLoop(q, r, g)
        /\ Filtered(q, r) =
             [phase |-> "filtered", choice |-> q,
              required |-> g[n].required, output |-> g[n].output,
              status |-> IF g[n].required > r THEN "OutputTooSmall" ELSE "Ok"]
  BY <1>1, <1>4, FilteredIsTheLoop
<1>6. g[n].required = r
  BY <1>3, <1>4, <1>5, CountIgnoresRoom
<1>7. Filtered(q, r).status = "Ok"
  BY <1>4, <1>5, <1>6
<1>8. QED
  BY <1>4, <1>7 DEF r

LEMMA ChoiceKept == ChoiceInv /\ [SessionNext]_sessionVars => ChoiceInv'
<1> SUFFICES ASSUME ChoiceInv, [SessionNext]_sessionVars PROVE ChoiceInv'
  OBVIOUS
<1>1. CASE Restart
  BY <1>1 DEF Restart, ChoiceInv, Undecided
<1>2. CASE Decide
  <2>1. ASSUME NEW q \in Questions, NEW room \in Nat, decision' = Filtered(q, room)
        PROVE  ChoiceInv'
    BY <2>1, FilteredShape DEF ChoiceInv
  <2>2. CASE \E q \in Questions : Filter(q)
    BY <2>1, <2>2, CandidatesCount DEF Filter
  <2>3. CASE \E battle \in Battles : Estimate(battle)
    BY <2>3 DEF Estimate, ChoiceInv
  <2>4. CASE Retry
    <3>1. PICK room \in Nat : decision = Filtered(decision.choice, room)
      BY <2>4 DEF Retry, ChoiceInv
    <3>2. decision.choice \in Questions /\ decision.status = "OutputTooSmall"
      BY <2>4 DEF Retry, ChoiceInv
    <3>3. decision.required \in Nat
      BY <3>1, <3>2, RetryIsEnough
    <3>4. QED
      BY <2>1, <2>4, <3>2, <3>3 DEF Retry
  <2>5. CASE Select
    <3>1. PICK room \in Nat : decision = Filtered(decision.choice, room)
      BY <2>5 DEF Select, ChoiceInv
    <3>2. decision.choice \in Questions /\ decision.status = "Ok"
      BY <2>5 DEF Select, ChoiceInv
    <3>3. decision' = SelectionOf(decision)
      BY <2>5 DEF Select, SelectionOf
    <3>4. ChosenIsBest(SelectionOf(decision))
      BY <3>1, <3>2, SelectChooses
    <3>5. decision'.phase = "chosen"
      BY <3>3 DEF SelectionOf
    <3>6. ChosenIsBest(decision')
      BY <3>3, <3>4
    <3>7. QED
      BY <3>5, <3>6 DEF ChoiceInv
  <2>6. CASE Forget
    BY <2>6 DEF Forget, Undecided, ChoiceInv
  <2>7. QED
    BY <1>2, <2>2, <2>3, <2>4, <2>5, <2>6 DEF Decide, FrameNext
<1>3. CASE Handshake \/ BuildTable \/ Play \/ BatchCall \/ UNCHANGED sessionVars
  BY <1>3 DEF Handshake, BuildTable, Play, BatchCall, sessionVars, ChoiceInv
<1>4. QED
  BY <1>1, <1>2, <1>3 DEF SessionNext

\* For candidates, scores, grids and footprints of any size, any first buffer
\* and any mask: what is chosen through filter, retry and selection is the best
\* of all that are suitable, by the policy's rule among equals; and one retry
\* with the size asked for is enough.
THEOREM TheBestIsChosen == SessionSpec => []ChoiceIsBest
<1>1. SessionInit => ChoiceInv
  BY DEF SessionInit, Undecided, ChoiceInv
<1>2. ChoiceInv => ChoiceIsBest
  <2> SUFFICES ASSUME ChoiceInv PROVE ChoiceIsBest
    OBVIOUS
  <2>1. decision.phase = "chosen" => ChosenIsBest(decision)
    BY DEF ChoiceInv
  <2>2. decision.phase = "filtered" /\ decision.status = "OutputTooSmall" =>
          Filtered(decision.choice, decision.required).status = "Ok"
    <3> HAVE decision.phase = "filtered" /\ decision.status = "OutputTooSmall"
    <3>1. decision.choice \in Questions
      BY DEF ChoiceInv
    <3>2. PICK room \in Nat : decision = Filtered(decision.choice, room)
      BY DEF ChoiceInv
    <3>3. QED
      BY <3>1, <3>2, RetryIsEnough
  <2>3. QED
    BY <2>1, <2>2 DEF ChoiceIsBest, ChosenIsBest
<1>3. QED
  BY <1>1, <1>2, ChoiceKept, PTL DEF SessionSpec
=============================================================================

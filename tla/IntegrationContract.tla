------------------------ MODULE IntegrationContract ------------------------
(***************************************************************************)
(* The compatibility gate between a consumer and the library it has loaded *)
(* (include/sc2opt/adapters/IntegrationContract.hpp), the same for C++,    *)
(* the C ABI and Python.  A contract is what a library says of itself, a   *)
(* requirement what a consumer was built against; capability bits are a    *)
(* set.                                                                    *)
(***************************************************************************)
EXTENDS Integers

CONSTANTS
  Empty,   \* the empty string: the consumer does not constrain the field
  Null     \* a null pointer, which the C ABI reads as the empty string

\* The statuses in the order of the tests.
IntegrationStatuses ==
  {"ApiMajorMismatch", "ApiMinorTooOld", "UnitViewAbiMismatch",
   "RegistryBuildMismatch", "RegistryDataVersionMismatch", "MissingCapability", "Ready"}

Position(status) ==
  CASE status = "ApiMajorMismatch" -> 1
    [] status = "ApiMinorTooOld" -> 2
    [] status = "UnitViewAbiMismatch" -> 3
    [] status = "RegistryBuildMismatch" -> 4
    [] status = "RegistryDataVersionMismatch" -> 5
    [] status = "MissingCapability" -> 6
    [] OTHER -> 7

Constrained(text) == text \notin {Empty, Null}

\* (fault) only the very minor version the consumer was built with will do.
CheckExactMinor(wants, contract) ==
  IF wants.major # contract.major THEN "ApiMajorMismatch"
  ELSE IF wants.minor # contract.minor THEN "ApiMinorTooOld"
  ELSE "Compatible"

CheckVersions(wants, contract) ==
  IF wants.major # contract.major THEN "ApiMajorMismatch"
  ELSE IF wants.minor > contract.minor THEN "ApiMinorTooOld"
  ELSE "Compatible"

CheckIdentity(wants, contract) ==
  IF wants.abi # contract.abi THEN "UnitViewAbiMismatch"
  ELSE IF Constrained(wants.build) /\ wants.build # contract.build
       THEN "RegistryBuildMismatch"
  ELSE IF Constrained(wants.data) /\ wants.data # contract.data
       THEN "RegistryDataVersionMismatch"
  ELSE "Compatible"

\* Missing capabilities are reported only when everything else is compatible.
CheckIntegrationCompatibility(wants, contract) ==
  LET versions == CheckVersions(wants, contract)
      identity == CheckIdentity(wants, contract)
      missing  == wants.capabilities \ contract.capabilities
  IN  IF versions # "Compatible" THEN [status |-> versions, missing |-> {}]
      ELSE IF identity # "Compatible" THEN [status |-> identity, missing |-> {}]
      ELSE [status  |-> IF missing = {} THEN "Ready" ELSE "MissingCapability",
            missing |-> missing]

\* docs/API_STABILITY.md: an additive compatible change increments the minor
\* version, a breaking one the major version, records keep their own version.
CompatibleUpgrade(old, new) ==
  /\ new.major = old.major /\ new.minor >= old.minor
  /\ new.abi = old.abi /\ new.build = old.build /\ new.data = old.data
  /\ old.capabilities \subseteq new.capabilities
=============================================================================

-------------------------- MODULE ConsumerSession --------------------------
(***************************************************************************)
(* A consumer and the library it loads, as docs/ADAPTERS.md lays it out:   *)
(* after every start the handshake decides whether the optimised edge is   *)
(* used at all; an admitted consumer builds its type table during startup  *)
(* and then, frame by frame, makes batch calls, choices and estimates; one *)
(* that is not keeps its own OFF path.                                     *)
(* Between two runs of the process the library may be another one.         *)
(***************************************************************************)
EXTENDS DenseTypeMap, BatchGeometry, FrameKernels, IntegrationContract

CONSTANTS
  Libraries,     \* contracts of the libraries that may be installed
  Requirements   \* what consumers were built against

ASSUME LibrariesAssumption ==
  Libraries \subseteq [major : Nat, minor : Nat, abi : Nat, build : STRING,
                       data : STRING, capabilities : SUBSET STRING]
ASSUME RequirementsAssumption ==
  Requirements \subseteq [major : Nat, minor : Nat, abi : Nat, build : STRING \union {Empty, Null},
                          data : STRING \union {Empty, Null}, capabilities : SUBSET STRING]

VARIABLES
  library,     \* the contract of the loaded library
  wants,       \* the requirements of this consumer
  stage,       \* loaded, startup, playing, or off
  handshake    \* the last report of the gate, or Unasked

session == <<library, wants, stage, handshake>>
table   == <<output, report, built>>
sessionVars == <<output, report, built, memory, bytes, call, decision, library, wants, stage, handshake>>

Unasked == [status |-> "Unasked"]

SessionInit ==
  /\ Init /\ BatchInit /\ decision = Undecided
  /\ library \in Libraries /\ wants \in Requirements
  /\ stage = "loaded" /\ handshake = Unasked

\* The process starts again, with whatever library is installed by then.
Restart ==
  /\ library' \in Libraries
  /\ stage' = "loaded" /\ handshake' = Unasked
  /\ output' = [t \in 0..Slots - 1 |-> NullRecord]
  /\ report' = Report("Ok", 0, 0, 0)
  /\ built' = <<>>
  /\ memory' \in Packings
  /\ bytes' = [a \in Addresses |-> Unset]
  /\ call' = Idle /\ decision' = Undecided
  /\ UNCHANGED wants

Handshake ==
  /\ stage = "loaded"
  /\ handshake' = CheckIntegrationCompatibility(wants, library)
  /\ stage' = IF handshake'.status = "Ready" THEN "startup" ELSE "off"
  /\ UNCHANGED <<library, wants, output, report, built, memory, bytes, call, decision>>

BuildTable ==
  /\ stage = "startup"
  /\ Next
  /\ UNCHANGED <<library, wants, stage, handshake, memory, bytes, call, decision>>

Play ==
  /\ stage = "startup"
  /\ stage' = "playing"
  /\ UNCHANGED <<library, wants, handshake, output, report, built, memory, bytes, call, decision>>

BatchCall ==
  /\ stage = "playing" /\ decision = Undecided
  /\ BatchNext
  /\ UNCHANGED <<library, wants, stage, handshake, output, report, built, decision>>

Decide ==
  /\ stage = "playing" /\ call = Idle
  /\ FrameNext
  /\ UNCHANGED <<library, wants, stage, handshake, output, report, built, memory, bytes, call>>

SessionNext == Restart \/ Handshake \/ BuildTable \/ Play \/ BatchCall \/ Decide

SessionSpec == SessionInit /\ [][SessionNext]_sessionVars

-----------------------------------------------------------------------------
\* Table, memory and stage are of their kinds; the edge is only used behind a
\* handshake that found the library ready.
SessionTypeOK ==
  /\ TypeOK /\ BatchTypeOK
  /\ library \in Libraries /\ wants \in Requirements
  /\ stage \in {"loaded", "startup", "playing", "off"}
  /\ stage \in {"startup", "playing"} => handshake.status = "Ready"

\* docs/API_STABILITY.md: compatible changes leave existing consumers valid,
\* and a refusal names what is wrong.  Whatever the gate has reported, no
\* compatible upgrade of the library gets less far in it, so that an admitted
\* consumer stays admitted; and the capabilities reported missing are all that
\* stands between this consumer and Ready.
GateIsMonotone ==
  handshake # Unasked =>
    /\ \A new \in Libraries :
         CompatibleUpgrade(library, new) =>
           LET again == CheckIntegrationCompatibility(wants, new)
           IN  /\ Position(again.status) >= Position(handshake.status)
               /\ handshake.status = "MissingCapability" =>
                    again.missing \subseteq handshake.missing
    /\ handshake.status = "MissingCapability" <=> handshake.missing # {}
    /\ handshake.missing # {} =>
         CheckIntegrationCompatibility(wants,
           [library EXCEPT !.capabilities = @ \union handshake.missing]).status = "Ready"
=============================================================================

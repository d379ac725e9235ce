--------------------------- MODULE BatchGeometry ---------------------------
(***************************************************************************)
(* The batch kernels (Kernel/Hot/BatchGeometry.cpp) called through the     *)
(* language edges (Adapters/C, Go, Node, Java, Python) on buffers of the   *)
(* caller.  Coordinates and distances share one memory, so that the output *)
(* of a call may overlap its input; a mask of bytes is a memory of its own.*)
(* The loop writes one result per step.                                    *)
(***************************************************************************)
EXTENDS Integers, Sequences

CONSTANTS
  MemorySize,   \* floats, and bytes, the caller has
  Requests,     \* calls the caller makes
  Packings,     \* contents the caller gives the floats before a call
  NaN,          \* a radius that is not a number
  Unset,        \* a byte no call has written
  Untouched     \* `written` as the caller left it, or no such result

Addresses == 0 .. MemorySize - 1

Edges == {"C", "Go", "Node", "Java", "Python"}

\* missing: arguments that are null, or not a buffer of the right type.  The
\* buffers that are there lie in the memory.
Request ==
  [edge : Edges, kernel : {"distance", "mask"}, xy : Nat, count : Int,
   out : Nat, room : Int, radius : Int \union {NaN},
   missing : SUBSET {"xy", "output", "written"}]

ASSUME MemorySizeAssumption == MemorySize \in Nat
ASSUME PackingsAssumption == Packings \subseteq [Addresses -> Int]
ASSUME NaNAssumption == NaN \notin Int /\ Unset \notin {0, 1} /\ Untouched \notin Int
ASSUME RequestsAssumption ==
  /\ Requests \subseteq Request
  /\ \A r \in Requests : r.xy + r.count <= MemorySize /\ r.out + r.room <= MemorySize

VARIABLES
  memory,   \* the floats
  bytes,    \* the bytes
  call      \* the call under way or returned last, or Idle

batchVars == <<memory, bytes, call>>

Idle == [phase |-> "idle"]

Points(r) == r.count \div 2

\* DistanceSquared from the anchor, which is the origin.
Distance(x, y) == x * x + y * y

-----------------------------------------------------------------------------
(* Refusals                                                                *)

\* The edge's own test of its arguments: the C ABI allows a null buffer of
\* size zero, Node and Python ask for a typed buffer in any case, Java counts
\* are signed.
Refused(r) ==
  \/ r.count < 0 \/ r.room < 0
  \/ "written" \in r.missing
  \/ "xy" \in r.missing /\ (r.count # 0 \/ r.edge \in {"Node", "Python"})
  \/ "output" \in r.missing /\ (r.room # 0 \/ r.edge \in {"Node", "Python"})

\* (fault) the size of the output is not looked at.
ValidateInput(r) ==
  IF r.count % 2 # 0 THEN "InvalidCoordinateCount"
  ELSE IF r.kernel = "mask" /\ r.radius # NaN /\ r.radius < 0 THEN "InvalidRadius"
  ELSE "Ok"

\* A NaN is not less than zero.
Validate(r) ==
  IF r.count % 2 # 0 THEN "InvalidCoordinateCount"
  ELSE IF r.room < Points(r) THEN "OutputTooSmall"
  ELSE IF r.kernel = "mask" /\ r.radius # NaN /\ r.radius < 0 THEN "InvalidRadius"
  ELSE "Ok"

\* ToCStatus; Python raises instead.
StatusAt(edge, status) ==
  IF status = "Ok" THEN "OK"
  ELSE IF edge = "Python" THEN "ValueError"
  ELSE IF status = "OutputTooSmall" THEN "OUTPUT_TOO_SMALL"
  ELSE "INVALID_ARGUMENT"

\* What `written` is when no point was: a call refused by its arguments does
\* not touch it (Go's own is zero before the call), and Node, Java and Python
\* do not return it.
NoneWritten(r) ==
  IF r.edge \in {"Node", "Java", "Python"} \/ (r.edge = "C" /\ Refused(r))
  THEN Untouched ELSE 0

AllWritten(r) == IF r.edge \in {"Node", "Java"} THEN Untouched ELSE Points(r)

-----------------------------------------------------------------------------
BatchInit ==
  /\ memory \in Packings
  /\ bytes = [a \in Addresses |-> Unset]
  /\ call = Idle

\* The caller packs the next batch.
Pack ==
  /\ call.phase = "returned"
  /\ memory' \in Packings
  /\ bytes' = [a \in Addresses |-> Unset]
  /\ call' = Idle

Returned(r, status, written, before, bytesBefore) ==
  [phase |-> "returned", request |-> r, status |-> status, written |-> written,
   before |-> before, bytesBefore |-> bytesBefore]

Reject(r) ==
  /\ call = Idle
  /\ Refused(r) \/ Validate(r) # "Ok"
  /\ call' = Returned(r, StatusAt(r.edge, IF Refused(r) THEN "Refused" ELSE Validate(r)),
                      NoneWritten(r), memory, bytes)
  /\ UNCHANGED <<memory, bytes>>

Begin(r) ==
  /\ call = Idle
  /\ ~Refused(r) /\ Validate(r) = "Ok"
  /\ call' = [phase |-> "running", request |-> r, next |-> 0,
              before |-> memory, bytesBefore |-> bytes]
  /\ UNCHANGED <<memory, bytes>>

\* The distance of point i as the memory is now.
DistanceOf(mem, r, i) == Distance(mem[r.xy + 2 * i], mem[r.xy + 2 * i + 1])

Marked(mem, r, i) ==
  IF r.radius # NaN /\ DistanceOf(mem, r, i) <= r.radius * r.radius THEN 1 ELSE 0

\* One turn of the loop.
Step ==
  LET r == call.request
      i == call.next
  IN  /\ call.phase = "running"
      /\ i < Points(r)
      /\ \/ /\ r.kernel = "distance"
            /\ memory' = [memory EXCEPT ![r.out + i] = DistanceOf(memory, r, i)]
            /\ UNCHANGED bytes
         \/ /\ r.kernel = "mask"
            /\ bytes' = [bytes EXCEPT ![r.out + i] = Marked(memory, r, i)]
            /\ UNCHANGED memory
      /\ call' = [call EXCEPT !.next = i + 1]

Return ==
  /\ call.phase = "running"
  /\ call.next >= Points(call.request)
  /\ call' = Returned(call.request, "OK", AllWritten(call.request),
                      call.before, call.bytesBefore)
  /\ UNCHANGED <<memory, bytes>>

BatchNext == Pack \/ Step \/ Return \/ \E r \in Requests : Reject(r) \/ Begin(r)

BatchSpec == BatchInit /\ [][BatchNext]_batchVars

-----------------------------------------------------------------------------
BatchTypeOK ==
  /\ memory \in [Addresses -> Int]
  /\ bytes \in [Addresses -> {0, 1, Unset}]
  /\ call.phase \in {"idle", "running", "returned"}
  /\ call.phase = "running" => call.next \in Nat /\ call.next <= Points(call.request)

\* The number that point i reads at address a: the coordinate the caller put
\* there or, where the output overlaps the coordinates, an earlier result of
\* the same call written over it.
Found(r, i, a) ==
  IF r.kernel = "distance" /\ a \in r.out .. r.out + i - 1
  THEN memory[a] ELSE call.before[a]

IsResult(r, i) ==
  IF r.kernel = "distance"
  THEN memory[r.out + i] =
         Distance(Found(r, i, r.xy + 2 * i), Found(r, i, r.xy + 2 * i + 1))
  ELSE bytes[r.out + i] = Marked(call.before, r, i)

\* What has changed are the first n places of the kernel's output.
WritesOnly(r, n) ==
  \A a \in Addresses :
    /\ memory[a] # call.before[a] =>
         r.kernel = "distance" /\ a \in r.out .. r.out + n - 1
    /\ bytes[a] # call.bytesBefore[a] =>
         r.kernel = "mask" /\ a \in r.out .. r.out + n - 1

\* "caller-owned buffers": a call is all or nothing, through every edge.  One
\* that returns OK has written one result per point, at the start of the
\* kernel's own output and within its room, and nothing else; a distance is
\* that of the two numbers found where the point was, which are its coordinates
\* unless an earlier result was written over them.  One that does not return OK
\* has changed nothing and reports no point.
BatchIsAllOrNothing ==
  call.phase = "returned" =>
    LET r == call.request
    IN  IF call.status = "OK"
        THEN /\ Points(r) <= r.room
             /\ WritesOnly(r, Points(r))
             /\ \A i \in 0 .. Points(r) - 1 : IsResult(r, i)
             /\ call.written = Points(r) \/ r.edge \in {"Node", "Java"}
        ELSE /\ memory = call.before /\ bytes = call.bytesBefore
             /\ call.written \in {0, Untouched}
=============================================================================

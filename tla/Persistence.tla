---------------------------- MODULE Persistence ----------------------------
(***************************************************************************)
(* The champion store (Tuner/Persistence.cpp): records written one after   *)
(* another to a text stream that outlives the process, and read back one   *)
(* line at a time after a restart.  A write may be torn: the stream fails, *)
(* or the process dies, with part of the line on the medium.               *)
(*                                                                         *)
(* The stream is a sequence of tokens: the magic word, a number, a quoted  *)
(* string, and what a tear or a line break leaves of one: Open is an       *)
(* opening quote whose closing quote is missing, Plain the end of a string *)
(* up to its closing quote.  A number cut short is still a number.         *)
(***************************************************************************)
EXTENDS Integers, Sequences, SequencesExt, FiniteSetsExt

CONSTANTS
  Records,     \* what callers write, valid or not
  Texts,       \* the strings of their provenance
  Empty,       \* the empty string
  NotFinite,   \* an infinite mean or variance, or NaN
  Broken,      \* a string with a line break in it
  Cuts,        \* how many whole tokens of a torn write reach the medium
  MaxWrites    \* bound of the model on the writes to the stream

SchemaVersion == 1
InvalidDecision == 0

ASSUME RecordsAssumption ==
  Records \subseteq [numbers : [1..9 -> Int \union {NotFinite}], texts : [1..6 -> Texts]]
ASSUME CutsAssumption == Cuts \subseteq 1..16
ASSUME MaxWritesAssumption == MaxWrites \in Nat

VARIABLES
  stream,    \* the tokens on the medium
  phase,     \* writing, failed (no write succeeds any more), or reading
  at,        \* the read position
  record,    \* the caller's record that ReadChampionRecord fills
  read,      \* records read since the restart, with the place of their line
  written,   \* what writes put on the medium, with the place of the first token
  tears      \* where on the medium a write ended that was torn

storeVars == <<stream, phase, at, record, read, written, tears>>

NoRecord == [numbers |-> <<1, 0, 0, 0, 0, 0, 0, 0, 0>>, texts |-> [i \in 1..6 |-> Empty]]

Magic     == <<"magic">>
Newline   == <<"newline">>
Number(n) == <<"number", n>>
Quoted(t) == <<"quoted", t>>
Open(t)   == <<"open", t>>
Plain(t)  == <<"plain", t>>

StoreInit ==
  /\ stream = <<>> /\ phase = "writing" /\ at = 0
  /\ record = NoRecord /\ read = <<>> /\ written = <<>> /\ tears = {}

\* numbers: schema version, decision, workload, hardware, flags, champion,
\* samples, mean, variance.
IsValid(r) ==
  /\ r.numbers[1] = SchemaVersion
  /\ r.numbers[2] # InvalidDecision
  /\ r.numbers[7] > 0
  /\ \A i \in {8, 9} : r.numbers[i] # NotFinite /\ r.numbers[i] >= 0
  /\ \A i \in 1..6 : r.texts[i] # Empty

-----------------------------------------------------------------------------
(* Writing                                                                 *)

\* std::quoted writes a line break as it is.
TextTokens(t) == IF t = Broken THEN <<Open(t), Newline, Plain(t)>> ELSE <<Quoted(t)>>

Line(r) ==
  LET texts[i \in 0..6] == IF i = 0 THEN <<>> ELSE texts[i - 1] \o TextTokens(r.texts[i])
  IN  <<Magic>> \o [i \in 1..9 |-> Number(r.numbers[i])] \o texts[6] \o <<Newline>>

Entry(r, from, acknowledged) == [record |-> r, from |-> from, acknowledged |-> acknowledged]

\* An invalid record leaves the stream alone.
WriteChampionRecord(r) ==
  /\ phase = "writing" /\ Len(written) < MaxWrites
  /\ IsValid(r)
  /\ stream' = stream \o Line(r)
  /\ written' = Append(written, Entry(r, Len(stream), TRUE))
  /\ UNCHANGED <<phase, at, record, read, tears>>

\* The first tokens of the line are on the medium, and of a string that comes
\* next possibly the beginning.  The write returns false, or does not return.
TornWrite(r) ==
  /\ phase = "writing" /\ Len(written) < MaxWrites
  /\ IsValid(r)
  /\ \E cut \in Cuts :
       LET whole == SubSeq(Line(r), 1, cut)
           next  == Line(r)[cut + 1]
       IN  \/ stream' = stream \o whole
           \/ next[1] = "quoted" /\ stream' = stream \o whole \o <<Open(next[2])>>
  /\ written' = Append(written, Entry(r, Len(stream), FALSE))
  /\ tears' = tears \union {Len(stream')}
  /\ phase' = "failed"
  /\ UNCHANGED <<at, record, read>>

\* The process starts again and reads the stream from its beginning.
Restart ==
  /\ phase' = "reading" /\ at' = 0 /\ read' = <<>> /\ record' = NoRecord
  /\ UNCHANGED <<stream, written, tears>>

-----------------------------------------------------------------------------
(* Reading                                                                 *)

\* getline: the tokens up to the next line break or the end of the stream.
LineEnd(from) ==
  Min({i \in from + 1 .. Len(stream) : stream[i] = Newline} \union {Len(stream) + 1})

LineAt(from) == SubSeq(stream, from + 1, LineEnd(from) - 1)

HasQuote(token) == token[1] \in {"quoted", "open"}

\* The words of a line, between or inside quotes.  An open string runs to the
\* next quote, which closes it; the rest of the string that quote began is a
\* word without quotes.
Lex(state, token) ==
  IF state.place = "inside"
  THEN IF HasQuote(token)
       THEN [words |-> state.words \o <<Quoted(Magic), Plain(token[2])>>, place |-> "between"]
       ELSE state
  ELSE IF token[1] = "open" THEN [words |-> state.words, place |-> "inside"]
  ELSE [words |-> Append(state.words, token), place |-> "between"]

Words(line) ==
  LET lexed[i \in 0..Len(line)] ==
        IF i = 0 THEN [words |-> <<>>, place |-> "between"] ELSE Lex(lexed[i - 1], line[i])
  IN  lexed[Len(line)]

\* Extracting a quoted string takes a word that has no quotes as it is.
TextOf(word) == IF word[1] = "quoted" THEN word[2] ELSE word

Parsed(words) ==
  [numbers |-> [i \in 1..9 |-> words[i + 1][2]], texts |-> [i \in 1..6 |-> TextOf(words[i + 10])]]

\* (fault) what follows the last field is not looked at.
AcceptsPrefix(line) ==
  LET lexed == Words(line)
      words == lexed.words
  IN  /\ Len(words) >= 16
      /\ words[1] = Magic
      /\ \A i \in 2..10 : words[i][1] = "number"
      /\ IsValid(Parsed(words))

Accepts(line) ==
  LET lexed == Words(line)
      words == lexed.words
  IN  /\ lexed.place = "between" /\ Len(words) = 16
      /\ words[1] = Magic
      /\ \A i \in 2..10 : words[i][1] = "number"
      /\ IsValid(Parsed(words))

\* (fault) a refused line fails the caller's stream, and nothing more is read.
ReadFailingStream ==
  LET line == LineAt(at)
  IN  /\ phase = "reading" /\ at < Len(stream)
      /\ IF Accepts(line)
         THEN /\ record' = Parsed(Words(line).words)
              /\ read' = Append(read, [record |-> record', from |-> at, to |-> LineEnd(at)])
              /\ at' = LineEnd(at)
         ELSE at' = Len(stream) /\ UNCHANGED <<record, read>>
      /\ UNCHANGED <<stream, phase, written, tears>>

\* A refused line is consumed and leaves the caller's record alone; the call
\* returns false, as at the end of the stream.
ReadChampionRecord ==
  LET line == LineAt(at)
  IN  /\ phase = "reading" /\ at < Len(stream)
      /\ IF Accepts(line)
         THEN /\ record' = Parsed(Words(line).words)
              /\ read' = Append(read, [record |-> record', from |-> at, to |-> LineEnd(at)])
         ELSE UNCHANGED <<record, read>>
      /\ at' = LineEnd(at)
      /\ UNCHANGED <<stream, phase, written, tears>>

\* The caller has read all there is and goes on writing behind it.
Resume ==
  /\ phase = "reading" /\ at >= Len(stream)
  /\ phase' = "writing"
  /\ UNCHANGED <<stream, at, record, read, written, tears>>

StoreNext ==
  \/ \E r \in Records : WriteChampionRecord(r) \/ TornWrite(r)
  \/ Restart \/ ReadChampionRecord \/ Resume

StoreSpec == StoreInit /\ [][StoreNext]_storeVars

-----------------------------------------------------------------------------
BehindTear(entry) == entry.from \in tears /\ stream[entry.from] # Newline

\* A write that returned true is found again after every restart, unless a
\* string of it has a line break or the write before it was torn; whatever
\* lies between the lines of the stream.  The records come back in the order
\* of the writes, which is what lets the first entry for a context win in
\* SelectContextChampion, and the last one read is the caller's record.
AcknowledgedAreRead ==
  phase = "reading" /\ at >= Len(stream) =>
    /\ \A w \in ToSet(written) :
         w.acknowledged /\ Broken \notin ToSet(w.record.texts) /\ ~BehindTear(w) =>
           \E g \in ToSet(read) : g.record = w.record /\ g.from = w.from
    /\ \A i, j \in DOMAIN read : i < j => read[i].to <= read[j].from
    /\ record = IF read = <<>> THEN NoRecord ELSE Last(read).record

Tears(g) == tears \intersect (g.from + 1 .. g.to - 1)

WasWritten(g) == \E w \in ToSet(written) : w.record = g.record /\ w.from = g.from

BreakBehindTear(g) ==
  \E w \in ToSet(written) : w.from \in Tears(g) /\ Broken \in ToSet(w.record.texts)

\* One torn write on a line makes no record: neither alone, nor with the
\* record written behind it, does it read as one that nobody wrote, unless
\* that record is itself broken by a line break.
OneTearMakesNoRecord ==
  \A g \in ToSet(read) : WasWritten(g) \/ Cardinality(Tears(g)) >= 2 \/ BreakBehindTear(g)

\* docs/TUNER.md: "malformed data is rejected".  Every record read was written.
MalformedIsRejected == \A g \in ToSet(read) : WasWritten(g)
=============================================================================

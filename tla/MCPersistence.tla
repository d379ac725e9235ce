--------------------------- MODULE MCPersistence ---------------------------
(* Two good records of one context, two with a line break in a string, the  *)
(* hardware profile or the source revision, and torn writes in every part  *)
(* of a line.                                                              *)
EXTENDS Persistence

CONSTANTS Profile, Ryzen, Epyc

Record(decision, champion, mean, hardware) ==
  [numbers |-> <<SchemaVersion, decision, 0, 0, 0, champion, 5, mean, 1>>,
   texts |-> [i \in 1..6 |-> IF i = 5 THEN hardware ELSE Profile]]

Good == Record(1, 2, 10, Ryzen)

MCTexts == {Profile, Ryzen, Epyc, Empty, Broken}

MCRecords ==
  {Good, Record(2, 1, 9, Epyc), Record(3, 2, 9, Broken), [Good EXCEPT !.texts[1] = Broken],
   Record(InvalidDecision, 2, 10, Ryzen), Record(4, 2, NotFinite, Ryzen),
   Record(4, 2, 10, Empty), [Good EXCEPT !.numbers[1] = 2], [Good EXCEPT !.numbers[7] = 0]}
=============================================================================

---------------------------- MODULE MCAudioService ----------------------------
EXTENDS AudioService

word1 == << 10, 11, 12, 13, 14, 0, 0, 0, 5 >>
word2 == << 7, 7, 31, 7, 2, 30, 31, 7, 19 >>
other == << 3, 25, 8, 20, 30, 12, 17, 9, 29 >>

Scene(word) == [word |-> word, type |-> 0, random |-> << >>, melody |-> << >>, lead |-> 5000,
                drowned |-> {}, by |-> << >>, echo |-> 0, marks |-> 1]
notes == [i \in 1..20 |-> [note |-> (7 * i) % 32, drift |-> ((5 * i) % 9) - 4]]
shortMelody == << 1, 5, 9, 5, 1, 5, 9, 12, 14, 12 >>
longMelody == [i \in 1..22 |-> (3 * i) % 32]

MCModes == OXY_MODES
MCCustom == {[base |-> 15500, separation |-> 2], [base |-> 9700, separation |-> 3],
             [base |-> 1800, separation |-> 0]}
MCSignatures == {[tone |-> << 60, 10 >>, samples |-> 50000]}
MCScenes ==
    { Scene(word1),
      [Scene(word2) EXCEPT !.echo = 40, !.lead = 4700],
      [Scene(word1) EXCEPT !.type = 1, !.random = notes],
      [Scene(word1) EXCEPT !.type = 2, !.melody = shortMelody],
      [Scene(word2) EXCEPT !.type = 2, !.melody = longMelody],
      [Scene(word1) EXCEPT !.drowned = {2, 7, 11, 12}],
      [Scene(word1) EXCEPT !.drowned = {3, 4, 10, 15}, !.by = other],
      [Scene(word1) EXCEPT !.drowned = {3, 4, 5, 10, 15}, !.by = other],
      [Scene(word2) EXCEPT !.marks = 2] }
MCMessages == { << 1, 2, 3, 4, 5 >>, << 1, Other, 3, 4, 5 >>, << 1, 2, 3, 4 >> }
===============================================================================

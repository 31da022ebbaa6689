--------------------------- MODULE MCSessionStore ---------------------------
EXTENDS SessionStore, TLC

OneProcess == \A c, d \in Clients : process[c] = process[d]
Empties(file) == { s \in Sessions : file[s] = NoFile }

(* What there is at the start: one session at most, in either layout.  The *)
(* clock says how many more can be created.                                *)
MCInit ==
  /\ Init /\ Cardinality(Sessions \ (Empties(state) \cap Empties(legacy))) = 1
  /\ \/ OneProcess /\ ~windows /\ clock = 0 /\ Empties(state) = Sessions
     \/ OneProcess /\ windows /\ clock = 1 /\ state = legacy
     \/ ~OneProcess /\ ~windows /\ clock = 1 /\ Empties(legacy) = Sessions
     \/ ~OneProcess /\ windows /\ clock = MaxClock /\ Empties(state) = Sessions

MCSpec == MCInit /\ [][Next]_vars

(* Clients, processes and sessions are interchangeable, for every property *)
(* of the run.                                                             *)
Interchange == Permutations(Clients) \cup Permutations(Processes) \cup Permutations(Sessions)
=============================================================================

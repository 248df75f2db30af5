---------------------------- MODULE MCWaveScheduler ----------------------------
(***************************************************************************)
(* Four targets and the shapes of call graph that matter: no calls, a      *)
(* chain, a fan-in, a diamond, a cycle with a caller and a callee outside  *)
(* it, and a function that calls itself; with every choice of the targets  *)
(* that are runtime gated and of those with a truncated list of callees.   *)
(***************************************************************************)
EXTENDS WaveScheduler, TLC

CONSTANTS a, b, c, d

NoCalls   == [t \in Targets |-> {}]
MCGraphs  == { NoCalls,
  [NoCalls EXCEPT ![a] = {b}, ![b] = {c}, ![c] = {d}],
  [NoCalls EXCEPT ![a] = {b, c, d}],
  [NoCalls EXCEPT ![a] = {b, c}, ![b] = {d}, ![c] = {d}],
  [NoCalls EXCEPT ![a] = {b}, ![b] = {c}, ![c] = {b, d}],
  [NoCalls EXCEPT ![a] = {a}, ![b] = {a}] }

(* waves as it computes: wave after wave, until one adds nothing.           *)
Waves(open) ==
  LET W[n \in Nat] ==
        IF n = 0 THEN {}
        ELSE W[n - 1] \cup {t \in Targets : open[t] \subseteq W[n - 1]}
  IN  W[Cardinality(Targets)]

(* The least set is what the waves come to, whatever is gated and cut off.  *)
ASSUME WavesReachTheLeastSet ==
  \A calls \in Graphs, gated \in SUBSET Targets :
    Waves(OpenCallees(calls, gated)) = Scheduled(OpenCallees(calls, gated))
=============================================================================

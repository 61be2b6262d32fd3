------------------------------ MODULE Telemetry -----------------------------
(***************************************************************************)
(* What a monitoring process promises for its readings: each one is        *)
(* pending, stored or lost, never two of these; one that is stored stays,  *)
(* and one that is pending is stored or lost only by a step that says so.  *)
(***************************************************************************)
EXTENDS Naturals

CONSTANT Point          \* readings, each with its monitor and time

VARIABLES pending, stored, lost

telemetryVars == <<pending, stored, lost>>

TelemetryInit == pending = {} /\ stored = {} /\ lost = {}

Take(p) ==
  /\ p \notin pending \cup stored \cup lost
  /\ pending' = pending \cup {p} /\ UNCHANGED <<stored, lost>>

Store(S) ==
  /\ stored' = stored \cup S /\ pending' = pending \ S /\ UNCHANGED lost

Lose(S) ==
  /\ lost' = lost \cup S /\ pending' = pending \ S /\ UNCHANGED stored

TelemetryNext ==
  \/ \E p \in Point : Take(p)
  \/ \E S \in SUBSET pending : Store(S) \/ Lose(S)

\* A reading is in one place.
Exclusive ==
  pending \cap stored = {} /\ pending \cap lost = {} /\ stored \cap lost = {}

TelemetrySpec == TelemetryInit /\ [][TelemetryNext]_telemetryVars
=============================================================================

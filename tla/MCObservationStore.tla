------------------------ MODULE MCObservationStore ------------------------
(* Constants for model-checking ObservationStore.                          *)
EXTENDS ObservationStore

CONSTANTS s1, s2, r1, r2

\* A candidate row; the short arguments are the columns the runs vary.
Row(id, s, e, d, t, r, prior, scope) ==
  [id |-> id, source |-> s, source_event |-> e, digest |-> d,
   observed_at |-> t, run |-> r, supersedes |-> prior,
   visibility |-> scope, subjects |-> {"deployment"}, raw |-> "raw"]

\* Two accounts of event e1 at s1; two corrections of the first; a row that
\* reuses its id to correct one of them (a cycle, were it let in); the same
\* subject at s2 in the same tenant and in another; a correction at s2 of an
\* observation of s1.
Candidates ==
  { Row("a", s1, "e1", "d1", 1, r1, NoObservation, "acme"),
    Row("b", s1, "e1", "d2", 1, r1, NoObservation, "acme"),
    Row("c", s1, "e1", "d3", 2, r1, "a", "acme"),
    Row("a", s1, "e1", "d2", 2, r1, "c", "acme"),
    Row("g", s1, "e1", "d4", 3, r1, "a", "acme"),
    Row("d", s2, "e1", "d1", 1, r2, NoObservation, "acme"),
    Row("e", s2, "e2", "d2", 2, r2, NoObservation, "other"),
    Row("f", s2, "e2", "d3", 3, r2, "a", "acme") }
=============================================================================

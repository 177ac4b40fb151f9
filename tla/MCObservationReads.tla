------------------------- MODULE MCObservationReads -------------------------
(* Constants for model-checking ObservationReads.                          *)
EXTENDS ObservationReads, TLC

CONSTANTS s1, r1

Row(id, e, d, t, prior, boundary, refs) ==
  [id |-> id, source |-> s1, source_event |-> e, digest |-> d,
   observed_at |-> t, run |-> r1, supersedes |-> prior,
   visibility |-> boundary, subjects |-> refs, raw |-> "raw"]

\* A tenant's account of an event, its public correction and the tenant's own
\* correction of that; and another tenant's event.
Candidates ==
  { Row(1, "e1", "d1", 1, NoObservation, "acme", {"mandate", "receipt"}),
    Row(2, "e1", "d2", 2, 1, "public", {"receipt"}),
    Row(3, "e1", "d3", 3, 2, "acme", {"receipt"}),
    Row(4, "e2", "d4", 2, NoObservation, "bolt", {"receipt"}) }

Keys ==
  << [tenant |-> "acme", token |-> ""], [tenant |-> "acme", token |-> "k1"],
     [tenant |-> "bolt", token |-> "k2"] >>

Headers == { [tenant |-> "acme", token |-> "k1"], [tenant |-> "bolt", token |-> "k2"],
             [tenant |-> "bolt", token |-> "k1"], [tenant |-> Absent, token |-> "k1"] }

Ref(tenant, state, object, source) ==
  [tenant |-> tenant, entity |-> "ent", state |-> state, object |-> object,
   source |-> source]

Accounts == { [tenant |-> "bolt", entity |-> "ent"] }

\* One to another tenant's observation, which is refused, and one to the
\* public correction whose object is withheld.
Refs == { Ref("bolt", "available", "o1", 1), Ref("bolt", "withheld", Absent, 2) }

Writers == Permutations(Writer)

Rels == { [tenant |-> "bolt", entity |-> "ent", state |-> "available", related |-> "ent2"] }
=============================================================================

--------------------------- MODULE MCPitekaIngest ---------------------------
(* Feeds for model-checking PitekaIngest.                                  *)
EXTENDS PitekaIngest, TLC

CONSTANTS s1, s2, i1, i2, i3

Export(id, t, kind) ==
  [export |-> id, revision |-> 1, supersedes |-> NoExport, emitted_at |-> t,
   kind |-> kind, digest |-> id]

\* One export a second, one of them incomplete.
OrderedFeed ==
  [s \in Source |-> << Export("a", 1, "complete"), Export("b", 2, "incomplete"),
                       Export("c", 3, "complete"), Export("d", 4, "complete") >>]

\* An export with no emission time between two complete ones.
MalformedFeed ==
  [s \in Source |-> << Export("a", 1, "complete"), Export("b", 0, "unbounded"),
                       Export("c", 3, "complete") >>]

\* A correction of an earlier export, then another export.
CorrectionFeed ==
  [s \in Source |-> << Export("a", 1, "complete"),
                       [Export("b", 2, "complete") EXCEPT !.supersedes = "a"],
                       Export("c", 3, "complete") >>]

\* Two exports emitted in the same second.
SameSecondFeed ==
  [s \in Source |-> << Export("a", 1, "complete"), Export("b", 1, "complete") >>]

\* A feed of two exports; and one of another tenant with a correction whose id
\* the first also has, an incomplete export, one of its own and an unbounded one.
MixedFeeds ==
  [s \in Source |->
    IF s = s1
    THEN << Export("a", 1, "complete"), Export("c", 3, "complete") >>
    ELSE << [Export("c", 1, "complete") EXCEPT !.supersedes = "a"],
            Export("b", 2, "incomplete"), Export("d", 3, "complete"),
            Export("e", 0, "unbounded") >>]

\* The first export of each of two tenants has the same id.
SharedFeeds ==
  [s \in Source |->
    IF s = s1 THEN << Export("a", 1, "complete") >>
    ELSE << Export("a", 1, "complete"), Export("b", 2, "complete") >>]

OneSource == [i \in Ingester |-> s1]

\* i1 and i2, when there is one, share a source.
TwoSources == [i \in Ingester |-> IF i = i3 THEN s2 ELSE s1]

Symmetry == Permutations({i1, i2})
=============================================================================

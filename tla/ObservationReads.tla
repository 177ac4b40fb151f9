-------------------------- MODULE ObservationReads --------------------------
(***************************************************************************)
(* Reading the observation plane while it is appended to: get_observation  *)
(* as the ingester calls it, and for a tenant the lineage of an            *)
(* observation, the newest observations, and the profile and the           *)
(* accountability of an entity (the tables of migration 0005, which no     *)
(* code of the repository fills).  A reader runs its SELECTs one by one,   *)
(* each on what is committed by then; the records of a lineage or a list   *)
(* are fetched one after the other by the ids that the first SELECT found. *)
(* The ids of observations are numbers, in the order of the texts they     *)
(* stand for.  One reader is enough: readers change nothing.               *)
(***************************************************************************)
EXTENDS AppendTransaction, Sequences, FiniteSets

CONSTANTS
  ApiKeys,       \* TUPPIRA_OBSERVATION_API_KEYS, the entries in order, or Absent
  Requests,      \* [tenant, token]: what the headers of requests say
  Limits,        \* the limits lists are asked with
  Profiles,      \* rows of accountable_entities: [tenant, entity]
  References, Relationships,  \* rows of the two tables that refer to them
  Everyone,      \* the reader of get_observation, whom nothing is hidden from
  Absent         \* a header, a variable or a column left out

ASSUME ObservationReadsAssumption ==
  /\ \A o \in Candidate :
       /\ DOMAIN o = Store!ObservationFields
       /\ o.id \in Nat /\ o.id # NoObservation
       /\ o.source \in Source /\ o.run \in Run
       /\ o.observed_at \in Nat
  /\ MaxTime \in Nat
  /\ Limits \subseteq 1..500

VARIABLES
  entities,  \* accountable_entities and the two tables that refer to it
  read       \* what the reader has fetched so far

readsVars == <<vars, entities, read>>

NoEntities == [profiles |-> {}, refs |-> {}, relationships |-> {}]

\* step is the statement to run next; what was there when the read began
\* (start) is no state of the program.
NoRead ==
  [ step |-> "idle", asked |-> "nothing", tenant |-> Everyone, id |-> Absent,
    limit |-> 0, todo |-> << >>, row |-> NoObservation, got |-> << >>,
    refs |-> {}, relationships |-> {}, start |-> {} ]

-----------------------------------------------------------------------------
(* What a tenant may see.                                                  *)

\* authenticate: the first entry of the tenant that has a token decides.
Authenticated(request) ==
  /\ Absent \notin {request.tenant, request.token, ApiKeys}
  /\ LET entries == SelectSeq(ApiKeys,
                      LAMBDA k : k.tenant = request.tenant /\ k.token # "")
     IN  entries # << >> /\ Head(entries).token = request.token

Visible(o, tenant) == o.visibility \in {"public", tenant} \/ tenant = Everyone

VisibleTo(db, tenant) == { o \in db.observations : Visible(o, tenant) }

\* Mutant of Prior: it is not asked whether the tenant may see it.
PriorOfAny(db, id, tenant) ==
  { s.superseded : s \in { t \in db.supersessions : t.superseding = id } }

\* The recursive step: at most one row, superseding being the primary key.
Prior(db, id, tenant) ==
  { o.id : o \in { p \in VisibleTo(db, tenant) :
                     [superseding |-> id, superseded |-> p.id] \in db.supersessions } }

\* ids is a correction, what it corrects, and so on.
Descends(db, ids, tenant) ==
  \A k \in 1..Len(ids)-1 : ids[k + 1] \in Prior(db, ids[k], tenant)

\* The first SELECT of visible_lineage: an id and what it corrects, back to
\* an original or to what the tenant may not see.
VisibleLineage(db, id, tenant) ==
  IF \A o \in VisibleTo(db, tenant) : o.id # id THEN << >>
  ELSE CHOOSE ids \in UNION { [1..n -> StoredIds(db)] :
                               n \in 1..Cardinality(db.observations) } :
         /\ ids[1] = id
         /\ Descends(db, ids, tenant)
         /\ Prior(db, ids[Len(ids)], tenant) = {}

Newer(p, o) ==
  p.observed_at > o.observed_at \/ (p.observed_at = o.observed_at /\ p.id > o.id)

\* How many of rows come before o in a list.
Place(o, rows) == Cardinality({ p \in rows : Newer(p, o) })

\* The first SELECT of list_visible_observations, newest first.
NewestVisible(db, tenant, limit) ==
  LET rows == VisibleTo(db, tenant)
      n == IF limit < Cardinality(rows) THEN limit ELSE Cardinality(rows)
  IN  [k \in 1..n |-> (CHOOSE o \in rows : Place(o, rows) = k - 1).id]

-----------------------------------------------------------------------------
(* External: rows of an entity, within the constraints of migration 0005.  *)

InsertEntity(p) ==
  /\ lock = NoWriter
  /\ entities' = [entities EXCEPT !.profiles = @ \cup {p}]
  /\ UNCHANGED <<vars, read>>

HasProfile(tenant, entity) ==
  [tenant |-> tenant, entity |-> entity] \in entities.profiles

\* Mutant of ReferenceAllowed: the trigger asks only whether there is a source.
SourceStored(r) ==
  /\ HasProfile(r.tenant, r.entity)
  /\ r.source # Absent => r.source \in StoredIds(disk)

\* The foreign keys and the trigger entity_refs_require_visible_source.
ReferenceAllowed(r) ==
  /\ HasProfile(r.tenant, r.entity)
  /\ IF r.state = "available" THEN Absent \notin {r.object, r.source}
     ELSE r.object = Absent
  /\ r.source # Absent => \E o \in VisibleTo(disk, r.tenant) : o.id = r.source

InsertReference(r) ==
  /\ lock = NoWriter
  /\ ReferenceAllowed(r)
  /\ entities' = [entities EXCEPT !.refs = @ \cup {r}]
  /\ UNCHANGED <<vars, read>>

RelationshipAllowed(r) ==
  /\ HasProfile(r.tenant, r.entity)
  /\ r.state = "available" <=> r.related # Absent

InsertRelationship(r) ==
  /\ lock = NoWriter
  /\ RelationshipAllowed(r)
  /\ entities' = [entities EXCEPT !.relationships = @ \cup {r}]
  /\ UNCHANGED <<vars, read>>

-----------------------------------------------------------------------------
(* The reads.                                                              *)

Reads == UNCHANGED <<vars, entities>>

(* get_observation, which the ingester asks for one id.                    *)
BeginGet(id) ==
  /\ read.step = "idle"
  /\ read' = [NoRead EXCEPT !.step = "row", !.asked = "get", !.id = id,
                            !.todo = <<id>>, !.start = disk.observations]
  /\ Reads

(* A request for the lineage of an observation.                            *)
BeginLineage(request, id) ==
  /\ read.step = "idle"
  /\ Authenticated(request)
  /\ LET ids == VisibleLineage(disk, id, request.tenant)
     IN  read' = [NoRead EXCEPT !.step = IF ids = << >> THEN "failed" ELSE "row",
                    !.asked = "lineage", !.tenant = request.tenant, !.id = id,
                    !.todo = ids, !.start = VisibleTo(disk, request.tenant)]
  /\ Reads

(* A request for the newest observations.                                  *)
BeginList(request, limit) ==
  /\ read.step = "idle"
  /\ Authenticated(request)
  /\ LET ids == NewestVisible(disk, request.tenant, limit)
     IN  read' = [NoRead EXCEPT !.step = IF ids = << >> THEN "done" ELSE "row",
                    !.asked = "list", !.tenant = request.tenant, !.limit = limit,
                    !.todo = ids, !.start = VisibleTo(disk, request.tenant)]
  /\ Reads

(* get_observation: the row first ...                                      *)
SelectRow ==
  /\ read.step = "row"
  /\ LET rows == { o \in disk.observations : o.id = Head(read.todo) }
     IN  IF rows = {} THEN read' = [read EXCEPT !.step = "failed"]
         ELSE read' = [read EXCEPT !.step = "subjects", !.row = CHOOSE o \in rows : TRUE]
  /\ Reads

(* ... then its subjects and references; a record of another tenant is     *)
(* not found, and the whole read with it.                                  *)
SelectSubjects ==
  LET record == [row |-> read.row,
                 subjects |-> { s.subject : s \in { t \in disk.subjects :
                                                      t.id = read.row.id } }]
  IN  /\ read.step = "subjects"
      /\ IF ~Visible(read.row, read.tenant)
         THEN read' = [read EXCEPT !.step = "failed"]
         ELSE read' = [read EXCEPT !.got = Append(@, record), !.todo = Tail(@),
                         !.step = IF Tail(read.todo) = << >> THEN "done" ELSE "row"]
      /\ Reads

(* A request for the profile of an entity, or for its accountability too.  *)
BeginEntity(request, entity) ==
  /\ read.step = "idle"
  /\ Authenticated(request)
  /\ \E asked \in {"profile", "accountability"} :
       read' = [NoRead EXCEPT !.asked = asked, !.tenant = request.tenant,
                  !.id = entity,
                  !.step = IF ~HasProfile(request.tenant, entity) THEN "failed"
                           ELSE IF asked = "profile" THEN "done" ELSE "refs",
                  !.start = { r \in entities.refs :
                                r.tenant = request.tenant /\ r.entity = entity }]
  /\ Reads

SelectReferences ==
  /\ read.step = "refs"
  /\ read' = [read EXCEPT !.step = "relationships",
                !.refs = { r \in entities.refs :
                             r.tenant = read.tenant /\ r.entity = read.id }]
  /\ Reads

SelectRelationships ==
  /\ read.step = "relationships"
  /\ read' = [read EXCEPT !.step = "done",
                !.relationships = { r \in entities.relationships :
                                      r.tenant = read.tenant /\ r.entity = read.id }]
  /\ Reads

Answer == read.step \in {"done", "failed"} /\ read' = NoRead /\ Reads

-----------------------------------------------------------------------------
ReadsInit ==
  /\ Init
  /\ entities = NoEntities
  /\ read = NoRead

Ids == { o.id : o \in Candidate }

ReadsNext ==
  \/ Next /\ UNCHANGED <<entities, read>>
  \/ \E p \in Profiles : InsertEntity(p)
  \/ \E r \in References : InsertReference(r)
  \/ \E r \in Relationships : InsertRelationship(r)
  \/ \E id \in Ids : BeginGet(id)
  \/ \E request \in Requests, id \in Ids : BeginLineage(request, id)
  \/ \E request \in Requests, limit \in Limits : BeginList(request, limit)
  \/ \E request \in Requests, p \in Profiles : BeginEntity(request, p.entity)
  \/ SelectRow \/ SelectSubjects
  \/ SelectReferences \/ SelectRelationships
  \/ Answer

ReadsSpec == ReadsInit /\ [][ReadsNext]_readsVars

-----------------------------------------------------------------------------
(* What a reader puts together from separate SELECTs is the observation as *)
(* it was appended, whichever appends committed between them.              *)
ReadsWholeObservation ==
  \A k \in DOMAIN read.got : read.got[k].subjects = read.got[k].row.subjects

(* Fetched one by one while others append, a tenant's answers are those of *)
(* the moment it asked.  What it could see then is found.  A lineage leads *)
(* from correction to corrected without a gap, up to an original or to     *)
(* what the tenant may not see; a list has as many records as it asked     *)
(* for, or all, newest first, and leaves out none that is newer than one   *)
(* of them.  Every record is public or the tenant's own.                   *)
AnswersAreTheHistory ==
  LET Row(k) == read.got[k].row
      n == Len(read.got)
      Seen == { Row(k) : k \in 1..n }
  IN  /\ \A k \in 1..n : Visible(Row(k), read.tenant)
      /\ read.step = "failed" =>
           /\ read.asked # "list"
           /\ read.asked \in {"get", "lineage"} =>
                \A o \in read.start : o.id # read.id
      /\ read.step = "done" /\ read.asked = "lineage" =>
           /\ Row(1).id = read.id
           /\ \A k \in 1..n-1 : Row(k).supersedes = Row(k + 1).id
           /\ \A o \in read.start : o.id # Row(n).supersedes
      /\ read.step = "done" /\ read.asked = "list" =>
           /\ Cardinality(read.start) >= read.limit => n = read.limit
           /\ Cardinality(read.start) < read.limit => Seen = read.start
           /\ \A k \in 1..n-1 : Newer(Row(k), Row(k + 1))
           /\ \A o \in read.start \ Seen, k \in 1..n : Newer(Row(k), o)

(* The accountability of an entity is all that was stored for the tenant   *)
(* when it asked, and every observation it refers to can be followed by    *)
(* that tenant, by the lineage request, then and ever after.               *)
ReferencesCanBeFollowed ==
  /\ read.step = "done" /\ read.asked = "accountability" => read.start \subseteq read.refs
  /\ \A r \in read.refs :
       /\ r.tenant = read.tenant
       /\ r.source # Absent => VisibleLineage(disk, r.source, read.tenant) # << >>
=============================================================================

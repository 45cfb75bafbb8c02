------------------------------ MODULE ModelTable ------------------------------
(***************************************************************************)
(* The table of models: administrators create, patch, clone and delete     *)
(* models, requests look them up by name.  A patch reads the row, changes  *)
(* the copy and writes all of it back under the id that the copy has then. *)
(*                                                                         *)
(* These are the steps of the handlers; Server puts them together.  What   *)
(* a model says apart from its id and enabled is one value, text.          *)
(***************************************************************************)
EXTENDS Naturals

CONSTANTS
  ModelUsers,   \* goroutines that serve requests
  ModelIds,     \* model ids
  DefaultModel, \* epic-alpha
  Texts,        \* values of the other columns
  NoModel       \* stands for a row that is not there

ASSUME ModelAssumption == DefaultModel \in ModelIds /\ Texts # {}

VARIABLES
  models, \* the table: a row for each id, or NoModel
  copy,   \* the row a handler has read, with its id
  freed   \* history: ids whose row was deleted and not created since

modelVars == <<models, copy, freed>>

Texts0 == CHOOSE t \in Texts : TRUE
Rows == [enabled : BOOLEAN, text : Texts]
NoCopy == [id |-> NoModel]
Row(c) == [enabled |-> c.enabled, text |-> c.text]
Copy(id) == [id |-> id, enabled |-> models[id].enabled, text |-> models[id].text]
Seeded == [enabled |-> TRUE, text |-> Texts0]

\* seedDefaults on a new database.
ModelInit ==
  /\ models = [id \in ModelIds |-> IF id = DefaultModel THEN Seeded ELSE NoModel]
  /\ copy = [h \in ModelUsers |-> NoCopy] /\ freed = {}

GetModel(h, id) ==
  /\ models[id] # NoModel
  /\ copy' = [copy EXCEPT ![h] = Copy(id)]
  /\ UNCHANGED <<models, freed>>

Insert(row, id) ==
  /\ models[id] = NoModel
  /\ models' = [models EXCEPT ![id] = row]
  /\ freed' = freed \ {id}

\* The key of the table is the id: an insert fails when it is taken.  A new
\* model is enabled, a clone is as its source was read.
CreateModel(id, t) == Insert([enabled |-> TRUE, text |-> t], id) /\ UNCHANGED copy

CloneModel(h, id) == Insert(Row(copy[h]), id) /\ UNCHANGED copy

\* applyModelPatch on the copy, its id included.
Patch(c, patch) == [f \in DOMAIN c |-> IF f \in DOMAIN patch THEN patch[f] ELSE c[f]]

\* Mutant of UpdateModel: the row is inserted when there is none.
UpdateModelInserting(h, patch) ==
  LET c == Patch(copy[h], patch)
  IN /\ models' = [models EXCEPT ![c.id] = Row(c)]
     /\ UNCHANGED <<copy, freed>>

\* UPDATE ... WHERE model_id: no row is an error.
UpdateModel(h, patch) ==
  LET c == Patch(copy[h], patch)
  IN /\ models[c.id] # NoModel
     /\ models' = [models EXCEPT ![c.id] = Row(c)]
     /\ UNCHANGED <<copy, freed>>

DeleteModel(id) ==
  /\ models' = [models EXCEPT ![id] = NoModel]
  /\ freed' = IF models[id] = NoModel THEN freed ELSE freed \union {id}
  /\ UNCHANGED copy

\* seedDefaults, at each start.
SeedModels ==
  /\ IF models[DefaultModel] = NoModel THEN Insert(Seeded, DefaultModel)
     ELSE UNCHANGED <<models, freed>>
  /\ copy' = [h \in ModelUsers |-> NoCopy]

\* resolveModel succeeds: an enabled model, or for an unknown name and if the
\* settings say so the default model, which is not asked whether it is enabled.
Resolve(h, id, fallback) ==
  \/ GetModel(h, id) /\ models[id].enabled
  \/ /\ models[id] = NoModel /\ fallback
     /\ GetModel(h, DefaultModel)

-----------------------------------------------------------------------------
(***************************************************************************)
(* A deleted model stays deleted until somebody creates it again: an edit  *)
(* or a clone that had read it before does not bring it back.              *)
(***************************************************************************)
DeletedStays == \A id \in freed : models[id] = NoModel

=============================================================================

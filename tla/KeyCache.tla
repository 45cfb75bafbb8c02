------------------------------- MODULE KeyCache -------------------------------
(***************************************************************************)
(* API keys: the row of one key, auth.Manager's cache of it, and the       *)
(* handlers that check the key or edit it.  Editing reads the whole row,   *)
(* patches the copy and writes it back; checking fills the cache, which    *)
(* nothing ever empties while the process runs.                            *)
(*                                                                         *)
(* These are the steps of the handlers; Server puts them together.  The    *)
(* key's name, its list of models and the usage count are left out.        *)
(***************************************************************************)
EXTENDS Naturals

CONSTANTS
  KeyUsers,  \* goroutines that serve requests
  Limits     \* values of max_sessions

ASSUME KeyAssumption == Limits # {}

VARIABLES
  key,    \* the row: NoKey once deleted
  cache,  \* the cache's record for it, NoKey if it has none
  held,   \* the record a handler has read
  was,    \* history: the rows there have been since the process started
  ideal,  \* history: the row if every edit were one step
  stale   \* history: an edit wrote a copy that was no longer the row

keyVars == <<key, cache, held, was, ideal, stale>>

NoKey == [enabled |-> FALSE]
Keys == [enabled : BOOLEAN, limit : Limits]

\* handleKeys creates it enabled; which limit it has does not matter.
KeyInit ==
  /\ key = [enabled |-> TRUE, limit |-> CHOOSE l \in Limits : TRUE] /\ cache = NoKey
  /\ held = [h \in KeyUsers |-> NoKey]
  /\ was = {key} /\ ideal = key /\ stale = FALSE

Hold(h, record) == held' = [held EXCEPT ![h] = record]

-----------------------------------------------------------------------------
\* Check: a read lock, the query, and the write lock that fills the cache.
Lookup(h) == Hold(h, cache) /\ UNCHANGED <<key, cache, was, ideal, stale>>

\* An error counts as no key.
Query(h) ==
  /\ \E found \in {key, NoKey} : Hold(h, found)
  /\ UNCHANGED <<key, cache, was, ideal, stale>>

Fill(h) ==
  /\ cache' = IF held[h] = NoKey THEN cache ELSE held[h]
  /\ UNCHANGED <<key, held, was, ideal, stale>>

\* Mutant of Accepted: any known key will do.
AcceptedIfKnown(h) == held[h] # NoKey

Accepted(h) == held[h] # NoKey /\ held[h].enabled

-----------------------------------------------------------------------------
\* handleKeyDetail: ListKeys, then UpdateKey of the patched copy or DeleteKey.
ListKeys(h) == Hold(h, key) /\ UNCHANGED <<key, cache, was, ideal, stale>>

Patched(record, patch) ==
  [f \in DOMAIN record |-> IF f \in DOMAIN patch THEN patch[f] ELSE record[f]]

Write(row) == key' = row /\ was' = was \union {row}

\* Mutant of UpdateKey: a key that is gone is inserted again.
UpdateKeyInserting(h, patch) ==
  /\ Write(Patched(held[h], patch))
  /\ ideal' = IF ideal = NoKey THEN NoKey ELSE Patched(ideal, patch)
  /\ stale' = (stale \/ (held[h] # key /\ key # NoKey))
  /\ UNCHANGED <<cache, held>>

\* UPDATE ... WHERE id changes nothing once the row is gone.
UpdateKey(h, patch) ==
  /\ \/ key = NoKey /\ UNCHANGED <<key, was, ideal, stale>>
     \/ /\ key # NoKey
        /\ Write(Patched(held[h], patch))
        /\ ideal' = Patched(ideal, patch)
        /\ stale' = (stale \/ held[h] # key)
  /\ UNCHANGED <<cache, held>>

DeleteKey(h) == Write(NoKey) /\ ideal' = NoKey /\ UNCHANGED <<cache, held, stale>>

\* A new process starts with an empty cache.
StartKeys ==
  /\ cache' = NoKey /\ was' = {key} /\ held' = [h \in KeyUsers |-> NoKey]
  /\ UNCHANGED <<key, ideal, stale>>

-----------------------------------------------------------------------------
(***************************************************************************)
(* Edits of a key by two administrators are both kept unless one of them   *)
(* wrote back a copy that the other had changed meanwhile; and a deletion  *)
(* is kept always: an edit that read the key before does not bring it back *)
(* (handleKeyDetail reads the whole row and UpdateKey writes all of it).   *)
(***************************************************************************)
EditsKept == (stale /\ key # NoKey /\ ideal # NoKey) \/ key = ideal

=============================================================================

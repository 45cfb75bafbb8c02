------------------------------- MODULE AuditLog -------------------------------
(***************************************************************************)
(* The audit log (audit.Logger): handlers append entries to a batch, and a *)
(* flush takes the batch under the lock and stores its entries one by one  *)
(* outside it.  The flush loop, handlers whose entry fills the batch,      *)
(* handlers that list the log and main at shutdown all flush.              *)
(*                                                                         *)
(* Entries are numbered in the order Log took them.                        *)
(***************************************************************************)
EXTENDS Naturals, Sequences, FiniteSets, Functions

CONSTANTS
  Flushers,  \* goroutines that may flush
  BatchMax,  \* entries that make Log flush, 32 in the code
  MaxLogged  \* bound: entries logged

ASSUME AuditAssumption == BatchMax \in Nat \ {0} /\ MaxLogged \in Nat

VARIABLES
  batch,  \* entries that wait for a flush
  hands,  \* entries a flusher has taken and not yet stored
  audit,  \* the audit table
  logged, \* how many entries were logged
  failed, \* history: entries whose INSERT failed, the error is ignored
  lost    \* history: entries in memory when the process ended

auditVars == <<batch, hands, audit, logged, failed, lost>>

Entries == 1..logged

AuditInit ==
  /\ batch = <<>> /\ hands = [f \in Flushers |-> <<>>]
  /\ audit = <<>> /\ logged = 0 /\ failed = {} /\ lost = {}

\* The caller flushes next if this fills the batch.
Log ==
  /\ logged < MaxLogged
  /\ logged' = logged + 1
  /\ batch' = Append(batch, logged + 1)
  /\ UNCHANGED <<hands, audit, failed, lost>>

BatchFull == Len(batch) >= BatchMax

\* Mutant of TakeBatch: the batch is copied and emptied only when stored.
TakeBatchLater(f) ==
  /\ hands[f] = <<>> /\ batch # <<>>
  /\ hands' = [hands EXCEPT ![f] = batch]
  /\ UNCHANGED <<batch, audit, logged, failed, lost>>

\* The critical section of Flush; an empty batch makes it return.
TakeBatch(f) ==
  /\ hands[f] = <<>> /\ batch # <<>>
  /\ hands' = [hands EXCEPT ![f] = batch]
  /\ batch' = <<>>
  /\ UNCHANGED <<audit, logged, failed, lost>>

AppendAudit(f) ==
  /\ hands[f] # <<>>
  /\ hands' = [hands EXCEPT ![f] = Tail(@)]
  /\ \/ audit' = Append(audit, Head(hands[f])) /\ UNCHANGED failed
     \/ failed' = failed \union {Head(hands[f])} /\ UNCHANGED audit
  /\ UNCHANGED <<batch, logged, lost>>

\* The process ends: what is in memory is gone.
Forget ==
  /\ lost' = lost \union Range(batch) \union UNION {Range(hands[f]) : f \in Flushers}
  /\ batch' = <<>> /\ hands' = [f \in Flushers |-> <<>>]
  /\ UNCHANGED <<audit, logged, failed>>

AuditNext ==
  \/ Log \/ Forget
  \/ \E f \in Flushers : TakeBatch(f) \/ AppendAudit(f)

AuditSpec == AuditInit /\ [][AuditNext]_auditVars

-----------------------------------------------------------------------------
\* The places of an entry in one sequence, under the sequence's name.
Spots(s, e, name) == {<<name, i>> : i \in {j \in 1..Len(s) : s[j] = e}}

(***************************************************************************)
(* Every entry is in exactly one place, once: waiting, in one flusher's    *)
(* hands, stored, refused by the database, or gone with a process.  No     *)
(* interleaving of flushers, which swap the batch while others append,     *)
(* loses an entry or stores it twice.                                      *)
(***************************************************************************)
Places(e) ==
  Spots(batch, e, "batch") \union Spots(audit, e, "audit")
  \union (UNION {Spots(hands[f], e, f) : f \in Flushers})
  \union (IF e \in failed THEN {<<"failed", 0>>} ELSE {})
  \union (IF e \in lost THEN {<<"lost", 0>>} ELSE {})

AuditOnce == \A e \in Entries : Cardinality(Places(e)) = 1

=============================================================================

------------------------------ MODULE HostLease ------------------------------
(***************************************************************************)
(* createHostLease (web/src/host-lease.ts): a browser that has Web Locks   *)
(* uses LockLease, any other keeps the record of RecordLease.  All pages   *)
(* of an origin are pages of one browser, so the choice is the same for    *)
(* all of them and is made once; the mechanism that was not chosen stays   *)
(* as it was in the beginning.                                             *)
(***************************************************************************)
EXTENDS LockLease

CONSTANTS RetryEvery, BeatEvery, Stale,
          MaxRecordTries,    \* bound: attempts of one take-over of the record
          MaxFreezes,        \* bound: times a page is frozen
          MaxRefusals        \* bound: writes that the storage refuses

ASSUME TimeAssumption == {RetryEvery, BeatEvery, Stale} \subseteq Nat \ {0}
ASSUME RecordBoundAssumption == {MaxRecordTries, MaxFreezes, MaxRefusals} \subseteq Nat

VARIABLES
  hasLocks,     \* does the browser have navigator.locks?
  rOpen, rStopped, rStatus, rRetry, rTries, rUsed,
  frozen, record, claim, verify, beat

lockVars == vars
recordVars == <<rOpen, rStopped, frozen, rStatus, record, claim, verify, rRetry, beat,
                rTries, rUsed>>
leaseVars == <<hasLocks, lockVars, recordVars>>

Record == INSTANCE RecordLease
          WITH open <- rOpen, stopped <- rStopped, status <- rStatus, retry <- rRetry,
               tries <- rTries, used <- rUsed,
               MaxTries <- MaxRecordTries, MaxFailures <- MaxRefusals

LeaseInit == hasLocks \in BOOLEAN /\ Init /\ Record!Init

Locks(A) == hasLocks /\ A /\ UNCHANGED <<hasLocks, recordVars>>
Records(A) == ~hasLocks /\ A /\ UNCHANGED <<hasLocks, lockVars>>

LeaseNext == Locks(Next) \/ Records(Record!Next)

(* The fairness of LockLease and of RecordLease, for the one that is used. *)
LeaseSpec ==
  /\ LeaseInit /\ [][LeaseNext]_leaseVars
  /\ \A t \in Tab :
       /\ WF_leaseVars(Locks(Retry(t))) /\ WF_leaseVars(Locks(takeOverAttempt(t)))
       /\ WF_leaseVars(Locks(Callback(t))) /\ WF_leaseVars(Locks(onmessage(t)))
       /\ WF_leaseVars(Locks(Serve(t)))
       /\ WF_leaseVars(Records(Record!PageStep(t))) /\ WF_leaseVars(Records(Record!Thaw(t)))
  /\ WF_leaseVars(Records(Record!Tick))

-----------------------------------------------------------------------------
(* Properties: those of LockLease under their own names, and those of the  *)
(* stored record.                                                          *)

(* The stored record, the timers and the pages keep their shape.           *)
RecordTypeOK == Record!TypeOK

(* One page at most hosts by the stored record, see RecordLease.           *)
RecordOneHost == Record!OneHost

(* Two hosts, after one of them was suspended, become one again.           *)
Heals == Record!Heals

(* A page that stays is promoted when the last holder of the record died.  *)
AutoPromotesByRecord == Record!AutoPromotes
=============================================================================

-------------------------- MODULE MemResultProofs --------------------------
(***************************************************************************)
(* Proofs about MemResult.tla: what Finish() and the callback see of the   *)
(* result, for any number of waiting threads and any set of status codes.  *)
(*                                                                         *)
(* Neither property is inductive.  Both rest on two facts about the mutex: *)
(* the code changes only in the io thread's critical section, and a thread *)
(* that a notification woke can only look at the code after that section.  *)
(***************************************************************************)
EXTENDS MemResult, TLAPS

Places == {"idle", "locked", "waiting", "woken", "done"}
IoPlaces == {"idle", "locked", "set", "callback", "done"}

TypeInv ==
    /\ mErrorCode \in Statuses \cup {PENDING}
    /\ mSyncMut \in Waiters \cup {"io", "free"}
    /\ waiter \in [Waiters -> Places]
    /\ io \in IoPlaces
    /\ ret \in [Waiters -> Statuses \cup {PENDING, "none"}]
    /\ spurious \in SUBSET Waiters

\* The mutex is with the one that is in its critical section.
MutexInv ==
    /\ \A t \in Waiters : waiter[t] = "locked" <=> mSyncMut = t
    /\ io \in {"locked", "set"} <=> mSyncMut = "io"

\* The code is stored in the io thread's critical section, and stays.
StoredInv == io \in {"idle", "locked"} <=> mErrorCode = PENDING

\* A thread woken by the notification comes after the code was stored; what
\* was returned is the code, or was returned before.
WokenInv ==
    \A t \in Waiters :
       /\ waiter[t] = "woken" /\ t \notin spurious => mErrorCode # PENDING
       /\ ret[t] \in {mErrorCode, PENDING, "none"}

IInv == TypeInv /\ MutexInv /\ StoredInv /\ WokenInv /\ PendingOnlySpurious

-----------------------------------------------------------------------------
LEMMA InitIInv == Init => IInv
  BY ResultAssumption
  DEF Init, IInv, TypeInv, MutexInv, StoredInv, WokenInv,
      PendingOnlySpurious, Places, IoPlaces

LEMMA FinishStep ==
    ASSUME IInv, NEW t \in Waiters,
           \/ FinishLock(t) \/ FinishWait(t)
           \/ SpuriousWakeup(t) \/ FinishReturn(t)
    PROVE  IInv'
  <1> USE ResultAssumption
          DEF IInv, TypeInv, MutexInv, StoredInv, WokenInv,
              PendingOnlySpurious, Places, IoPlaces
  <1>1. CASE FinishLock(t)
    BY <1>1 DEF FinishLock
  <1>2. CASE FinishWait(t)
    BY <1>2 DEF FinishWait
  <1>3. CASE SpuriousWakeup(t)
    BY <1>3 DEF SpuriousWakeup
  <1>4. CASE FinishReturn(t)
    BY <1>4 DEF FinishReturn
  <1>5. QED
    BY <1>1, <1>2, <1>3, <1>4

LEMMA NotifyStep ==
    ASSUME IInv, \/ NotifyLock \/ NotifySet \/ NotifyAll \/ Callback
    PROVE  IInv'
  <1> USE ResultAssumption
          DEF IInv, TypeInv, MutexInv, StoredInv, WokenInv,
              PendingOnlySpurious, Places, IoPlaces
  <1>1. CASE NotifyLock
    BY <1>1 DEF NotifyLock
  <1>2. CASE NotifySet
    BY <1>2 DEF NotifySet
  <1>3. CASE NotifyAll
    BY <1>3 DEF NotifyAll
  <1>4. CASE Callback
    BY <1>4 DEF Callback
  <1>5. QED
    BY <1>1, <1>2, <1>3, <1>4

\* The invariant holds in every state of the specification.
THEOREM ResultInvariant == Spec => []IInv
  <1>1. Init => IInv
    BY InitIInv
  <1>2. IInv /\ [Next]_vars => IInv'
    <2>1. SUFFICES ASSUME IInv, [Next]_vars PROVE IInv'
      OBVIOUS
    <2>2. CASE UNCHANGED vars
      BY <2>1, <2>2 DEF vars, IInv, TypeInv, MutexInv, StoredInv, WokenInv,
                        PendingOnlySpurious
    <2>3. CASE Next
      BY <2>1, <2>3, FinishStep, NotifyStep DEF Next
    <2>4. QED
      BY <2>1, <2>2, <2>3
  <1>3. QED
    BY <1>1, <1>2, PTL DEF Spec

\* MemResult::Finish returns ERequest_PENDING only to a thread whose wait()
\* ended without a notification, however many threads wait.
THEOREM SpuriousOnly == Spec => []PendingOnlySpurious
  BY ResultInvariant, PTL DEF IInv

\* RequestItem::Notify runs the callback after the code was stored, and
\* whatever Finish has told a thread by then is that code, or PENDING from
\* before.
THEOREM CallbackSees == Spec => []CallbackSeesResult
  <1>1. IInv => CallbackSeesResult
    BY DEF IInv, StoredInv, WokenInv, CallbackSeesResult
  <1>2. QED
    BY <1>1, ResultInvariant, PTL
=============================================================================

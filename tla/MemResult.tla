----------------------------- MODULE MemResult -----------------------------
(***************************************************************************)
(* memcachedClient/MemResult.cpp and RequestItem.cpp: the result of one    *)
(* request, shared by the application's threads, which may block in        *)
(* Finish(), and by the io thread, which calls Notify() and the callback   *)
(* once, when the request is finished (MemcachedClient!RunFinish).         *)
(***************************************************************************)
EXTENDS Naturals, FiniteSets

CONSTANTS Waiters,    \* application threads that call Finish
          Statuses,   \* the codes the request may end with
          PENDING     \* ERequest_PENDING

\* The status codes, the threads and the marks of the model are told apart.
ASSUME ResultAssumption ==
    /\ PENDING \notin Statuses /\ PENDING # "none"
    /\ {"io", "free"} \cap Waiters = {}

VARIABLES
    mErrorCode,  \* of the result
    mSyncMut,    \* who holds the mutex: a thread, "io" or "free"
    waiter,      \* where each thread is in Finish
    io,          \* where the io thread is in RequestItem::Notify
    ret,         \* what Finish returned to each thread
    spurious     \* threads that came out of wait() without a notify_all

vars == <<mErrorCode, mSyncMut, waiter, io, ret, spurious>>

Init == /\ mErrorCode = PENDING /\ mSyncMut = "free"
        /\ waiter = [t \in Waiters |-> "idle"]
        /\ io = "idle"
        /\ ret = [t \in Waiters |-> "none"]
        /\ spurious = {}

-----------------------------------------------------------------------------
(* Finish(): lock, wait once, return the code.                             *)

FinishLock(t) == /\ waiter[t] = "idle" /\ mSyncMut = "free"
                 /\ mSyncMut' = t
                 /\ waiter' = [waiter EXCEPT ![t] = "locked"]
                 /\ UNCHANGED <<mErrorCode, io, ret, spurious>>

\* mSyncEvent.wait(lock) releases the mutex and blocks, in one step
FinishWait(t) == /\ waiter[t] = "locked"
                 /\ mSyncMut' = "free"
                 /\ waiter' = [waiter EXCEPT ![t] = "waiting"]
                 /\ UNCHANGED <<mErrorCode, io, ret, spurious>>

\* a wait may end without a notification
SpuriousWakeup(t) == /\ waiter[t] = "waiting"
                     /\ waiter' = [waiter EXCEPT ![t] = "woken"]
                     /\ spurious' = spurious \cup {t}
                     /\ UNCHANGED <<mErrorCode, mSyncMut, io, ret>>

\* wait takes the mutex again, and Finish returns, giving it back
FinishReturn(t) == /\ waiter[t] = "woken" /\ mSyncMut = "free"
                   /\ waiter' = [waiter EXCEPT ![t] = "done"]
                   /\ ret' = [ret EXCEPT ![t] = mErrorCode]
                   /\ UNCHANGED <<mErrorCode, mSyncMut, io, spurious>>

-----------------------------------------------------------------------------
(* RequestItem::Notify on the io thread: MemResult::Notify, then the       *)
(* callback.                                                               *)

NotifyLock == /\ io = "idle" /\ mSyncMut = "free"
              /\ mSyncMut' = "io" /\ io' = "locked"
              /\ UNCHANGED <<mErrorCode, waiter, ret, spurious>>

\* NotifySet that leaves the code as it is
NotifyNoStore == /\ io = "locked" /\ io' = "set"
                 /\ UNCHANGED <<mErrorCode, mSyncMut, waiter, ret, spurious>>

NotifySet == /\ io = "locked"
             /\ mErrorCode' \in Statuses
             /\ io' = "set"
             /\ UNCHANGED <<mSyncMut, waiter, ret, spurious>>

\* NotifyAll that wakes one thread only
NotifyOne == /\ io = "set"
             /\ LET asleep == {t \in Waiters : waiter[t] = "waiting"}
                IN  IF asleep = {} THEN UNCHANGED waiter
                    ELSE waiter' = [waiter EXCEPT
                                       ![CHOOSE t \in asleep : TRUE] = "woken"]
             /\ mSyncMut' = "free" /\ io' = "callback"
             /\ UNCHANGED <<mErrorCode, ret, spurious>>

\* notify_all, and the end of the lock's scope
NotifyAll == /\ io = "set"
             /\ waiter' = [t \in Waiters |-> IF waiter[t] = "waiting"
                                             THEN "woken" ELSE waiter[t]]
             /\ mSyncMut' = "free" /\ io' = "callback"
             /\ UNCHANGED <<mErrorCode, ret, spurious>>

\* Callback that runs before the code is stored
CallbackEarly == /\ io \in {"idle", "callback"}
                 /\ io' = "done"
                 /\ UNCHANGED <<mErrorCode, mSyncMut, waiter, ret, spurious>>

\* mCallback(mResult): the callback sees the result
Callback == /\ io = "callback" /\ io' = "done"
            /\ UNCHANGED <<mErrorCode, mSyncMut, waiter, ret, spurious>>

-----------------------------------------------------------------------------
Next == \/ \E t \in Waiters : \/ FinishLock(t) \/ FinishWait(t)
                              \/ SpuriousWakeup(t) \/ FinishReturn(t)
        \/ NotifyLock \/ NotifySet \/ NotifyAll \/ Callback

\* The request does finish (MemcachedClient!CallsAnswered) and the mutex is
\* handed out fairly.
Fairness == /\ SF_vars(NotifyLock)
            /\ WF_vars(NotifySet) /\ WF_vars(NotifyAll) /\ WF_vars(Callback)
            /\ \A t \in Waiters : WF_vars(FinishWait(t)) /\ SF_vars(FinishReturn(t))

Spec == Init /\ [][Next]_vars /\ Fairness

-----------------------------------------------------------------------------
(* Properties.                                                             *)

\* Finish reports ERequest_PENDING only to a thread whose wait ended without
\* a notification; a thread woken by Notify sees the final code.
PendingOnlySpurious ==
    \A t \in Waiters : ret[t] = PENDING => t \in spurious

\* The callback and everything after it see the code every thread is told.
CallbackSeesResult ==
    io \in {"callback", "done"} =>
       /\ mErrorCode # PENDING
       /\ \A t \in Waiters : ret[t] \in {mErrorCode, PENDING, "none"}

\* A thread that is in wait() when the request is notified comes out of it:
\* no waiter is left behind, however many there are.
WaitersReturn ==
    \A t \in Waiters : waiter[t] = "waiting" /\ io # "callback" /\ io # "done"
                          ~> waiter[t] = "done"

\* example/SyncGet.cpp starts the io thread and then calls Finish(): a call
\* of Finish returns.
FinishReturns == \A t \in Waiters : waiter[t] = "locked" ~> waiter[t] = "done"
=============================================================================

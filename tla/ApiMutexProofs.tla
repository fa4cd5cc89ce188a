--------------------------- MODULE ApiMutexProofs ---------------------------
(***************************************************************************)
(* What ApiMutex guarantees for any number of processes, threads and       *)
(* functions.  Mutual exclusion is not inductive alone: that nobody runs f *)
(* when its object does not exist needs HandlesExact, which says that a    *)
(* running call always has its handle open.                                *)
(***************************************************************************)
EXTENDS ApiMutex, TLAPS

MutexInv == TypeOK /\ MutualExclusion /\ HandlesExact

USE HostAssumption, ApiAssumption

\* MutexInv holds before any call is made.
LEMMA MutexInvInit == Init => MutexInv
  BY DEF Init, MutexInv, TypeOK, MutualExclusion, HandlesExact

\* Entering MUTEX_START: the caller becomes owner only of an object that did not
\* exist, that is when no call of the function was in progress.
LEMMA StartKeepsInv ==
  ASSUME MutexInv, NEW t \in Thread, NEW f \in Api, MutexStart(t, f)
  PROVE  MutexInv'
<1>1. TypeOK'
  BY DEF MutexInv, TypeOK, MutexStart
<1>2. MutualExclusion'
  <2>1. \A u \in Thread : pc'[u] = "owner" /\ fn'[u] = f => u = t \/ u \in held[f]
    BY DEF MutexInv, TypeOK, HandlesExact, MutexStart
  <2>2. pc'[t] = "owner" => held[f] = {}
    BY DEF MutexInv, TypeOK, MutexStart, Exists
  <2>3. \A u \in Thread : u # t => pc'[u] = pc[u] /\ fn'[u] = fn[u]
    BY DEF MutexInv, TypeOK, MutexStart
  <2>4. fn'[t] = f
    BY DEF MutexInv, TypeOK, MutexStart
  <2>. QED
    BY <2>1, <2>2, <2>3, <2>4 DEF MutexInv, MutualExclusion
<1>3. HandlesExact'
  BY DEF MutexInv, TypeOK, HandlesExact, MutexStart
<1>. QED
  BY <1>1, <1>2, <1>3 DEF MutexInv

\* A call that ends in any of its ways takes its thread out of held, and makes no
\* thread an owner.
LEMMA CloseKeepsInv ==
  ASSUME MutexInv, NEW t \in Thread, pc[t] # "idle", CloseMutex(t),
         leaked' \in [Api -> SUBSET Process]
  PROVE  MutexInv'
<1>1. fn[t] \in Api \/ fn[t] = NoApi
  BY DEF MutexInv, TypeOK
<1>2. TypeOK'
  BY <1>1 DEF MutexInv, TypeOK, CloseMutex
<1>3. MutualExclusion'
  BY DEF MutexInv, TypeOK, MutualExclusion, CloseMutex
<1>4. HandlesExact'
  BY <1>1 DEF MutexInv, TypeOK, HandlesExact, CloseMutex
<1>. QED
  BY <1>2, <1>3, <1>4 DEF MutexInv

\* A thread terminated or returned without CloseHandle leaves a handle of its process.
LEMMA LossIsTyped ==
  ASSUME TypeOK, NEW t \in Thread, LoseHandle(t)
  PROVE  leaked' \in [Api -> SUBSET Process]
  BY DEF TypeOK, LoseHandle

\* The exit of a process only ends calls.
LEMMA ExitKeepsInv ==
  ASSUME MutexInv, NEW p \in Process, ExitProcess(p)
  PROVE  MutexInv'
<1>1. TypeOK'
  BY DEF MutexInv, TypeOK, ExitProcess
<1>2. MutualExclusion'
  BY DEF MutexInv, TypeOK, MutualExclusion, ExitProcess
<1>3. HandlesExact'
  BY DEF MutexInv, TypeOK, HandlesExact, ExitProcess
<1>. QED
  BY <1>1, <1>2, <1>3 DEF MutexInv

\* Every step of the protocol keeps the invariant.
LEMMA MutexInvStep == MutexInv /\ [Next]_vars => MutexInv'
<1>. SUFFICES ASSUME MutexInv, [Next]_vars PROVE MutexInv'
  OBVIOUS
<1>0. TypeOK
  BY DEF MutexInv
<1>1. ASSUME NEW t \in Thread, NEW f \in Api, MutexStart(t, f) PROVE MutexInv'
  BY <1>1, StartKeepsInv
<1>2. ASSUME NEW t \in Thread, Refuse(t) PROVE MutexInv'
  BY <1>0, <1>2, CloseKeepsInv DEF Refuse, TypeOK
<1>3. ASSUME NEW t \in Thread, Return(t) PROVE MutexInv'
  BY <1>0, <1>3, CloseKeepsInv DEF Return, TypeOK
<1>4. ASSUME NEW t \in Thread, EarlyReturn(t) PROVE MutexInv'
  BY <1>0, <1>4, CloseKeepsInv, LossIsTyped DEF EarlyReturn, LoseHandle
<1>5. ASSUME NEW t \in Thread, KillThread(t) PROVE MutexInv'
  BY <1>0, <1>5, CloseKeepsInv, LossIsTyped DEF KillThread, LoseHandle
<1>6. ASSUME NEW p \in Process, ExitProcess(p) PROVE MutexInv'
  BY <1>6, ExitKeepsInv
<1>7. CASE UNCHANGED vars
  BY <1>7 DEF vars, MutexInv, TypeOK, MutualExclusion, HandlesExact
<1>. QED
  BY <1>1, <1>2, <1>3, <1>4, <1>5, <1>6, <1>7 DEF Next

\* The variables always have the types ApiMutex declares for them.
THEOREM TypeCorrect == Spec => []TypeOK
  BY MutexInvInit, MutexInvStep, PTL DEF Spec, MutexInv

\* No two threads, of whatever processes, are ever inside the same libwdi function.
THEOREM Exclusion == Spec => []MutualExclusion
  BY MutexInvInit, MutexInvStep, PTL DEF Spec, MutexInv

\* The open handles are always those of the calls in progress and the lost ones.
THEOREM HandlesAccounted == Spec => []HandlesExact
  BY MutexInvInit, MutexInvStep, PTL DEF Spec, MutexInv

=============================================================================

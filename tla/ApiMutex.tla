------------------------------ MODULE ApiMutex ------------------------------
(***************************************************************************)
(* The lock every exclusive libwdi call takes: MUTEX_START (logging.h)     *)
(* creates a kernel mutex object named "Global\<function>" and treats its  *)
(* mere EXISTENCE as the lock.  CreateMutexA never blocks: the caller that *)
(* creates the object runs the function; a caller that finds the object    *)
(* there closes the handle it was given and returns WDI_ERROR_BUSY.  The   *)
(* kernel deletes the object when its last handle is closed, so a handle   *)
(* that outlives its call (an early return, a thread that is terminated)   *)
(* keeps the function locked until its process exits.                      *)
(***************************************************************************)
EXTENDS FiniteSets

CONSTANTS
  Api,       \* the functions that start with MUTEX_START
  Leaky,     \* those with a return statement that skips CloseHandle(mutex)
  Timed,     \* those that run under the progress dialog and its time limit
  Process,   \* the processes that use the library
  Thread,    \* their threads
  Host,      \* Host[t]: the process thread t belongs to
  NoApi      \* "no function"

ASSUME ApiAssumption == /\ Leaky \subseteq Api
                        /\ Timed \subseteq Api
                        /\ NoApi \notin Api
ASSUME HostAssumption == Host \in [Thread -> Process]

VARIABLES
  pc,        \* pc[t]: "idle", "owner" (created the object), "refused" (found it there)
  fn,        \* fn[t]: the function t is in
  held,      \* held[f]: the threads whose current call holds a handle on f's object
  leaked     \* leaked[f]: the processes left with a handle no call will close

vars == <<pc, fn, held, leaked>>

TypeOK ==
  /\ pc \in [Thread -> {"idle", "owner", "refused"}]
  /\ fn \in [Thread -> Api \cup {NoApi}]
  /\ held \in [Api -> SUBSET Thread]
  /\ leaked \in [Api -> SUBSET Process]

Init ==
  /\ pc = [t \in Thread |-> "idle"]
  /\ fn = [t \in Thread |-> NoApi]
  /\ held = [f \in Api |-> {}]
  /\ leaked = [f \in Api |-> {}]

\* The kernel object named after f exists while any handle on it is open.
Exists(f) == held[f] # {} \/ leaked[f] # {}

----------------------------------------------------------------------------
\* A mutant of MutexStart: the ALREADY_EXISTS test is made in this process only.
MutexStartLocal(t, f) ==
  /\ pc[t] = "idle"
  /\ pc' = [pc EXCEPT ![t] =
              IF \E u \in held[f] : Host[u] = Host[t] THEN "refused" ELSE "owner"]
  /\ fn' = [fn EXCEPT ![t] = f]
  /\ held' = [held EXCEPT ![f] = @ \cup {t}]
  /\ UNCHANGED leaked

\* MUTEX_START up to GetLastError: t gets a handle on f's object and learns whether
\* it created it.
MutexStart(t, f) ==
  /\ pc[t] = "idle"
  /\ pc' = [pc EXCEPT ![t] = IF Exists(f) THEN "refused" ELSE "owner"]
  /\ fn' = [fn EXCEPT ![t] = f]
  /\ held' = [held EXCEPT ![f] = @ \cup {t}]
  /\ UNCHANGED leaked

\* The call of t is over: t is idle, and its handle is closed.
CloseMutex(t) ==
  /\ pc' = [pc EXCEPT ![t] = "idle"]
  /\ fn' = [fn EXCEPT ![t] = NoApi]
  /\ held' = [held EXCEPT ![fn[t]] = @ \ {t}]

\* A mutant of Refuse: the BUSY return forgets CloseHandle.
RefuseOpen(t) ==
  /\ pc[t] = "refused"
  /\ pc' = [pc EXCEPT ![t] = "idle"]
  /\ fn' = [fn EXCEPT ![t] = NoApi]
  /\ UNCHANGED <<held, leaked>>

\* The rest of MUTEX_START for a caller that met the object: close the handle, BUSY.
Refuse(t) ==
  /\ pc[t] = "refused"
  /\ CloseMutex(t)
  /\ UNCHANGED leaked

\* The function ends at its CloseHandle(mutex).
Return(t) ==
  /\ pc[t] = "owner"
  /\ CloseMutex(t)
  /\ UNCHANGED leaked

\* The thread goes and its handle stays open in its process.
LoseHandle(t) ==
  /\ CloseMutex(t)
  /\ leaked' = [leaked EXCEPT ![fn[t]] = @ \cup {Host[t]}]

\* wdi_prepare_driver leaves by one of its two bare return statements.
EarlyReturn(t) ==
  /\ pc[t] = "owner"
  /\ fn[t] \in Leaky
  /\ LoseHandle(t)

\* The progress dialog of a call runs out of time and terminates a thread, wherever it is.
\* OpenThread takes an id and is given the handle of the thread of the call: the thread t
\* that is terminated, if any, may be any other.
KillThread(t) ==
  /\ pc[t] # "idle"
  /\ \E u \in Thread : fn[u] \in Timed
  /\ LoseHandle(t)

\* Process p exits or crashes: the kernel closes every handle it has; a later run of
\* the program starts with idle threads.
ExitProcess(p) ==
  LET gone == {t \in Thread : Host[t] = p} IN
  /\ pc' = [t \in Thread |-> IF t \in gone THEN "idle" ELSE pc[t]]
  /\ fn' = [t \in Thread |-> IF t \in gone THEN NoApi ELSE fn[t]]
  /\ held' = [f \in Api |-> held[f] \ gone]
  /\ leaked' = [f \in Api |-> leaked[f] \ {p}]

----------------------------------------------------------------------------
Next ==
  \/ \E t \in Thread :
        \/ \E f \in Api : MutexStart(t, f)
        \/ Refuse(t)
        \/ Return(t)
        \/ EarlyReturn(t)
        \/ KillThread(t)
  \/ \E p \in Process : ExitProcess(p)

Spec == Init /\ [][Next]_vars

----------------------------------------------------------------------------
Running(f) == {t \in Thread : pc[t] = "owner" /\ fn[t] = f}

\* logging.h:26, "Prevent two exclusive libwdi calls from running at the same time":
\* over all the processes of the machine, at most one thread is inside each function.
MutualExclusion ==
  \A t, u \in Thread :
    pc[t] = "owner" /\ pc[u] = "owner" /\ fn[t] = fn[u] => t = u

\* The handles open on f's object are those of the calls of f in progress: no refused,
\* returned or killed call leaves one behind except the ones recorded in leaked.
HandlesExact ==
  \A f \in Api : held[f] = {t \in Thread : pc[t] # "idle" /\ fn[t] = f}

\* libwdi.h:93 explains WDI_ERROR_BUSY as "Resource busy, or API call already running":
\* when no call is in progress, no function answers BUSY.
BusyOnlyWhileRunning ==
  (\A t \in Thread : pc[t] = "idle") => \A f \in Api : ~Exists(f)
=============================================================================

--------------------------- MODULE MonitorLibrary ---------------------------
(***************************************************************************)
(* libcynara-monitor: threads that get entries, a thread that flushes and  *)
(* a thread that finishes the library share one Logic object.  A step is   *)
(* what a thread does between two points where another thread can run: a   *)
(* critical section of m_mutexCond or of the socket client's m_mutex, a    *)
(* poll, the notification of a condition variable.                         *)
(***************************************************************************)
EXTENDS LibrarySocket

CONSTANTS
  Getters,       \* threads that call cynara_monitor_entries_get
  MaxGets,       \* bound: calls of entries_get
  MaxFlushes,    \* bound: calls of entries_flush
  MaxHangUps     \* bound: connections the daemon closes

VARIABLES
  getter,     \* where each getter is
  got,        \* what its last call returned
  flusher,    \* where the flushing thread is
  finisher,   \* where the finishing thread is
  guard,      \* the getters that hold m_reentrantGuard
  running,    \* m_isRunning
  resolved,   \* m_connectionResolved
  notice,     \* the counter of m_notify is positive
  pending,    \* the daemon holds a get request of this connection
  flushed,    \* a flush was sent after the request of the call that runs
  used        \* calls and connections so far, against the bounds

monitorOwn  == <<getter, got, flusher, finisher, guard, running, resolved, notice,
                 pending, flushed, used>>
monitorVars == <<socketVars, monitorOwn>>

MonitorInit ==
    /\ SocketInit
    /\ getter = [g \in Getters |-> "idle"] /\ got = [g \in Getters |-> "none"]
    /\ flusher = "idle" /\ finisher = "idle"
    /\ guard = {} /\ running = FALSE /\ resolved = FALSE /\ notice = FALSE
    /\ pending = FALSE /\ flushed = FALSE
    /\ used = [gets |-> 0, flushes |-> 0, hangups |-> 0]

Deleted == finisher = "deleted"
Move(g, from, to) == getter[g] = from /\ getter' = [getter EXCEPT ![g] = to]
Ends(g, ret)      == got' = [got EXCEPT ![g] = ret]

(***************************************************************************)
(* entriesGet.                                                             *)
(***************************************************************************)
\* No call is begun after finish was.
StartGet(g) ==
    /\ used.gets < MaxGets /\ finisher = "idle"
    /\ Move(g, "idle", "guard")
    /\ used' = [used EXCEPT !.gets = @ + 1]
    /\ UNCHANGED <<socketVars, got, flusher, finisher, guard, running, resolved, notice,
                   pending, flushed>>

\* guard.try_lock()
EntriesGet(g) ==
    /\ \/ guard = {} /\ guard' = {g} /\ Move(g, "guard", "status") /\ UNCHANGED got
       \/ guard # {} /\ Move(g, "guard", "idle") /\ Ends(g, "OPERATION_NOT_ALLOWED")
                     /\ UNCHANGED guard
    /\ UNCHANGED <<socketVars, flusher, finisher, running, resolved, notice,
                   pending, flushed, used>>

\* The constructor of StatusChangeWrapper.
SetRunning(g) ==
    /\ Move(g, "status", "connect")
    /\ running' = TRUE
    /\ UNCHANGED <<socketVars, got, flusher, finisher, guard, resolved, notice,
                   pending, flushed, used>>

\* Logic::connect, all of it under m_mutexCond.
ConnectService(g) ==
    /\ resolved' = TRUE
    /\ \/ IsConnected /\ Move(g, "connect", "send") /\ UNCHANGED <<socketVars, got, pending>>
       \/ ~IsConnected /\ Connect /\ Move(g, "connect", "send") /\ pending' = FALSE
                       /\ UNCHANGED got
       \/ ~IsConnected /\ ConnectFails /\ Move(g, "connect", "stop")
                       /\ Ends(g, "SERVICE_NOT_AVAILABLE") /\ UNCHANGED pending
    /\ UNCHANGED <<flusher, finisher, guard, running, notice, flushed, used>>

SendGet(g) ==
    /\ \/ SendToServer([type |-> "get"]) /\ Move(g, "send", "poll") /\ UNCHANGED got
       \/ SendLost /\ UNCHANGED socketVars /\ Move(g, "send", "stop") /\ Ends(g, "UNKNOWN_ERROR")
    /\ UNCHANGED <<flusher, finisher, guard, running, resolved, notice, pending, flushed, used>>

Readable == link.resps # <<>> \/ link.closed

\* waitForEvent and the snooze of the notification: entries win over the notice.
WaitForEntries(g) ==
    /\ \/ Readable /\ Move(g, "poll", "fetch") /\ UNCHANGED <<got, notice>>
       \/ ~Readable /\ notice /\ notice' = FALSE /\ Move(g, "poll", "stop") /\ Ends(g, "SUCCESS")
    /\ UNCHANGED <<socketVars, flusher, finisher, guard, running, resolved, pending, flushed, used>>

FetchEntries(g) ==
    /\ Move(g, "fetch", "stop")
    /\ \/ ReceiveTrue /\ TakeResponse /\ Ends(g, "SUCCESS")
       \/ /\ ReceiveFalse /\ Ends(g, "UNKNOWN_ERROR")
          /\ readQueue' = Arrived /\ link' = [link EXCEPT !.resps = <<>>]
          /\ UNCHANGED listening
    /\ UNCHANGED <<flusher, finisher, guard, running, resolved, notice, pending, flushed, used>>

\* The destructor of StatusChangeWrapper, then those of CVNotifyWrapper and of
\* the guard's lock.
ClearRunning(g) ==
    /\ Move(g, "stop", "notify")
    /\ running' = FALSE /\ flushed' = FALSE
    /\ UNCHANGED <<socketVars, got, flusher, finisher, guard, resolved, notice, pending, used>>

\* notify_all of m_finishedCV wakes a thread that waits in notifyFinish.
NotifyFinished(g) ==
    /\ Move(g, "notify", "unlock")
    /\ finisher' = IF finisher = "sleeping" THEN "check" ELSE finisher
    /\ UNCHANGED <<socketVars, got, flusher, guard, running, resolved, notice,
                   pending, flushed, used>>

UnlockGuard(g) ==
    /\ Move(g, "unlock", "idle")
    /\ guard' = guard \ {g}
    /\ UNCHANGED <<socketVars, got, flusher, finisher, running, resolved, notice,
                   pending, flushed, used>>

(***************************************************************************)
(* entriesFlush: isRunning, waitForConnectionResolved, sendRequest.        *)
(***************************************************************************)
EntriesFlush ==
    /\ flusher = "idle" /\ ~Deleted /\ finisher = "idle" /\ used.flushes < MaxFlushes
    /\ used' = [used EXCEPT !.flushes = @ + 1]
    /\ flusher' = IF running THEN "resolve" ELSE "idle"
    /\ UNCHANGED <<socketVars, getter, got, finisher, guard, running, resolved, notice,
                   pending, flushed>>

WaitForConnectionResolved ==
    /\ flusher = "resolve" /\ resolved
    /\ flusher' = IF IsConnected THEN "send" ELSE "idle"
    /\ UNCHANGED <<socketVars, getter, got, finisher, guard, running, resolved, notice,
                   pending, flushed, used>>

SendFlush ==
    /\ flusher = "send" /\ flusher' = "idle"
    /\ \/ SendToServer([type |-> "flush"])
          /\ flushed' = (flushed \/ \E g \in Getters : getter[g] = "poll")
       \/ SendLost /\ UNCHANGED <<socketVars, flushed>>
    /\ UNCHANGED <<getter, got, finisher, guard, running, resolved, notice, pending, used>>

(***************************************************************************)
(* cynara_monitor_finish: notifyFinish, then the object is deleted.  It is *)
(* called when no call runs, or to end one that waits already.             *)
(***************************************************************************)
NotifyFinish ==
    /\ finisher = "idle" /\ flusher = "idle"
    /\ \A g \in Getters : getter[g] \notin {"guard", "status"}
    /\ finisher' = IF running THEN "notify" ELSE "delete"
    /\ UNCHANGED <<socketVars, getter, got, flusher, guard, running, resolved, notice,
                   pending, flushed, used>>

Notify ==
    /\ finisher = "notify" /\ finisher' = "check" /\ notice' = TRUE
    /\ UNCHANGED <<socketVars, getter, got, flusher, guard, running, resolved, pending,
                   flushed, used>>

\* Mutant: finish does not wait for the call it has woken.
WaitFinishedMutant ==
    /\ finisher = "check" /\ finisher' = "delete"
    /\ UNCHANGED <<socketVars, getter, got, flusher, guard, running, resolved, notice,
                   pending, flushed, used>>
\* m_finishedCV.wait: the predicate is evaluated under the mutex.
WaitFinished ==
    /\ finisher = "check" /\ finisher' = IF running THEN "sleeping" ELSE "delete"
    /\ UNCHANGED <<socketVars, getter, got, flusher, guard, running, resolved, notice,
                   pending, flushed, used>>

DeleteLogic ==
    /\ finisher = "delete" /\ finisher' = "deleted"
    /\ link' = NoLink /\ UNCHANGED <<listening, readQueue>>
    /\ UNCHANGED <<getter, got, flusher, guard, running, resolved, notice, pending, flushed, used>>

(***************************************************************************)
(* The daemon: a get request waits until the buffer is full or a flush     *)
(* comes; a flush with no request waiting is ignored.                      *)
(***************************************************************************)
ServeMonitor ==
    /\ IsConnected /\ link.reqs # <<>>
    /\ \/ Head(link.reqs).type = "get" /\ pending' = TRUE
          /\ link' = [link EXCEPT !.reqs = Tail(@)]
       \/ Head(link.reqs).type = "flush" /\ pending' = FALSE
          /\ link' = [link EXCEPT !.reqs = Tail(@),
                                  !.resps = IF pending THEN Append(@, [type |-> "entries"]) ELSE @]
    /\ UNCHANGED <<listening, readQueue, getter, got, flusher, finisher, guard, running,
                   resolved, notice, flushed, used>>

BufferFull ==
    /\ IsConnected /\ pending /\ pending' = FALSE
    /\ link' = [link EXCEPT !.resps = Append(@, [type |-> "entries"])]
    /\ UNCHANGED <<listening, readQueue, getter, got, flusher, finisher, guard, running,
                   resolved, notice, flushed, used>>

HangUpMonitor ==
    /\ used.hangups < MaxHangUps /\ IsConnected
    /\ used' = [used EXCEPT !.hangups = @ + 1]
    /\ link' = HangUp(link) /\ listening' \in BOOLEAN /\ pending' = FALSE
    /\ UNCHANGED <<readQueue, getter, got, flusher, finisher, guard, running, resolved,
                   notice, flushed>>

Getting(g) ==
    EntriesGet(g) \/ SetRunning(g) \/ ConnectService(g) \/ SendGet(g) \/ WaitForEntries(g)
      \/ FetchEntries(g) \/ ClearRunning(g) \/ NotifyFinished(g) \/ UnlockGuard(g)
Flushing  == WaitForConnectionResolved \/ SendFlush
Finishing == Notify \/ WaitFinished \/ DeleteLogic

MonitorNext ==
    \/ \E g \in Getters : StartGet(g) \/ Getting(g)
    \/ EntriesFlush \/ Flushing
    \/ NotifyFinish \/ Finishing
    \/ ServeMonitor \/ BufferFull \/ HangUpMonitor

MonitorSpec ==
    /\ MonitorInit /\ [][MonitorNext]_monitorVars
    /\ \A g \in Getters : WF_monitorVars(Getting(g))
    /\ WF_monitorVars(Flushing) /\ WF_monitorVars(Finishing) /\ WF_monitorVars(ServeMonitor)

(***************************************************************************)
(* Properties.                                                             *)
(***************************************************************************)
Inside == {g \in Getters : getter[g] \notin {"idle", "guard"}}

\* The library runs one entriesGet at a time; m_isRunning is true exactly while
\* that call is between its first and its last critical section.
OneGet ==
    /\ \A g, h \in Inside : g = h
    /\ running <=> \E g \in Getters : getter[g] \in {"connect", "send", "poll", "fetch", "stop"}

\* When finish deletes the object, no call of entriesGet waits, sends or receives
\* any more.
DeletedAfterGet ==
    finisher \in {"delete", "deleted"} =>
        \A g \in Getters : getter[g] \in {"idle", "guard", "notify", "unlock"}

\* A flush that was sent after the get request makes the call return.
FlushEndsGet == []<>~flushed

\* A flush that waits for the connection does not wait for ever, whether the
\* connection was made or refused.
FlushResolves == []<>(flusher # "resolve")

\* finish returns: the thread that gets entries is woken, and so is the thread
\* that waits for it, whatever the daemon does.
FinishReturns == []<>(finisher \in {"idle", "deleted"})
=============================================================================

---------------------------- MODULE InputStream -----------------------------
(***************************************************************************)
(* The locking protocol of src/src/InputStream.cxx.  An InputStream shares *)
(* one Mutex and one Cond with the I/O thread that fills it.  Three        *)
(* threads run:                                                            *)
(*   - Reader, the caller of soundcloud_parse_json: it takes the mutex,    *)
(*     calls WaitReady, then Read until the stream is at its end, unlocks  *)
(*     and closes;                                                         *)
(*   - Client, another thread using the Lock* variants on the same stream  *)
(*     (LockWaitReady, LockRead, LockReadTag, LockIsEOF, LockSeek,         *)
(*     LockRewind), each a ScopeLock around the plain call;                *)
(*   - the I/O thread of the input plugin, which under the mutex makes the *)
(*     stream ready, buffers data, ends or fails it, and broadcasts cond.  *)
(* The plugin's read waits on cond while its buffer is empty.  cond.wait   *)
(* releases the mutex; a woken thread (by a broadcast or spuriously)       *)
(* takes it again before it goes on.                                       *)
(***************************************************************************)
EXTENDS Integers, FiniteSets

CONSTANTS
  HasSeek,     \* plugin.seek != nullptr
  HasTag,      \* plugin.tag != nullptr
  MaxChunks,   \* the chunks the I/O thread delivers
  MaxOps,      \* the Lock* calls the client makes
  MaxSpurious  \* the spurious wakeups of cond.wait

Reader == "reader"
Client == "client"
Threads == {Reader, Client}
NoThread == "none"

VARIABLES
  owner,       \* the thread holding the mutex, or NoThread
  pc,          \* each thread's position
  ready,       \* InputStream::ready
  avail,       \* chunks buffered by the I/O thread and not yet read
  produced,    \* chunks delivered so far
  ioState,     \* "running", "eof" or "failed"
  ops,         \* Lock* calls the client has made
  result,      \* the reader's return value: 1 before it returns
  spurious,    \* spurious wakeups so far
  parseError   \* history: yajl_parse rejected a chunk the reader read

vars == <<owner, pc, ready, avail, produced, ioState, ops, result, spurious,
          parseError>>

\* The positions at which a thread is inside a call to the plugin, which
\* the mutex must protect.
InPlugin == {"wready", "read", "eof", "c_call", "c_wready", "c_read"}
\* The positions of a thread blocked in cond.wait, and of a woken one.
Waiting == {"wait", "rwait", "c_wait", "c_rwait"}
Woken == [wait |-> "relock", rwait |-> "rrelock", c_wait |-> "c_relock",
          c_rwait |-> "c_rrelock"]

\* cond.broadcast: every waiting thread wakes and must retake the mutex.
Broadcast(p) == [t \in Threads |-> IF p[t] \in Waiting THEN Woken[p[t]] ELSE p[t]]

-----------------------------------------------------------------------------
(* The reader: soundcloud_parse_json around InputStream                    *)

\* mutex.lock() before input_stream->WaitReady().
ReaderLock ==
  /\ pc[Reader] = "lock" /\ owner = NoThread
  /\ owner' = Reader /\ pc' = [pc EXCEPT ![Reader] = "wready"]
  /\ UNCHANGED <<ready, avail, produced, ioState, ops, result, spurious, parseError>>

WaitReadySpin(t, waitPc, donePc) ==
  /\ pc[t] = IF t = Reader THEN "wready" ELSE "c_wready"
  /\ pc' = [pc EXCEPT ![t] = IF ready THEN donePc ELSE pc[t]]
  /\ UNCHANGED <<owner, ready, avail, produced, ioState, ops, result, spurious, parseError>>

\* One turn of the WaitReady loop: Update() (plugin.update is nullptr for
\* this plugin), break when ready, else cond.wait(mutex), which releases
\* the mutex.
WaitReady(t, waitPc, donePc) ==
  /\ pc[t] = IF t = Reader THEN "wready" ELSE "c_wready"
  /\ IF ready
     THEN pc' = [pc EXCEPT ![t] = donePc] /\ owner' = owner
     ELSE pc' = [pc EXCEPT ![t] = waitPc] /\ owner' = NoThread
  /\ UNCHANGED <<ready, avail, produced, ioState, ops, result, spurious, parseError>>

RelockNoLoop(t) ==
  /\ pc[t] \in {"relock", "rrelock", "c_relock", "c_rrelock"} /\ owner = NoThread
  /\ owner' = t
  /\ pc' = [pc EXCEPT ![t] = CASE pc[t] = "relock"  -> "read"
                               [] pc[t] = "rrelock" -> "read"
                               [] OTHER             -> "c_unlock"]
  /\ UNCHANGED <<ready, avail, produced, ioState, ops, result, spurious, parseError>>

\* A thread woken from cond.wait retakes the mutex and resumes its loop.
Relock(t) ==
  /\ pc[t] \in {"relock", "rrelock", "c_relock", "c_rrelock"} /\ owner = NoThread
  /\ owner' = t
  /\ pc' = [pc EXCEPT ![t] = CASE pc[t] = "relock"  -> "wready"
                               [] pc[t] = "rrelock" -> "read"
                               [] pc[t] = "c_rrelock" -> "c_read"
                               [] OTHER             -> "c_wready"]
  /\ UNCHANGED <<ready, avail, produced, ioState, ops, result, spurious, parseError>>

ReadNoCheck ==
  /\ pc[Reader] = "read"
  /\ CASE ioState # "running" /\ avail = 0 ->
            UNCHANGED avail /\ pc' = [pc EXCEPT ![Reader] = "eof"] /\ owner' = owner
       [] OTHER ->
            avail' = avail - 1 /\ pc' = pc /\ owner' = owner
  /\ UNCHANGED <<ready, produced, ioState, ops, result, spurious, parseError>>

\* Read: plugin.read returns a buffered chunk, returns 0 at the end or on
\* an error, or waits on cond for data.  yajl_parse takes a chunk or
\* rejects it; on a rejection the loop breaks (lines 295-305), and the
\* reader unlocks, closes and returns 0.
Read ==
  /\ pc[Reader] = "read"
  /\ \/ /\ avail > 0 /\ avail' = avail - 1
        /\ \/ UNCHANGED <<pc, owner, result, parseError>>
           \/ /\ pc' = [pc EXCEPT ![Reader] = "done"] /\ owner' = NoThread
              /\ result' = 0 /\ parseError' = TRUE
     \/ /\ avail = 0 /\ ioState # "running"
        /\ pc' = [pc EXCEPT ![Reader] = "eof"]
        /\ UNCHANGED <<avail, owner, result, parseError>>
     \/ /\ avail = 0 /\ ioState = "running"
        /\ pc' = [pc EXCEPT ![Reader] = "rwait"] /\ owner' = NoThread
        /\ UNCHANGED <<avail, result, parseError>>
  /\ UNCHANGED <<ready, produced, ioState, ops, spurious>>

IsEOF ==
  /\ pc[Reader] = "eof"
  /\ owner' = NoThread /\ pc' = [pc EXCEPT ![Reader] = "done"]
  /\ result' = IF ioState = "eof" THEN 0 ELSE -1
  /\ UNCHANGED <<ready, avail, produced, ioState, ops, spurious, parseError>>

-----------------------------------------------------------------------------
(* The client: the Lock* methods                                           *)

\* Choose the next Lock* call.  LockSeek, LockRewind and LockReadTag
\* return at once without the mutex when the plugin has no such method.
ClientStart ==
  /\ pc[Client] = "c_idle" /\ ops < MaxOps
  /\ \E call \in {"LockWaitReady", "LockRead", "LockReadTag", "LockIsEOF", "LockSeek"} :
       pc' = [pc EXCEPT ![Client] =
                CASE (call = "LockSeek" /\ ~HasSeek) \/ (call = "LockReadTag" /\ ~HasTag)
                       -> "c_idle"
                  [] call = "LockWaitReady" -> "c_lockwr"
                  [] call = "LockRead" -> "c_lockrd"
                  [] OTHER -> "c_lock"]
  /\ ops' = ops + 1
  /\ UNCHANGED <<owner, ready, avail, produced, ioState, result, spurious, parseError>>

LockCallUnlocked ==
  /\ pc[Client] = "c_lock"
  /\ pc' = [pc EXCEPT ![Client] = "c_call"]
  /\ UNCHANGED <<owner, ready, avail, produced, ioState, ops, result, spurious, parseError>>

\* const ScopeLock protect(mutex): take the mutex for the call.
LockCall ==
  /\ pc[Client] \in {"c_lock", "c_lockwr", "c_lockrd"} /\ owner = NoThread
  /\ owner' = Client
  /\ pc' = [pc EXCEPT ![Client] = CASE pc[Client] = "c_lock"   -> "c_call"
                                     [] pc[Client] = "c_lockwr" -> "c_wready"
                                     [] OTHER                   -> "c_read"]
  /\ UNCHANGED <<ready, avail, produced, ioState, ops, result, spurious, parseError>>

\* LockRead: inside the ScopeLock, plugin.read returns a buffered chunk,
\* returns 0 at the end or on an error, or waits on cond (releasing the
\* mutex the ScopeLock holds) and tries again when woken.
LockReadCall ==
  /\ pc[Client] = "c_read"
  /\ CASE avail > 0 ->
            avail' = avail - 1 /\ pc' = [pc EXCEPT ![Client] = "c_unlock"]
            /\ owner' = owner
       [] ioState # "running" ->
            UNCHANGED avail /\ pc' = [pc EXCEPT ![Client] = "c_unlock"]
            /\ owner' = owner
       [] OTHER ->
            UNCHANGED avail /\ pc' = [pc EXCEPT ![Client] = "c_rwait"]
            /\ owner' = NoThread
  /\ UNCHANGED <<ready, produced, ioState, ops, result, spurious, parseError>>

\* ReadTag, IsEOF, Seek, WaitReady or Read returns; ~ScopeLock releases the mutex.
CallReturn ==
  /\ pc[Client] \in {"c_call", "c_unlock"}
  /\ owner' = NoThread /\ pc' = [pc EXCEPT ![Client] = "c_idle"]
  /\ UNCHANGED <<ready, avail, produced, ioState, ops, result, spurious, parseError>>

ClientStop ==
  /\ pc[Client] = "c_idle"
  /\ pc' = [pc EXCEPT ![Client] = "done"]
  /\ UNCHANGED <<owner, ready, avail, produced, ioState, ops, result, spurious, parseError>>

-----------------------------------------------------------------------------
(* The I/O thread of the plugin and spurious wakeups                       *)

\* Each step of the I/O thread locks the mutex, changes the stream and
\* broadcasts cond before it unlocks.
IoStep(change) ==
  /\ owner = NoThread /\ ioState = "running"
  /\ change
  /\ pc' = Broadcast(pc)
  /\ UNCHANGED <<owner, ops, result, spurious, parseError>>

IoReady == IoStep(~ready /\ ready' = TRUE /\ UNCHANGED <<avail, produced, ioState>>)
IoData == IoStep(ready /\ produced < MaxChunks /\ avail' = avail + 1
                   /\ produced' = produced + 1 /\ UNCHANGED <<ready, ioState>>)
IoEnd == IoStep(ready /\ produced = MaxChunks /\ ioState' = "eof"
                  /\ UNCHANGED <<ready, avail, produced>>)
\* A failing transfer still marks the stream ready, so that waiters return.
IoFail == IoStep(ioState' = "failed" /\ ready' = TRUE /\ UNCHANGED <<avail, produced>>)

\* pthread_cond_wait may return without a broadcast; a thread cannot wake
\* spuriously forever, so the wakeups are bounded.
SpuriousWakeup(t) ==
  /\ pc[t] \in Waiting /\ spurious < MaxSpurious
  /\ pc' = [pc EXCEPT ![t] = Woken[pc[t]]]
  /\ spurious' = spurious + 1
  /\ UNCHANGED <<owner, ready, avail, produced, ioState, ops, result, parseError>>

-----------------------------------------------------------------------------

Init ==
  /\ owner = NoThread
  /\ pc = [t \in Threads |-> IF t = Reader THEN "lock" ELSE "c_idle"]
  /\ ready = FALSE /\ avail = 0 /\ produced = 0 /\ ioState = "running"
  /\ ops = 0 /\ result = 1 /\ spurious = 0 /\ parseError = FALSE

ReaderNext ==
  \/ ReaderLock \/ WaitReady(Reader, "wait", "read") \/ Relock(Reader)
  \/ Read \/ IsEOF

ClientNext ==
  \/ ClientStart \/ LockCall \/ WaitReady(Client, "c_wait", "c_unlock")
  \/ LockReadCall \/ Relock(Client) \/ CallReturn \/ ClientStop

IoNext == IoReady \/ IoData \/ IoEnd \/ IoFail

Next ==
  \/ ReaderNext \/ ClientNext \/ IoNext
  \/ \E t \in Threads : SpuriousWakeup(t)

\* Every thread is scheduled while it can run and the I/O thread keeps
\* going; a spurious wakeup is never owed.  The client's calls are not
\* owed either: it may stop at any time.
Fairness ==
  /\ WF_vars(ReaderNext) /\ WF_vars(IoReady) /\ WF_vars(IoData) /\ WF_vars(IoEnd)
  /\ WF_vars(LockCall) /\ WF_vars(WaitReady(Client, "c_wait", "c_unlock"))
  /\ WF_vars(LockReadCall) /\ WF_vars(Relock(Client)) /\ WF_vars(CallReturn) /\ WF_vars(ClientStop)

Spec == Init /\ [][Next]_vars /\ Fairness

-----------------------------------------------------------------------------
(* Properties                                                              *)

TypeOK ==
  /\ owner \in Threads \cup {NoThread}
  /\ avail \in 0..MaxChunks /\ produced \in 0..MaxChunks
  /\ ioState \in {"running", "eof", "failed"}
  /\ result \in {1, 0, -1}

\* The ScopeLock of every Lock* method and the mutex.lock() of the reader:
\* a thread inside a plugin call holds the stream mutex, so no two plugin
\* calls run at once, whichever of the threads makes them.
PluginCallsLocked ==
  \A t \in Threads : pc[t] \in InPlugin => owner = t

\* WaitReady loops around cond.wait: a thread leaves it only when the
\* stream is ready, even after a spurious wakeup or a broadcast for data.
WaitReadyReturnsReady ==
  /\ pc[Reader] \in {"read", "rwait", "rrelock", "eof"} => ready
  /\ pc[Client] = "c_unlock" => ready

\* Nobody waits forever: the reader returns and the client's calls all
\* return, because every change the waiters need is broadcast under the
\* mutex they release while they wait.
AllReturn == <>(\A t \in Threads : pc[t] = "done")

====

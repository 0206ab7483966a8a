---------------------------- MODULE DataIterator ----------------------------
(***************************************************************************)
(* feeder/data_iterator.cc: a loader thread (Loop) fills a bounded buffer  *)
(* of batches that client threads empty with GetNext, until the data set   *)
(* ends or a client calls Terminate.  One mutex guards the whole object,   *)
(* so the code between taking mu_ and releasing it (by returning or by     *)
(* cond_.wait) is one action.  The exception is thread_->join(), which     *)
(* Terminate performs with mu_ held: there the mutex is a variable.        *)
(***************************************************************************)
EXTENDS Naturals, Sequences

CONSTANTS Clients,      \* threads that call GetNext and Terminate
          Loop,         \* the loader thread that Start creates
          BufSize,      \* buf_size_
          NumBatches,   \* batches GetNextImpl returns before it returns {}
          Spurious      \* may cond_.wait return without a notification?

ASSUME IteratorAssumption ==
    /\ Loop \notin Clients
    /\ BufSize \in Nat
    /\ NumBatches \in Nat
    /\ Spurious \in BOOLEAN

VARIABLES
    pc,                 \* where each client is (see ClientStates)
    loopPc,             \* where the loader is (see LoopStates)
    loaded,             \* batches GetNextImpl has returned so far
    next,               \* the loader's local: the batch it is delivering
    buf,                \* buf_
    asleep,             \* threads blocked in cond_.wait
    joining,            \* clients in thread_->join(), holding mu_
    shouldFinish,       \* should_finish_
    iterationFinished,  \* is_iteration_finished_
    handed,             \* history: how many batches GetNext has returned
    answer              \* what each client's latest GetNext returned

vars == <<pc, loopPc, loaded, next, buf, asleep, joining, shouldFinish,
          iterationFinished, handed, answer>>

EndOfData == 0          \* the empty vector
NoAnswer  == NumBatches + 1

Threads == Clients \cup {Loop}

\* "idle" outside the object; "get" inside GetNext; "term" at the lock of
\* Terminate; "termWait" at its cond_.wait; "join" at its join; "done" after
\* Terminate returned.
ClientStates == {"idle", "get", "term", "termWait", "join", "done"}

\* "new" before Start; "load" in GetNextImpl; "deliver" at the lock that
\* follows; "full" and "finished" at the two waits; "exited" after Loop.
LoopStates == {"new", "load", "deliver", "full", "finished", "exited"}

Init ==
    /\ pc = [c \in Clients |-> "idle"]
    /\ loopPc = "new"
    /\ loaded = 0
    /\ next = EndOfData
    /\ buf = <<>>
    /\ asleep = {}
    /\ joining = {}
    /\ shouldFinish = FALSE
    /\ iterationFinished = FALSE
    /\ handed = 0
    /\ answer = [c \in Clients |-> NoAnswer]

MutexFree == joining = {}

\* Thread t can run a critical section: it does not sleep, and mu_ is free.
CanEnter(t) == t \notin asleep /\ MutexFree

NotifyAll == asleep' = {}
-----------------------------------------------------------------------------
(* The client side.                                                        *)

\* The creator of the iterator starts it before anyone else uses it, as
\* every caller in the repository does; GetNext and Terminate abort on
\* CHECK(thread_.get()) otherwise.
Start ==
    /\ loopPc = "new"
    /\ loopPc' = "load"
    /\ UNCHANGED <<pc, loaded, next, buf, asleep, joining, shouldFinish,
                   iterationFinished, handed, answer>>

\* A client that has not terminated the iterator calls GetNext or Terminate.
Call(c) ==
    /\ loopPc # "new"
    /\ pc[c] = "idle"
    /\ \E op \in {"get", "term"} : pc' = [pc EXCEPT ![c] = op]
    /\ UNCHANGED <<loopPc, loaded, next, buf, asleep, joining, shouldFinish,
                   iterationFinished, handed, answer>>

\* Mutation of GetBatch: buf_.pop() is missing.
GetBatchNoPop(c) ==
    /\ buf # <<>>
    /\ handed' = handed + 1
    /\ answer' = [answer EXCEPT ![c] = Head(buf)]
    /\ pc' = [pc EXCEPT ![c] = "idle"]
    /\ NotifyAll
    /\ UNCHANGED buf

\* Mutation of GetBatch: the loader is not told that there is room again.
GetBatchSilently(c) ==
    /\ buf # <<>>
    /\ buf' = Tail(buf)
    /\ handed' = handed + 1
    /\ answer' = [answer EXCEPT ![c] = Head(buf)]
    /\ pc' = [pc EXCEPT ![c] = "idle"]
    /\ UNCHANGED asleep

GetBatch(c) ==
    /\ buf # <<>>
    /\ buf' = Tail(buf)
    /\ handed' = handed + 1
    /\ answer' = [answer EXCEPT ![c] = Head(buf)]
    /\ pc' = [pc EXCEPT ![c] = "idle"]
    /\ NotifyAll

\* Mutation of GetEnd: an empty buffer is taken for the end of the data.
GetEndWhenEmpty(c) ==
    /\ buf = <<>>
    /\ answer' = [answer EXCEPT ![c] = EndOfData]
    /\ pc' = [pc EXCEPT ![c] = "idle"]
    /\ UNCHANGED <<buf, asleep, handed>>

GetEnd(c) ==
    /\ buf = <<>>
    /\ iterationFinished
    /\ answer' = [answer EXCEPT ![c] = EndOfData]
    /\ pc' = [pc EXCEPT ![c] = "idle"]
    /\ UNCHANGED <<buf, asleep, handed>>

GetWait(c) ==
    /\ buf = <<>>
    /\ ~iterationFinished
    /\ asleep' = asleep \cup {c}
    /\ UNCHANGED <<pc, buf, handed, answer>>

GetNext(c) ==
    /\ pc[c] = "get"
    /\ CanEnter(c)
    /\ GetBatch(c) \/ GetEnd(c) \/ GetWait(c)
    /\ UNCHANGED <<loopPc, loaded, next, joining, shouldFinish,
                   iterationFinished>>

\* Mutation of Terminate: cond_.wait before the join is missing.
TerminateNoWait(c) ==
    /\ pc[c] = "term"
    /\ CanEnter(c)
    /\ IF shouldFinish
       THEN /\ pc' = [pc EXCEPT ![c] = "done"]
            /\ UNCHANGED <<asleep, shouldFinish>>
       ELSE /\ pc' = [pc EXCEPT ![c] = "termWait"]
            /\ shouldFinish' = TRUE
            /\ NotifyAll
    /\ UNCHANGED <<loopPc, loaded, next, buf, joining, iterationFinished,
                   handed, answer>>

\* Only the first Terminate waits and joins; any other returns at once.
Terminate(c) ==
    /\ pc[c] = "term"
    /\ CanEnter(c)
    /\ IF shouldFinish
       THEN /\ pc' = [pc EXCEPT ![c] = "done"]
            /\ UNCHANGED <<asleep, shouldFinish>>
       ELSE /\ pc' = [pc EXCEPT ![c] = "termWait"]
            /\ shouldFinish' = TRUE
            /\ asleep' = {c}
    /\ UNCHANGED <<loopPc, loaded, next, buf, joining, iterationFinished,
                   handed, answer>>

\* cond_.wait has no predicate: whatever wakes the client sends it to the
\* join, and it takes mu_ along.
TerminateWake(c) ==
    /\ pc[c] = "termWait"
    /\ CanEnter(c)
    /\ pc' = [pc EXCEPT ![c] = "join"]
    /\ joining' = joining \cup {c}
    /\ UNCHANGED <<loopPc, loaded, next, buf, asleep, shouldFinish,
                   iterationFinished, handed, answer>>

TerminateJoin(c) ==
    /\ pc[c] = "join"
    /\ loopPc = "exited"
    /\ pc' = [pc EXCEPT ![c] = "done"]
    /\ joining' = joining \ {c}
    /\ UNCHANGED <<loopPc, loaded, next, buf, asleep, shouldFinish,
                   iterationFinished, handed, answer>>
-----------------------------------------------------------------------------
(* The loader thread.                                                      *)

\* GetNextImpl runs outside the lock.
Load ==
    /\ loopPc = "load"
    /\ loopPc' = "deliver"
    /\ IF loaded < NumBatches
       THEN /\ loaded' = loaded + 1
            /\ next' = loaded + 1
       ELSE /\ next' = EndOfData
            /\ UNCHANGED loaded
    /\ UNCHANGED <<pc, buf, asleep, joining, shouldFinish, iterationFinished,
                   handed, answer>>

\* Mutation of Exit: Loop returns without cond_.notify_all().
ExitSilently ==
    /\ loopPc' = "exited"
    /\ asleep' = asleep \ {Loop}

Exit ==
    /\ loopPc' = "exited"
    /\ NotifyAll

DeliverEnd ==
    /\ next = EndOfData
    /\ iterationFinished' = TRUE
    /\ IF shouldFinish
       THEN Exit
       ELSE /\ loopPc' = "finished"
            /\ asleep' = {Loop}
    /\ UNCHANGED buf

Abandon ==
    /\ next # EndOfData
    /\ shouldFinish
    /\ Exit
    /\ UNCHANGED <<buf, iterationFinished>>

\* Mutations of PushOrWait: the size is tested once instead of in a loop; a
\* full buffer drops the batch; sleepers are not notified of the push; and
\* should_finish_ is not tested after the wait.
PushAfterOneWait ==
    /\ next # EndOfData
    /\ ~shouldFinish
    /\ IF loopPc = "deliver" /\ Len(buf) = BufSize
       THEN /\ loopPc' = "full"
            /\ asleep' = asleep \cup {Loop}
            /\ UNCHANGED buf
       ELSE /\ buf' = Append(buf, next)
            /\ loopPc' = "load"
            /\ NotifyAll
    /\ UNCHANGED iterationFinished

PushOrDrop ==
    /\ next # EndOfData
    /\ ~shouldFinish
    /\ buf' = IF Len(buf) = BufSize THEN buf ELSE Append(buf, next)
    /\ loopPc' = "load"
    /\ NotifyAll
    /\ UNCHANGED iterationFinished

PushSilently ==
    /\ next # EndOfData
    /\ ~shouldFinish
    /\ IF Len(buf) = BufSize
       THEN /\ loopPc' = "full"
            /\ asleep' = asleep \cup {Loop}
            /\ UNCHANGED buf
       ELSE /\ buf' = Append(buf, next)
            /\ loopPc' = "load"
            /\ UNCHANGED asleep
    /\ UNCHANGED iterationFinished

PushAfterFinish ==
    /\ next # EndOfData
    /\ loopPc = "full" \/ ~shouldFinish
    /\ IF Len(buf) = BufSize
       THEN /\ loopPc' = "full"
            /\ asleep' = asleep \cup {Loop}
            /\ UNCHANGED buf
       ELSE /\ buf' = Append(buf, next)
            /\ loopPc' = "load"
            /\ NotifyAll
    /\ UNCHANGED iterationFinished

\* The `while (buf_.size() == buf_size_)` loop and the push after it, entered
\* with should_finish_ false.
PushOrWait ==
    /\ next # EndOfData
    /\ ~shouldFinish
    /\ IF Len(buf) = BufSize
       THEN /\ loopPc' = "full"
            /\ asleep' = asleep \cup {Loop}
            /\ UNCHANGED buf
       ELSE /\ buf' = Append(buf, next)
            /\ loopPc' = "load"
            /\ NotifyAll
    /\ UNCHANGED iterationFinished

\* The critical section that follows GetNextImpl, and its continuation after
\* each return of cond_.wait while the buffer was full.
Deliver ==
    /\ loopPc \in {"deliver", "full"}
    /\ CanEnter(Loop)
    /\ DeliverEnd \/ Abandon \/ PushOrWait
    /\ UNCHANGED <<pc, loaded, next, joining, shouldFinish, handed, answer>>

\* The loop waits to be told to finish, notifying everyone each time it wakes.
AwaitFinish ==
    /\ loopPc = "finished"
    /\ CanEnter(Loop)
    /\ IF shouldFinish
       THEN Exit
       ELSE /\ asleep' = {Loop}
            /\ UNCHANGED loopPc
    /\ UNCHANGED <<pc, loaded, next, buf, joining, shouldFinish,
                   iterationFinished, handed, answer>>
-----------------------------------------------------------------------------
\* std::condition_variable may wake a waiter that nobody notified.
SpuriousWakeup(t) ==
    /\ Spurious
    /\ t \in asleep
    /\ asleep' = asleep \ {t}
    /\ UNCHANGED <<pc, loopPc, loaded, next, buf, joining, shouldFinish,
                   iterationFinished, handed, answer>>

\* Every client has let go of the iterator and its loader is gone.
AllDone ==
    /\ \A c \in Clients : pc[c] = "done"
    /\ loopPc = "exited"
    /\ UNCHANGED vars

LoopStep == Load \/ Deliver \/ AwaitFinish

ClientStep(c) ==
    GetNext(c) \/ Terminate(c) \/ TerminateWake(c) \/ TerminateJoin(c)

Next ==
    \/ Start
    \/ LoopStep
    \/ \E c \in Clients : Call(c) \/ ClientStep(c)
    \/ \E t \in Threads : SpuriousWakeup(t)
    \/ AllDone

Spec == Init /\ [][Next]_vars

\* Each thread keeps running inside the object: its critical sections end,
\* so mu_ comes free again, except while a client joins.  Whether a client
\* makes a call is up to it.
Fairness ==
    /\ WF_vars(Start)
    /\ WF_vars(LoopStep)
    /\ \A c \in Clients : WF_vars(ClientStep(c))

FairSpec == Spec /\ Fairness
-----------------------------------------------------------------------------
(* Properties.                                                             *)

TypeOK ==
    /\ pc \in [Clients -> ClientStates]
    /\ loopPc \in LoopStates
    /\ loaded \in 0..NumBatches
    /\ next \in 0..NumBatches
    /\ buf \in Seq(1..NumBatches)
    /\ Len(buf) <= BufSize
    /\ asleep \subseteq Threads
    /\ joining \subseteq Clients
    /\ shouldFinish \in BOOLEAN
    /\ iterationFinished \in BOOLEAN
    /\ handed \in 0..NumBatches
    /\ answer \in [Clients -> 0..NoAnswer]

\* Batches wait in the buffer in the order they were loaded, right behind the
\* ones already handed out, and none is lost between GetNextImpl and the
\* buffer while the loader runs (Loop's push, GetNext's front/pop).
InFlight == IF loopPc \in {"deliver", "full"} /\ next # EndOfData THEN 1 ELSE 0

StreamInOrder ==
    /\ \A i \in 1..Len(buf) : buf[i] = handed + i
    /\ loopPc # "exited" => handed + Len(buf) + InFlight = loaded

\* GetNext answers {} only when every batch of the data set has been handed
\* out: is_iteration_finished_ is never set with a batch dropped or pending,
\* not even when Terminate races with the loader.
EndIsTruthful ==
    /\ iterationFinished => loaded = NumBatches /\ handed + Len(buf) = loaded
    /\ \A c \in Clients : answer[c] = EndOfData => handed = NumBatches

\* Nobody sleeps in cond_.wait through the event it waits for, although all
\* waits share one condition variable and the loader's `return` paths differ:
\* a client asleep in GetNext has nothing to take, the loader asleep at a
\* full buffer has no room, and no loader sleeps once it must finish.
NoLostWakeup ==
    /\ \A c \in Clients :
          c \in asleep /\ pc[c] = "get" => buf = <<>> /\ ~iterationFinished
    /\ Loop \in asleep =>
          /\ loopPc \in {"full", "finished"}
          /\ ~shouldFinish
          /\ loopPc = "full" => Len(buf) = BufSize

\* Once Terminate has set should_finish_ the buffer only shrinks: the batch
\* being loaded is dropped, wherever in Loop the request finds the loader.
NothingPushedAfterFinish ==
    [][shouldFinish => Len(buf') <= Len(buf)]_vars

\* Terminate calls join, with mu_ held, only when the loader has left Loop;
\* otherwise the loader could never take mu_ to leave it.  Holds for a single
\* client when cond_.wait does not wake spuriously.
JoinAfterExit == joining # {} => loopPc = "exited"

\* A client that calls Terminate gets it done.
TerminateReturns ==
    \A c \in Clients : pc[c] = "term" ~> pc[c] = "done"

\* The iterator as its callers see it.
Stream == INSTANCE BatchStream WITH
    asking <- {c \in Clients : pc[c] = "get"},
    closed <- shouldFinish

\* Every GetNext answers as the abstract stream does ...
StreamIsSafe == Stream!StreamSafety

\* ... and answers at all unless Terminate has been requested.
StreamIsServed == Stream!StreamSpec
=============================================================================

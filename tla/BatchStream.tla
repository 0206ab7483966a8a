---------------------------- MODULE BatchStream ----------------------------
(***************************************************************************)
(* What a DataIterator promises to the threads that call GetNext: the      *)
(* batches 1, 2, ..., NumBatches are handed out one at a time, in order,   *)
(* each to exactly one caller; "end of data" is answered only once all of  *)
(* them have been handed out; and until the iterator is closed every call  *)
(* is answered.  There is no thread, buffer or lock here.                  *)
(***************************************************************************)
EXTENDS Naturals

CONSTANTS Clients,      \* the threads that may call GetNext
          NumBatches    \* how many batches the data set holds

VARIABLES asking,       \* the clients inside a GetNext call
          handed,       \* how many batches have been handed out
          answer,       \* what each client's latest call returned
          closed        \* Terminate has been requested

streamVars == <<asking, handed, answer, closed>>

EndOfData == 0          \* the empty vector GetNext returns at the end
NoAnswer  == NumBatches + 1

StreamInit ==
    /\ asking = {}
    /\ handed = 0
    /\ answer = [c \in Clients |-> NoAnswer]
    /\ closed = FALSE

Ask(c) ==
    /\ c \notin asking
    /\ asking' = asking \cup {c}
    /\ UNCHANGED <<handed, answer, closed>>

HandOut(c) ==
    /\ handed < NumBatches
    /\ handed' = handed + 1
    /\ answer' = [answer EXCEPT ![c] = handed + 1]

ReportEnd(c) ==
    /\ handed = NumBatches
    /\ answer' = [answer EXCEPT ![c] = EndOfData]
    /\ UNCHANGED handed

Answer(c) ==
    /\ c \in asking
    /\ asking' = asking \ {c}
    /\ HandOut(c) \/ ReportEnd(c)
    /\ UNCHANGED closed

Close ==
    /\ ~closed
    /\ closed' = TRUE
    /\ UNCHANGED <<asking, handed, answer>>

StreamNext == Close \/ \E c \in Clients : Ask(c) \/ Answer(c)

StreamSafety == StreamInit /\ [][StreamNext]_streamVars

\* A call made while the iterator stays open is answered.
StreamFairness == \A c \in Clients : WF_streamVars(~closed /\ Answer(c))

StreamSpec == StreamSafety /\ StreamFairness
=============================================================================

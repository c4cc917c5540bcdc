-------------------------- MODULE ConcurrentWriter --------------------------
(***************************************************************************)
(* The ConcurrentWriter of the parallel builders: any number of threads    *)
(* hand over records (heap buffers) with write(), one thread of the writer *)
(* pops them, writes them to the stream and deletes the buffer.  The       *)
(* destructor pushes a null buffer, which ends that thread, and joins it.  *)
(*                                                                         *)
(* The callers are those of src/builder and src/hyper_builder: threads     *)
(* that the owner of the writer joins before it deletes the writer.        *)
(***************************************************************************)
EXTENDS ConcurrentFIFO

CONSTANTS Producers,    \* the threads that call write()
          Main, Writer, \* the owner of the writer, write_thread
          Records,      \* the buffers, each handed over at most once
          Null,         \* the record {nullptr, 0}
          StreamFails   \* whether output->write may fail

ASSUME WriterAssumption ==
  /\ Threads = Producers \cup {Main, Writer}
  /\ Main # Writer /\ {Main, Writer} \cap Producers = {}
  /\ Elements = Records \cup {Null} /\ Null \notin Records
  /\ StreamFails \in BOOLEAN

VARIABLES output,   \* the records in the stream
          failed,   \* the stream is in a failed state
          deleted,  \* how many times every buffer has been deleted
          closed,   \* closed
          accepted, \* history: the elements in the order they were pushed
          issued    \* history: the records some producer has written

streamVars == <<output, failed, deleted>>
vars == <<fifoVars, streamVars, closed, accepted, issued>>

WriterInit ==
  /\ FIFOInit
  /\ output = <<>> /\ failed = FALSE
  /\ deleted = [r \in Records |-> 0]
  /\ closed = FALSE
  /\ accepted = <<>>

Init ==
  /\ WriterInit
  /\ pc = [t \in Threads |-> IF t = Writer THEN "pop"
                             ELSE IF t = Main THEN "open" ELSE "pushed"]
  /\ element = [t \in Threads |-> Null]
  /\ issued = {}

-----------------------------------------------------------------------------
(* write_loop. *)

(* Mutant: the thread returns when the stream fails. *)
WriteOrReturn ==
  /\ pc[Writer] = "popped"
  /\ element[Writer] # Null
  /\ \/ /\ output' = Append(output, element[Writer])
        /\ Goto(Writer, "pop")
        /\ UNCHANGED failed
     \/ /\ StreamFails
        /\ failed' = TRUE
        /\ Goto(Writer, "returned")
        /\ UNCHANGED output
  /\ deleted' = [deleted EXCEPT ![element[Writer]] = @ + 1]
  /\ UNCHANGED <<ring, conditions, element, closed, accepted, issued>>

(* Write the record and delete its buffer.  The state of the stream is not *)
(* looked at: once it has failed, what is written is lost.                 *)
WriteRecord ==
  /\ pc[Writer] = "popped"
  /\ element[Writer] # Null
  /\ \/ /\ ~failed
        /\ output' = Append(output, element[Writer])
        /\ UNCHANGED failed
     \/ /\ StreamFails \/ failed
        /\ failed' = TRUE
        /\ UNCHANGED output
  /\ deleted' = [deleted EXCEPT ![element[Writer]] = @ + 1]
  /\ Goto(Writer, "pop")
  /\ UNCHANGED <<ring, conditions, element, closed, accepted, issued>>

(* The null record: return. *)
EndLoop ==
  /\ pc[Writer] = "popped"
  /\ element[Writer] = Null
  /\ Goto(Writer, "returned")
  /\ UNCHANGED <<ring, conditions, element, streamVars, closed, accepted, issued>>

WriteLoop ==
  \/ PopStep(Writer) /\ UNCHANGED <<streamVars, closed, accepted, issued>>
  \/ WriteRecord
  \/ EndLoop

-----------------------------------------------------------------------------
(* write() and close(). *)

(* A step of push(); accepted records the order of the pushes. *)
Pushing(t) ==
  /\ PushStep(t)
  /\ accepted' = IF size' # size THEN Append(accepted, element[t]) ELSE accepted
  /\ UNCHANGED <<streamVars, closed, issued>>

(* Mutant: the threads that may still write are not joined first. *)
CloseEarly ==
  /\ pc[Main] = "open"
  /\ ~closed
  /\ element' = [element EXCEPT ![Main] = Null]
  /\ Goto(Main, "push")
  /\ UNCHANGED <<ring, conditions, streamVars, closed, accepted, issued>>

(* The owner has joined its threads and deletes the writer: push the null  *)
(* record.                                                                 *)
Close ==
  /\ pc[Main] = "open"
  /\ \A p \in Producers : pc[p] = "done"
  /\ ~closed
  /\ element' = [element EXCEPT ![Main] = Null]
  /\ Goto(Main, "push")
  /\ UNCHANGED <<ring, conditions, streamVars, closed, accepted, issued>>

(* write_thread.join() returns. *)
Join ==
  /\ pc[Main] = "pushed"
  /\ pc[Writer] = "returned"
  /\ closed' = TRUE
  /\ Goto(Main, "end")
  /\ UNCHANGED <<ring, conditions, element, streamVars, accepted, issued>>

CloseStep == Pushing(Main) \/ Close \/ Join

-----------------------------------------------------------------------------
(* The callers of write(): any of them may hand over any new record.       *)

Produce(p) ==
  /\ pc[p] = "pushed"
  /\ \/ \E r \in Records \ issued :
          /\ element' = [element EXCEPT ![p] = r]
          /\ issued' = issued \cup {r}
          /\ Goto(p, "push")
     \/ /\ Goto(p, "done")
        /\ UNCHANGED <<element, issued>>
  /\ UNCHANGED <<ring, conditions, streamVars, closed, accepted>>

Wakeup(t) ==
  SpuriousWakeup(t) /\ UNCHANGED <<streamVars, closed, accepted, issued>>

Terminated == closed /\ UNCHANGED vars

Next ==
  \/ \E p \in Producers : Pushing(p) \/ Produce(p)
  \/ WriteLoop
  \/ CloseStep
  \/ \E t \in Threads : Wakeup(t)
  \/ Terminated

(* The operating system runs every thread that is not blocked.  There are  *)
(* finitely many records, so a thread cannot be overtaken for ever at the  *)
(* mutex; nobody counts on spurious wakeups.                               *)
Fairness ==
  /\ \A p \in Producers : WF_vars(Pushing(p)) /\ WF_vars(Produce(p))
  /\ WF_vars(WriteLoop)
  /\ WF_vars(CloseStep)

Spec == Init /\ [][Next]_vars /\ Fairness

-----------------------------------------------------------------------------
(* Properties. *)

(* A buffer is deleted once, by the writing thread after it has written    *)
(* it: whatever is in the queue, or about to be pushed, is still there.    *)
BuffersOwned ==
  /\ \A r \in Records : deleted[r] <= 1
  /\ \A i \in 1 .. size : Contents[i] \in Records => deleted[Contents[i]] = 0
  /\ \A p \in Producers : pc[p] \in {"push", "full"} => deleted[element[p]] = 0

(* When the writer is gone every record handed over has been written and   *)
(* its buffer deleted; the queue, about to be deleted, is empty.  If the   *)
(* stream has failed, all the buffers are deleted all the same.            *)
ClosedMeansWritten ==
  closed =>
    /\ size = 0
    /\ \A r \in issued : deleted[r] = 1
    /\ failed \/ Len(output) = Cardinality(issued)

(* The writer implements the order and the promise of WriterSpec.  The     *)
(* null record, once it has been pushed, is the last.                      *)
AcceptedRecords ==
  IF accepted # <<>> /\ accepted[Len(accepted)] = Null
    THEN SubSeq(accepted, 1, Len(accepted) - 1)
    ELSE accepted
Abstract == INSTANCE WriterSpec WITH accepted <- AcceptedRecords
ImplementsWriterSpec == Abstract!Spec

(* No thread stays asleep: the destructor returns. *)
Termination == <>closed
=============================================================================

--------------------------- MODULE ConcurrentFIFO ---------------------------
(***************************************************************************)
(* The bounded queue between the builder threads and the thread that       *)
(* writes the table file: a ring buffer, a mutex and the two condition     *)
(* variables not_full and not_empty.                                       *)
(*                                                                         *)
(* The mutex is held from the test of wait() to the unlock(), so a test    *)
(* and what follows it are one action: block, or move an element.  The     *)
(* notify_one() comes after the unlock() and is an action of its own: any  *)
(* thread may enter the queue in between.  A condition variable is the set *)
(* of the threads blocked on it; a thread that leaves the set, notified or *)
(* not, goes back to the test.                                             *)
(***************************************************************************)
EXTENDS Integers, Sequences, FiniteSets

CONSTANTS Threads,   \* the threads that use the queue
          Capacity,  \* its capacity
          Elements,  \* the values of T
          Garbage    \* what a cell nobody has assigned holds

ASSUME ThreadsAssumption == IsFiniteSet(Threads)
ASSUME CapacityAssumption == Capacity \in Nat \ {0}
ASSUME GarbageAssumption == Garbage \notin Elements

VARIABLES buffer, head, size,   \* the ring
          not_full, not_empty,  \* the threads blocked on each condition
          pc,                   \* where every thread is
          element               \* the argument of push, the result of pop

ring == <<buffer, head, size>>
conditions == <<not_full, not_empty>>
fifoVars == <<ring, conditions, pc, element>>

Cells == 0 .. Capacity - 1

FIFOInit ==
  /\ buffer = [c \in Cells |-> Garbage]
  /\ head = 0 /\ size = 0
  /\ not_full = {} /\ not_empty = {}

Goto(t, label) == pc' = [pc EXCEPT ![t] = label]

(* Mutant: the offset of the head is forgotten. *)
TailFromZero == size

(* (head+size)%capacity: the first free cell. *)
Tail1 == (head + size) % Capacity

-----------------------------------------------------------------------------
(* push(element). *)

(* The queue is full: release the mutex and block. *)
WaitNotFull(t) ==
  /\ pc[t] = "push"
  /\ size = Capacity
  /\ not_full' = not_full \cup {t}
  /\ Goto(t, "full")
  /\ UNCHANGED <<ring, not_empty, element>>

(* There is room: store the element and release the mutex. *)
Push(t) ==
  /\ pc[t] = "push"
  /\ size # Capacity
  /\ buffer' = [buffer EXCEPT ![Tail1] = element[t]]
  /\ size' = size + 1
  /\ Goto(t, "notify_empty")
  /\ UNCHANGED <<head, conditions, element>>

(* Wake one thread of a condition and send it back to its test. *)
Wake(t, condition, test, next) ==
  IF condition = {}
    THEN condition' = {} /\ Goto(t, next)
    ELSE \E u \in condition :
           /\ condition' = condition \ {u}
           /\ pc' = [pc EXCEPT ![u] = test, ![t] = next]

(* not_empty.notify_one(), and push() returns. *)
NotifyNotEmpty(t) ==
  /\ pc[t] = "notify_empty"
  /\ Wake(t, not_empty, "pop", "pushed")
  /\ UNCHANGED <<ring, not_full, element>>

-----------------------------------------------------------------------------
(* pop(). *)

(* The queue is empty: release the mutex and block. *)
WaitNotEmpty(t) ==
  /\ pc[t] = "pop"
  /\ size = 0
  /\ not_empty' = not_empty \cup {t}
  /\ Goto(t, "empty")
  /\ UNCHANGED <<ring, not_full, element>>

(* Mutant: the head is not advanced. *)
PopSame(t) ==
  /\ pc[t] = "pop"
  /\ size > 0
  /\ element' = [element EXCEPT ![t] = buffer[head]]
  /\ size' = size - 1
  /\ Goto(t, "notify_full")
  /\ UNCHANGED <<buffer, head, conditions>>

(* Take the element at the head and release the mutex. *)
Pop(t) ==
  /\ pc[t] = "pop"
  /\ size > 0
  /\ element' = [element EXCEPT ![t] = buffer[head]]
  /\ head' = (head + 1) % Capacity
  /\ size' = size - 1
  /\ Goto(t, "notify_full")
  /\ UNCHANGED <<buffer, conditions>>

(* Mutant: blocked pushers are notified only by the pop that makes room in *)
(* a full queue.                                                           *)
NotifyIfWasFull(t) ==
  /\ pc[t] = "notify_full"
  /\ IF size = Capacity - 1 THEN Wake(t, not_full, "push", "popped")
                            ELSE Goto(t, "popped") /\ UNCHANGED not_full
  /\ UNCHANGED <<ring, not_empty, element>>

(* not_full.notify_one(), and pop() returns. *)
NotifyNotFull(t) ==
  /\ pc[t] = "notify_full"
  /\ Wake(t, not_full, "push", "popped")
  /\ UNCHANGED <<ring, not_empty, element>>

-----------------------------------------------------------------------------
(* wait() may return although nobody notified the thread. *)
SpuriousWakeup(t) ==
  /\ \/ /\ t \in not_full
        /\ not_full' = not_full \ {t}
        /\ Goto(t, "push")
        /\ UNCHANGED not_empty
     \/ /\ t \in not_empty
        /\ not_empty' = not_empty \ {t}
        /\ Goto(t, "pop")
        /\ UNCHANGED not_full
  /\ UNCHANGED <<ring, element>>

PushStep(t) == WaitNotFull(t) \/ Push(t) \/ NotifyNotEmpty(t)
PopStep(t) == WaitNotEmpty(t) \/ Pop(t) \/ NotifyNotFull(t)

-----------------------------------------------------------------------------
(* Properties of the queue, for whoever uses it. *)

At(label) == {t \in Threads : pc[t] = label}

(* The elements in the queue, oldest first. *)
Contents == [i \in 1 .. size |-> buffer[(head + i - 1) % Capacity]]

(* No wakeup is lost on not_full: while a thread is blocked there, every   *)
(* free cell is matched by a notification still to be sent or by a thread  *)
(* about to test the size again.  A notify_one() too few (after the unlock *)
(* anybody may take the cell first) would leave a pusher asleep next to a  *)
(* free cell.                                                              *)
RoomIsAwaited ==
  not_full # {} =>
    Capacity - size <= Cardinality(At("notify_full")) + Cardinality(At("push"))

(* The same on not_empty. *)
ElementsAreAwaited ==
  not_empty # {} =>
    size <= Cardinality(At("notify_empty")) + Cardinality(At("pop"))

NoWakeupLost == RoomIsAwaited /\ ElementsAreAwaited
=============================================================================

------------------- MODULE HyperMultithreadedBuilderProofs -------------------
(***************************************************************************)
(* The queue, the writer and the threads of hyper-build.                   *)
(*                                                                         *)
(* First, of ConcurrentWriter: that the writer loses, repeats and reorders *)
(* no record, frees every buffer once and lets no thread sleep next to     *)
(* what it waits for, for every number of producers, every capacity and    *)
(* every set of records; and that it implements WriterSpec.  Nothing of    *)
(* what HyperMultithreadedBuilder assumes is used there.                   *)
(*                                                                         *)
(* Then, of HyperMultithreadedBuilder: that its threads use the writer as  *)
(* it allows, so that what is proved of it holds of them, and that the     *)
(* file has one record of every requested vertex: for every number of      *)
(* threads and of vertices that leave the vertex counter room.             *)
(***************************************************************************)
EXTENDS HyperMultithreadedBuilder, FiniteSetTheorems, SequenceTheorems, TLAPS

ProducerLabels == {"pushed", "push", "full", "notify_empty", "done"}
MainLabels == {"open", "push", "full", "notify_empty", "pushed", "end"}
WriterLabels == {"pop", "empty", "notify_full", "popped", "returned"}
Labels == ProducerLabels \cup MainLabels \cup WriterLabels

TypeQueue ==
  /\ buffer \in [Cells -> Elements \cup {Garbage}]
  /\ head \in Cells /\ size \in 0 .. Capacity
  /\ not_full = At("full") /\ not_empty = At("empty")
  /\ element \in [Threads -> Elements]

TypeThreads ==
  /\ pc \in [Threads -> Labels]
  /\ \A p \in Producers : pc[p] \in ProducerLabels
  /\ pc[Main] \in MainLabels
  /\ pc[Writer] \in WriterLabels

TypeStream ==
  /\ output \in Seq(Records) /\ failed \in BOOLEAN
  /\ deleted \in [Records -> Nat]
  /\ closed \in BOOLEAN
  /\ accepted \in Seq(Elements)
  /\ issued \subseteq Records

TypeOK == TypeQueue /\ TypeThreads /\ TypeStream

(* The writing thread has taken an element and not yet asked for another.  *)
Holding == pc[Writer] \in {"notify_full", "popped", "returned"}

(* The elements popped so far, and those of them that have been written.   *)
Popped == Len(accepted) - size
Written == IF Holding THEN Popped - 1 ELSE Popped

(* The ring holds the end of the log, the writing thread what comes before.*)
LogInv ==
  /\ Popped >= 0
  /\ \A i \in 1 .. size : Contents[i] = accepted[Popped + i]
  /\ Holding => Popped > 0 /\ element[Writer] = accepted[Popped]
  /\ pc[Writer] = "returned" => element[Writer] = Null

(* The null record comes from Main, when all the producers are done: it is *)
(* the last one.                                                           *)
HasClosed == pc[Main] \in {"notify_empty", "pushed", "end"}

NullInv ==
  /\ \A i \in 1 .. Len(accepted) : accepted[i] = Null => i = Len(accepted)
  /\ HasClosed <=> Len(accepted) > 0 /\ accepted[Len(accepted)] = Null
  /\ pc[Main] \in {"push", "full"} => element[Main] = Null
  /\ pc[Main] # "open" => \A p \in Producers : pc[p] = "done"
  /\ closed <=> pc[Main] = "end"
  /\ closed => pc[Writer] = "returned"

(* A record issued is in the log, or about to be pushed, in one place.     *)
Pending(p) == pc[p] \in {"push", "full"}
Logged(r) == \E i \in 1 .. Len(accepted) : accepted[i] = r

OwnInv ==
  /\ \A i, j \in 1 .. Len(accepted) : accepted[i] = accepted[j] => i = j
  /\ \A i \in 1 .. Len(accepted) : accepted[i] \in issued \cup {Null}
  /\ \A p \in Producers : Pending(p) => element[p] \in issued /\ ~Logged(element[p])
  /\ \A p, q \in Producers :
       Pending(p) /\ Pending(q) /\ element[p] = element[q] => p = q
  /\ \A r \in issued : Logged(r) \/ \E p \in Producers : Pending(p) /\ element[p] = r

(* What has been written is a prefix of the log, all of it unless the      *)
(* stream has failed; the buffers deleted are those of the written part.   *)
WrittenBefore(r, n) == \E i \in 1 .. n : accepted[i] = r

StreamInv ==
  /\ \A r \in Records : deleted[r] = IF WrittenBefore(r, Written) THEN 1 ELSE 0
  /\ Len(output) <= Written
  /\ \A i \in 1 .. Len(output) : output[i] = accepted[i]
  /\ ~failed => Len(output) = Written

IInv == TypeOK /\ LogInv /\ NullInv /\ OwnInv /\ StreamInv /\ NoWakeupLost

-----------------------------------------------------------------------------
(* Arithmetic of the ring. *)

(* Below the modulus the remainder is the number; it goes round once.      *)
LEMMA ModSmall == ASSUME NEW a \in Nat, NEW m \in Nat \ {0}, a < m PROVE a % m = a
BY SMT

LEMMA ModOnce ==
  ASSUME NEW a \in Nat, NEW m \in Nat \ {0}, m <= a, a < m + m
  PROVE  a % m = a - m
<1>1. a = m * (a \div m) + (a % m) /\ a % m \in 0 .. m - 1 /\ a \div m \in Nat
  BY SMT
<1> DEFINE q == a \div m
<1>2. q \in Nat /\ a = m * q + (a % m) /\ a % m \in 0 .. m - 1
  BY <1>1
<1> HIDE DEF q
<1>3. CASE q = 0
  BY <1>2, <1>3
<1>4. CASE q = 1
  BY <1>2, <1>4
<1>5. CASE q >= 2
  <2>1. m * q >= m * 2
    BY <1>2, <1>5
  <2> QED BY <1>2, <2>1
<1> QED BY <1>2, <1>3, <1>4, <1>5

(* The cell k places after the head. *)
LEMMA CellAt ==
  ASSUME NEW h \in Cells, NEW k \in 0 .. Capacity
  PROVE  (h + k) % Capacity = IF h + k < Capacity THEN h + k ELSE h + k - Capacity
<1>1. Capacity \in Nat \ {0} /\ h + k \in Nat /\ h + k < Capacity + Capacity
  BY CapacityAssumption DEF Cells
<1>2. CASE h + k < Capacity
  BY <1>1, <1>2, ModSmall
<1>3. CASE ~(h + k < Capacity)
  <2>1. h + k \in Nat /\ Capacity <= h + k
    BY <1>1, <1>3
  <2>2. (h + k) % Capacity = (h + k) - Capacity
    BY <1>1, <2>1, ModOnce
  <2> QED BY <1>1, <1>3, <2>2 DEF Cells
<1> QED BY <1>2, <1>3

(* The next cell comes one place earlier after the one that follows it.    *)
LEMMA CellShift ==
  ASSUME NEW h \in Cells, NEW k \in 0 .. Capacity - 1
  PROVE  /\ (h + 1) % Capacity \in Cells
         /\ (((h + 1) % Capacity) + k) % Capacity = (h + k + 1) % Capacity
<1> DEFINE g == (h + 1) % Capacity
<1>1. g = (IF h + 1 < Capacity THEN h + 1 ELSE h + 1 - Capacity) /\ Capacity \in Nat \ {0}
  BY CellAt, CapacityAssumption
<1>2. g \in Cells
  BY <1>1 DEF Cells
<1>3. (g + k) % Capacity = IF g + k < Capacity THEN g + k ELSE g + k - Capacity
  BY <1>1, <1>2, CellAt
<1>4. (h + (k + 1)) % Capacity =
        IF h + (k + 1) < Capacity THEN h + (k + 1) ELSE h + (k + 1) - Capacity
  BY <1>1, CellAt
<1>5. h + (k + 1) = h + k + 1
  BY <1>1 DEF Cells
<1> HIDE DEF g
<1>6. (g + k) % Capacity = (h + (k + 1)) % Capacity
  BY <1>1, <1>3, <1>4 DEF Cells
<1> QED BY <1>2, <1>5, <1>6 DEF g

(* A push adds its element behind the others. *)
LEMMA ContentsPushed ==
  ASSUME TypeQueue, NEW t \in Threads, Push(t)
  PROVE  /\ size' = size + 1 /\ size < Capacity
         /\ Contents'[size + 1] = element[t]
         /\ \A i \in 1 .. size : Contents'[i] = Contents[i]
         /\ buffer' \in [Cells -> Elements \cup {Garbage}]
<1>1. size \in Nat /\ size < Capacity /\ Capacity \in Nat \ {0} /\ head \in Cells
  BY CapacityAssumption DEF TypeQueue, Push
<1>2. size' = size + 1 /\ head' = head /\ buffer' = [buffer EXCEPT ![Tail1] = element[t]]
  BY DEF Push
<1>3. Tail1 = (head + size) % Capacity
      /\ Tail1 = (IF head + size < Capacity THEN head + size ELSE head + size - Capacity)
  BY <1>1, CellAt DEF Tail1
<1>4. Tail1 \in Cells
  BY <1>1, <1>3 DEF Cells
<1>5. buffer' \in [Cells -> Elements \cup {Garbage}] /\ buffer'[Tail1] = element[t]
      /\ \A c \in Cells \ {Tail1} : buffer'[c] = buffer[c]
  BY <1>2, <1>4 DEF TypeQueue
<1>6. Contents'[size + 1] = buffer'[(head + (size + 1) - 1) % Capacity]
  BY <1>1, <1>2 DEF Contents
<1>7. head + (size + 1) - 1 = head + size
  BY <1>1 DEF Cells
<1>8. ASSUME NEW i \in 1 .. size PROVE Contents'[i] = Contents[i]
  <2> DEFINE c == (head + i - 1) % Capacity
  <2>1. head + i - 1 = head + (i - 1) /\ i - 1 \in 0 .. Capacity
    BY <1>1 DEF Cells
  <2>2. c = IF head + (i - 1) < Capacity THEN head + (i - 1) ELSE head + (i - 1) - Capacity
    BY <1>1, <2>1, CellAt
  <2> HIDE DEF c
  <2>3. c \in Cells /\ c # Tail1
    BY <1>1, <1>3, <2>2 DEF Cells
  <2>4. Contents'[i] = buffer'[c] /\ Contents[i] = buffer[c]
    BY <1>1, <1>2 DEF Contents, c
  <2> QED BY <1>5, <2>3, <2>4
<1> QED BY <1>1, <1>2, <1>3, <1>5, <1>6, <1>7, <1>8

(* A pop takes the oldest and moves the others up. *)
LEMMA ContentsPopped ==
  ASSUME TypeQueue, NEW t \in Threads, Pop(t)
  PROVE  /\ size' = size - 1 /\ size > 0
         /\ buffer[head] = Contents[1]
         /\ \A i \in 1 .. size - 1 : Contents'[i] = Contents[i + 1]
         /\ head' \in Cells
<1>1. size \in 1 .. Capacity /\ Capacity \in Nat \ {0} /\ head \in Cells
  BY CapacityAssumption DEF TypeQueue, Pop
<1>2. size' = size - 1 /\ head' = (head + 1) % Capacity /\ buffer' = buffer
  BY DEF Pop
<1>3. head' \in Cells
  BY <1>1, <1>2, CellShift
<1>4. Contents[1] = buffer[(head + 1 - 1) % Capacity]
  BY <1>1 DEF Contents
<1>5. head + 1 - 1 = head + 0 /\ (head + 0) % Capacity = head
  <2>1. head + 1 - 1 = head + 0 /\ head + 0 = head /\ head < Capacity
    BY <1>1 DEF Cells
  <2>2. 0 \in 0 .. Capacity
    BY <1>1
  <2>3. (head + 0) % Capacity = IF head + 0 < Capacity THEN head + 0 ELSE head + 0 - Capacity
    BY <1>1, <2>2, CellAt
  <2> QED BY <2>1, <2>3
<1>6. ASSUME NEW i \in 1 .. size - 1 PROVE Contents'[i] = Contents[i + 1]
  <2>1. Contents'[i] = buffer[(head' + i - 1) % Capacity]
    BY <1>1, <1>2 DEF Contents
  <2>2. Contents[i + 1] = buffer[(head + (i + 1) - 1) % Capacity]
    BY <1>1 DEF Contents
  <2>3. /\ head' + i - 1 = head' + (i - 1)
        /\ head + (i + 1) - 1 = head + (i - 1) + 1
        /\ i - 1 \in 0 .. Capacity - 1
    BY <1>1, <1>3 DEF Cells
  <2>4. (head' + (i - 1)) % Capacity = (head + (i - 1) + 1) % Capacity
    BY <1>1, <1>2, <2>3, CellShift
  <2> QED BY <2>1, <2>2, <2>3, <2>4
<1> QED BY <1>1, <1>2, <1>3, <1>4, <1>5, <1>6

-----------------------------------------------------------------------------
(* Types. *)

(* Which threads there are, and which of them does what.                   *)
LEMMA ThreadsFacts ==
  /\ Threads = Producers \cup {Main, Writer}
  /\ Main # Writer /\ Main \notin Producers /\ Writer \notin Producers
  /\ Elements = Records \cup {Null} /\ Null \notin Records
BY WriterAssumption DEF WriterAssumption

LEMMA InitType == Init => TypeOK
<1> SUFFICES ASSUME Init PROVE TypeOK
  OBVIOUS
<1> USE ThreadsFacts DEF Init, WriterInit, FIFOInit
<1>1. TypeThreads
  BY DEF TypeThreads, Labels, ProducerLabels, MainLabels, WriterLabels
<1>2. TypeQueue
  <2>1. 0 \in Cells /\ 0 \in 0 .. Capacity
    BY CapacityAssumption DEF Cells
  <2> QED BY <2>1 DEF TypeQueue, At
<1>3. TypeStream
  <2>1. output \in Seq(Records) /\ accepted \in Seq(Elements)
    BY EmptySeq
  <2>2. deleted \in [Records -> Nat] /\ failed \in BOOLEAN /\ closed \in BOOLEAN
    OBVIOUS
  <2> QED BY <2>1, <2>2 DEF TypeStream
<1> QED BY <1>1, <1>2, <1>3 DEF TypeOK

(* push() and pop(): what a thread may do in the queue. *)
LEMMA PushStepType ==
  ASSUME TypeQueue, TypeThreads, NEW t \in Producers \cup {Main}, PushStep(t)
  PROVE  TypeQueue' /\ TypeThreads'
<1> USE ThreadsFacts DEF Goto, Labels, ProducerLabels, MainLabels, WriterLabels
<1>1. CASE WaitNotFull(t)
  BY <1>1 DEF WaitNotFull, TypeQueue, TypeThreads, ring, At
<1>2. CASE Push(t)
  <2>1. TypeThreads'
    BY <1>2 DEF Push, TypeThreads
  <2>2. size' \in 0 .. Capacity /\ buffer' \in [Cells -> Elements \cup {Garbage}]
    BY <1>2, ContentsPushed, CapacityAssumption DEF TypeQueue
  <2> QED BY <1>2, <2>1, <2>2 DEF Push, TypeQueue, TypeThreads, At, conditions
<1>3. CASE NotifyNotEmpty(t)
  <2>1. CASE not_empty = {}
    BY <1>3, <2>1 DEF NotifyNotEmpty, Wake, TypeQueue, TypeThreads, At, ring
  <2>2. CASE not_empty # {}
    <3>1. PICK u \in not_empty :
            not_empty' = not_empty \ {u} /\ pc' = [pc EXCEPT ![u] = "pop", ![t] = "pushed"]
      BY <1>3, <2>2 DEF NotifyNotEmpty, Wake
    <3>2. u = Writer /\ pc[u] = "empty" /\ pc[t] = "notify_empty"
      BY <1>3 DEF TypeQueue, TypeThreads, At, NotifyNotEmpty
    <3>3. TypeThreads'
      BY <3>1, <3>2 DEF TypeThreads
    <3>4. TypeQueue'
      BY <1>3, <3>1, <3>2 DEF NotifyNotEmpty, TypeQueue, TypeThreads, At, ring
    <3> QED BY <3>3, <3>4
  <2> QED BY <2>1, <2>2
<1> QED BY <1>1, <1>2, <1>3 DEF PushStep

LEMMA PopStepType ==
  ASSUME TypeQueue, TypeThreads, PopStep(Writer), size > 0 => Contents[1] \in Elements
  PROVE  TypeQueue' /\ TypeThreads'
<1> USE ThreadsFacts DEF Goto, Labels, ProducerLabels, MainLabels, WriterLabels
<1>1. CASE WaitNotEmpty(Writer)
  BY <1>1 DEF WaitNotEmpty, TypeQueue, TypeThreads, ring, At
<1>2. CASE Pop(Writer)
  <2>1. TypeThreads'
    BY <1>2 DEF Pop, TypeThreads
  <2>0. size' = size - 1 /\ size > 0 /\ buffer[head] = Contents[1] /\ head' \in Cells
    BY <1>2, ContentsPopped
  <2>2. size' \in 0 .. Capacity /\ head' \in Cells /\ buffer[head] \in Elements
    BY <2>0, CapacityAssumption DEF TypeQueue
  <2> QED BY <1>2, <2>1, <2>2 DEF Pop, TypeQueue, TypeThreads, At, conditions
<1>3. CASE NotifyNotFull(Writer)
  <2>1. CASE not_full = {}
    BY <1>3, <2>1 DEF NotifyNotFull, Wake, TypeQueue, TypeThreads, At, ring
  <2>2. CASE not_full # {}
    <3>1. PICK u \in not_full :
            not_full' = not_full \ {u} /\ pc' = [pc EXCEPT ![u] = "push", ![Writer] = "popped"]
      BY <1>3, <2>2 DEF NotifyNotFull, Wake
    <3>2. u \in Producers \cup {Main} /\ pc[u] = "full" /\ pc[Writer] = "notify_full"
      BY <1>3 DEF TypeQueue, TypeThreads, At, NotifyNotFull
    <3>3. TypeThreads'
      BY <3>1, <3>2 DEF TypeThreads
    <3>4. TypeQueue'
      BY <1>3, <3>1, <3>2 DEF NotifyNotFull, TypeQueue, TypeThreads, At, ring
    <3> QED BY <3>3, <3>4
  <2> QED BY <2>1, <2>2
<1> QED BY <1>1, <1>2, <1>3 DEF PopStep

LEMMA WakeupType ==
  ASSUME TypeQueue, TypeThreads, NEW t \in Threads, SpuriousWakeup(t)
  PROVE  TypeQueue' /\ TypeThreads'
<1> USE ThreadsFacts DEF Goto, Labels, ProducerLabels, MainLabels, WriterLabels
<1>1. CASE t \in not_full /\ not_full' = not_full \ {t} /\ Goto(t, "push") /\ UNCHANGED not_empty
  <2>1. t \in Producers \cup {Main} /\ pc[t] = "full"
    BY <1>1 DEF TypeQueue, TypeThreads, At
  <2> QED BY <1>1, <2>1 DEF SpuriousWakeup, TypeQueue, TypeThreads, At, ring
<1>2. CASE t \in not_empty /\ not_empty' = not_empty \ {t} /\ Goto(t, "pop") /\ UNCHANGED not_full
  <2>1. t = Writer /\ pc[t] = "empty"
    BY <1>2 DEF TypeQueue, TypeThreads, At
  <2> QED BY <1>2, <2>1 DEF SpuriousWakeup, TypeQueue, TypeThreads, At, ring
<1> QED BY <1>1, <1>2 DEF SpuriousWakeup

-----------------------------------------------------------------------------
(* The log.  Steps in which threads only block and wake up change none of  *)
(* what the invariants speak of.                                           *)

DataInv == LogInv /\ NullInv /\ OwnInv /\ StreamInv

Quiet ==
  /\ UNCHANGED <<ring, element, streamVars, closed, accepted, issued>>
  /\ Holding' <=> Holding
  /\ pc'[Writer] = "returned" <=> pc[Writer] = "returned"
  /\ HasClosed' <=> HasClosed
  /\ \A t \in Producers \cup {Main} : pc'[t] \in {"push", "full"} <=> pc[t] \in {"push", "full"}
  /\ pc'[Main] = "open" <=> pc[Main] = "open"
  /\ pc'[Main] = "end" <=> pc[Main] = "end"
  /\ \A p \in Producers : pc'[p] = "done" <=> pc[p] = "done"

LEMMA QuietKeeps == ASSUME DataInv, Quiet PROVE DataInv'
<1> USE DEF DataInv, Quiet, ring, streamVars
<1>1. Popped' = Popped /\ Written' = Written /\ Contents' = Contents
  BY DEF Popped, Written, Contents
<1>2. LogInv'
  BY <1>1 DEF LogInv
<1>3. NullInv'
  BY DEF NullInv
<1>4. OwnInv'
  BY DEF OwnInv, Pending, Logged
<1>5. StreamInv'
  BY <1>1 DEF StreamInv, WrittenBefore
<1> QED BY <1>2, <1>3, <1>4, <1>5

LEMMA BlockQuiet ==
  ASSUME TypeQueue, TypeThreads, UNCHANGED <<streamVars, closed, accepted, issued>>,
         NEW t \in Producers \cup {Main},
         WaitNotFull(t) \/ NotifyNotEmpty(t) \/ WaitNotEmpty(Writer) \/ NotifyNotFull(Writer)
  PROVE  Quiet
<1> USE ThreadsFacts DEF Goto, ProducerLabels, MainLabels, WriterLabels, Quiet, Holding, HasClosed
<1>1. CASE WaitNotFull(t)
  BY <1>1 DEF WaitNotFull, TypeThreads
<1>2. CASE WaitNotEmpty(Writer)
  BY <1>2 DEF WaitNotEmpty, TypeThreads
<1>3. CASE NotifyNotEmpty(t)
  <2>1. CASE not_empty = {}
    BY <1>3, <2>1 DEF NotifyNotEmpty, Wake, TypeThreads
  <2>2. CASE not_empty # {}
    <3>1. PICK u \in not_empty : pc' = [pc EXCEPT ![u] = "pop", ![t] = "pushed"]
      BY <1>3, <2>2 DEF NotifyNotEmpty, Wake
    <3>2. u = Writer /\ pc[u] = "empty" /\ pc[t] = "notify_empty"
      BY <1>3 DEF TypeQueue, TypeThreads, At, NotifyNotEmpty
    <3> QED BY <1>3, <3>1, <3>2 DEF NotifyNotEmpty, TypeThreads
  <2> QED BY <2>1, <2>2
<1>4. CASE NotifyNotFull(Writer)
  <2>1. CASE not_full = {}
    BY <1>4, <2>1 DEF NotifyNotFull, Wake, TypeThreads
  <2>2. CASE not_full # {}
    <3>1. PICK u \in not_full : pc' = [pc EXCEPT ![u] = "push", ![Writer] = "popped"]
      BY <1>4, <2>2 DEF NotifyNotFull, Wake
    <3>2. u \in Producers \cup {Main} /\ pc[u] = "full" /\ pc[Writer] = "notify_full"
      BY <1>4 DEF TypeQueue, TypeThreads, At, NotifyNotFull
    <3> QED BY <1>4, <3>1, <3>2 DEF NotifyNotFull, TypeThreads
  <2> QED BY <2>1, <2>2
<1> QED BY <1>1, <1>2, <1>3, <1>4

LEMMA WakeupQuiet ==
  ASSUME TypeQueue, TypeThreads, NEW t \in Threads, Wakeup(t)
  PROVE  Quiet
<1> USE ThreadsFacts DEF Goto, ProducerLabels, MainLabels, WriterLabels, Quiet, Holding, HasClosed
<1>1. CASE t \in not_full /\ Goto(t, "push")
  <2>1. t \in Producers \cup {Main} /\ pc[t] = "full"
    BY <1>1 DEF TypeQueue, TypeThreads, At
  <2> QED BY <1>1, <2>1 DEF Wakeup, SpuriousWakeup, TypeThreads
<1>2. CASE t \in not_empty /\ Goto(t, "pop")
  <2>1. t = Writer /\ pc[t] = "empty"
    BY <1>2 DEF TypeQueue, TypeThreads, At
  <2> QED BY <1>2, <2>1 DEF Wakeup, SpuriousWakeup, TypeThreads
<1> QED BY <1>1, <1>2 DEF Wakeup, SpuriousWakeup

LEMMA InitData == Init => DataInv
<1> SUFFICES ASSUME Init PROVE DataInv
  OBVIOUS
<1> USE ThreadsFacts DEF Init, WriterInit, FIFOInit
<1>1. ~Holding /\ ~HasClosed /\ Len(accepted) = 0 /\ size = 0 /\ Len(output) = 0
  BY EmptySeq DEF Holding, HasClosed
<1>2. Popped = 0 /\ Written = 0
  BY <1>1 DEF Popped, Written
<1>3. LogInv
  BY <1>1, <1>2 DEF LogInv
<1>4. NullInv
  BY <1>1 DEF NullInv
<1>5. OwnInv
  BY <1>1 DEF OwnInv, Pending, Logged
<1>6. StreamInv
  BY <1>1, <1>2 DEF StreamInv, WrittenBefore
<1> QED BY <1>3, <1>4, <1>5, <1>6 DEF DataInv

(* What is in the log and in the queue are numbers. *)
LEMMA Numbers ==
  ASSUME TypeOK, LogInv
  PROVE  /\ Len(accepted) \in Nat /\ size \in Nat /\ size <= Len(accepted)
         /\ Popped \in Nat /\ Written \in Nat /\ Written <= Popped
         /\ Popped = Len(accepted) - size
         /\ (Holding => Written = Popped - 1) /\ (~Holding => Written = Popped)
         /\ Len(output) \in Nat
<1>1. Len(accepted) \in Nat /\ Len(output) \in Nat
  BY LenProperties DEF TypeOK, TypeStream
<1>2. size \in Nat
  BY CapacityAssumption DEF TypeOK, TypeQueue
<1>3. Popped = Len(accepted) - size /\ Popped >= 0 /\ (Holding => Popped > 0)
  BY DEF Popped, LogInv
<1> QED BY <1>1, <1>2, <1>3 DEF Written

(* An element is pushed: it is the last of the log and of the queue. *)
LEMMA PushKeeps ==
  ASSUME TypeOK, DataInv, NEW t \in Producers \cup {Main}, Push(t), Pushing(t)
  PROVE  DataInv'
<1> DEFINE n == Len(accepted)
           e == element[t]
<1> USE ThreadsFacts
<1>1. /\ size' = size + 1
      /\ Contents'[size + 1] = e
      /\ \A i \in 1 .. size : Contents'[i] = Contents[i]
  BY ContentsPushed DEF TypeOK
<1>2. n \in Nat /\ size \in Nat /\ Popped \in Nat /\ Written \in Nat /\ Popped = n - size
  BY Numbers DEF DataInv
<1>3. accepted' = Append(accepted, e) /\ e \in Elements /\ accepted \in Seq(Elements)
  BY <1>1, <1>2 DEF Pushing, TypeOK, TypeQueue, TypeStream
<1>4. /\ Len(accepted') = n + 1
      /\ \A i \in 1 .. n : accepted'[i] = accepted[i]
      /\ accepted'[n + 1] = e
  BY <1>3, AppendProperties
<1>5. /\ UNCHANGED <<output, failed, deleted, closed, issued, element>>
      /\ pc' = [pc EXCEPT ![t] = "notify_empty"] /\ pc[t] = "push"
  BY DEF Pushing, Push, streamVars, Goto
<1>6. pc \in [Threads -> Labels] /\ t \in Threads
  BY DEF TypeOK, TypeThreads
<1>7. /\ Holding' <=> Holding
      /\ pc'[Writer] = pc[Writer]
  BY <1>5, <1>6 DEF Holding
<1>8. Popped' = Popped /\ Written' = Written
  BY <1>1, <1>2, <1>4, <1>7 DEF Popped, Written
<1>9. IF t = Main THEN e = Null ELSE e \in issued /\ e \in Records
  BY <1>5 DEF DataInv, NullInv, OwnInv, Pending, TypeOK, TypeStream
<1>10. pc[Main] = "open" \/ t = Main
  BY <1>5, <1>6 DEF DataInv, NullInv
<1>11. \A i \in 1 .. n : accepted[i] # e
  BY <1>5, <1>9 DEF DataInv, NullInv, OwnInv, HasClosed, Pending, Logged
<1> HIDE DEF n, e
<1>12. LogInv'
  <2>1. \A i \in 1 .. size' : Contents'[i] = accepted'[Popped' + i]
    <3>1. ASSUME NEW i \in 1 .. size PROVE Contents'[i] = accepted'[Popped + i]
      <4>1. Contents[i] = accepted[Popped + i] /\ Popped + i \in 1 .. n
        BY <1>2 DEF DataInv, LogInv
      <4> QED BY <1>1, <1>4, <4>1
    <3>2. Contents'[size + 1] = accepted'[Popped + (size + 1)]
      BY <1>1, <1>2, <1>4
    <3> QED BY <1>1, <1>2, <1>8, <3>1, <3>2
  <2>2. Holding => Popped \in 1 .. n /\ element[Writer] = accepted[Popped]
    BY <1>2 DEF DataInv, LogInv
  <2> QED BY <1>2, <1>4, <1>5, <1>7, <1>8, <2>1, <2>2 DEF DataInv, LogInv
<1>13. NullInv'
  <2>1. \A i \in 1 .. n + 1 : accepted'[i] = Null => i = n + 1
    BY <1>2, <1>4, <1>5, <1>9, <1>10 DEF DataInv, NullInv, HasClosed, n
  <2>2. HasClosed' <=> t = Main
    BY <1>5, <1>6, <1>10 DEF HasClosed
  <2>3. n + 1 > 0 /\ (accepted'[n + 1] = Null <=> t = Main)
    BY <1>2, <1>4, <1>9
  <2>4. pc'[Main] \in {"push", "full"} => element'[Main] = Null
    BY <1>5, <1>6 DEF DataInv, NullInv
  <2>5. pc'[Main] # "open" => \A p \in Producers : pc'[p] = "done"
    BY <1>5, <1>6, <1>10 DEF DataInv, NullInv
  <2>6. (closed' <=> pc'[Main] = "end") /\ (closed' => pc'[Writer] = "returned")
    BY <1>5, <1>6 DEF DataInv, NullInv
  <2> QED BY <1>4, <2>1, <2>2, <2>3, <2>4, <2>5, <2>6 DEF NullInv
<1>14. OwnInv'
  <2>1. \A i, j \in 1 .. n + 1 : accepted'[i] = accepted'[j] => i = j
    BY <1>2, <1>4, <1>11 DEF DataInv, OwnInv, n
  <2>2. \A i \in 1 .. n + 1 : accepted'[i] \in issued \cup {Null}
    BY <1>2, <1>4, <1>9 DEF DataInv, OwnInv, n
  <2>3. \A p \in Producers : Pending(p)' <=> Pending(p) /\ p # t
    BY <1>5, <1>6 DEF Pending
  <2>4. \A r : Logged(r)' <=> Logged(r) \/ r = e
    <3>1. \A r : Logged(r)' <=> \E i \in 1 .. n + 1 : accepted'[i] = r
      BY <1>4 DEF Logged
    <3> QED BY <1>2, <1>4, <3>1 DEF Logged, n
  <2>5. \A p \in Producers : Pending(p) /\ p # t => element[p] # e
    BY <1>5, <1>9, ThreadsFacts DEF DataInv, OwnInv, Pending, e, TypeOK, TypeStream
  <2>6. \A p \in Producers : Pending(p)' => element'[p] \in issued' /\ ~Logged(element[p])'
    <3>1. ASSUME NEW p \in Producers, Pending(p), p # t
          PROVE  element[p] \in issued /\ ~Logged(element[p]) /\ element[p] # e
      BY <2>5, <3>1 DEF DataInv, OwnInv
    <3>2. \A p \in Producers : Logged(element[p])' <=> Logged(element[p]) \/ element[p] = e
      BY <1>5, <2>4 DEF Logged
    <3> QED BY <1>5, <2>3, <3>1, <3>2
  <2>7. \A p, q \in Producers :
          Pending(p)' /\ Pending(q)' /\ element'[p] = element'[q] => p = q
    BY <1>5, <2>3 DEF DataInv, OwnInv
  <2>8. \A r \in issued' : Logged(r)' \/ \E p \in Producers : Pending(p)' /\ element'[p] = r
    <3>1. ASSUME NEW r \in issued
          PROVE  Logged(r)' \/ \E p \in Producers : Pending(p)' /\ element[p] = r
      BY <2>3, <2>4 DEF DataInv, OwnInv, e
    <3> QED BY <1>5, <3>1
  <2> QED BY <1>4, <2>1, <2>2, <2>6, <2>7, <2>8, <1>5 DEF OwnInv
<1>15. StreamInv'
  <2>1. \A r \in Records : WrittenBefore(r, Written)' <=> WrittenBefore(r, Written)
    <3>1. Written \in Nat /\ Written <= Popped /\ Popped \in Nat /\ Popped <= n /\ n \in Nat
      BY <1>2, Numbers DEF DataInv, n
    <3>2. \A i \in 1 .. Written : accepted'[i] = accepted[i]
      BY <1>4, <3>1
    <3> QED BY <1>8, <3>2 DEF WrittenBefore
  <2>2. \A i \in 1 .. Len(output) : output[i] = accepted'[i]
    BY <1>2, <1>4, Numbers DEF DataInv, StreamInv, n
  <2> QED BY <1>5, <1>8, <2>1, <2>2 DEF DataInv, StreamInv
<1> QED BY <1>12, <1>13, <1>14, <1>15 DEF DataInv

(* The writing thread pops the element after those it has popped. *)
LEMMA PopKeeps ==
  ASSUME TypeOK, DataInv, Pop(Writer), UNCHANGED <<streamVars, closed, accepted, issued>>
  PROVE  DataInv'
<1> DEFINE n == Len(accepted)
<1> USE ThreadsFacts
<1>1. /\ size' = size - 1 /\ size > 0
      /\ buffer[head] = Contents[1]
      /\ \A i \in 1 .. size - 1 : Contents'[i] = Contents[i + 1]
  BY ContentsPopped DEF TypeOK
<1>2. pc[Writer] = "pop" /\ pc' = [pc EXCEPT ![Writer] = "notify_full"]
      /\ element' = [element EXCEPT ![Writer] = buffer[head]]
  BY DEF Pop, Goto
<1>3. pc \in [Threads -> Labels] /\ Writer \in Threads /\ element \in [Threads -> Elements]
  BY DEF TypeOK, TypeThreads, TypeQueue
<1>4. UNCHANGED <<output, failed, deleted, closed, accepted, issued>>
  BY DEF streamVars
<1>5. ~Holding /\ Holding'
  BY <1>2, <1>3 DEF Holding
<1>6. n \in Nat /\ size \in Nat /\ Popped \in Nat /\ Popped = n - size /\ Written = Popped
  BY <1>5, Numbers DEF DataInv
<1>7. Popped' = Popped + 1 /\ Written' = Written
  BY <1>1, <1>4, <1>5, <1>6 DEF Popped, Written
<1>8. Contents[1] = accepted[Popped + 1]
  BY <1>1, <1>6 DEF DataInv, LogInv
<1>9. LogInv'
  <2>1. ASSUME NEW i \in 1 .. size - 1 PROVE Contents'[i] = accepted[Popped + 1 + i]
    <3>0. i + 1 \in 1 .. size
      BY <1>6
    <3>1. Contents[i + 1] = accepted[Popped + (i + 1)]
      BY <3>0 DEF DataInv, LogInv
    <3> QED BY <1>1, <1>6, <3>1
  <2>2. element'[Writer] = accepted[Popped + 1]
    BY <1>1, <1>2, <1>3, <1>8
  <2> QED BY <1>1, <1>2, <1>3, <1>4, <1>6, <1>7, <2>1, <2>2 DEF LogInv
<1>10. NullInv'
  BY <1>2, <1>3, <1>4 DEF DataInv, NullInv, HasClosed
<1>11. OwnInv'
  <2>1. \A p \in Producers : (Pending(p)' <=> Pending(p)) /\ element'[p] = element[p]
    BY <1>2, <1>3 DEF Pending
  <2>2. \A r : Logged(r)' <=> Logged(r)
    BY <1>4 DEF Logged
  <2> QED BY <1>4, <2>1, <2>2 DEF DataInv, OwnInv, Logged
<1>12. StreamInv'
  BY <1>4, <1>7 DEF DataInv, StreamInv, WrittenBefore
<1> QED BY <1>9, <1>10, <1>11, <1>12 DEF DataInv

(* The writing thread holds the first element not yet written: its buffer  *)
(* has not been deleted.                                                   *)
LEMMA NotYetWritten ==
  ASSUME TypeOK, DataInv, NEW k \in Written + 1 .. Len(accepted)
  PROVE  ~WrittenBefore(accepted[k], Written)
<1>1. Len(accepted) \in Nat /\ Written \in Nat /\ Written <= Len(accepted)
  BY Numbers DEF DataInv
<1> QED BY <1>1 DEF DataInv, OwnInv, WrittenBefore

LEMMA WriteKeeps ==
  ASSUME TypeOK, DataInv, WriteRecord
  PROVE  DataInv' /\ TypeOK'
<1> DEFINE n == Len(accepted)
           r == element[Writer]
<1> USE ThreadsFacts
<1>1. pc[Writer] = "popped" /\ pc' = [pc EXCEPT ![Writer] = "pop"] /\ r # Null
      /\ deleted' = [deleted EXCEPT ![r] = @ + 1]
      /\ UNCHANGED <<buffer, head, size, not_full, not_empty, element, closed, accepted, issued>>
  BY DEF WriteRecord, Goto, ring, conditions
<1>2. pc \in [Threads -> Labels] /\ Writer \in Threads /\ r \in Records
  BY <1>1 DEF TypeOK, TypeThreads, TypeQueue
<1>3. Holding /\ ~Holding'
  BY <1>1, <1>2 DEF Holding
<1>4. n \in Nat /\ size \in Nat /\ Popped \in Nat /\ Popped = n - size
      /\ Written = Popped - 1 /\ Written \in Nat /\ Len(output) \in Nat
  BY <1>3, Numbers DEF DataInv
<1>5. Popped' = Popped /\ Written' = Written + 1
  BY <1>1, <1>3, <1>4 DEF Popped, Written
<1>6. r = accepted[Written + 1] /\ Written + 1 \in 1 .. n
  BY <1>3, <1>4 DEF DataInv, LogInv
<1>7. Contents' = Contents
  BY <1>1 DEF Contents
<1>8. \/ /\ ~failed /\ output' = Append(output, r) /\ failed' = failed
      \/ /\ StreamFails \/ failed
         /\ failed' = TRUE /\ output' = output
  BY DEF WriteRecord
<1> HIDE DEF n, r
<1>9. LogInv'
  BY <1>1, <1>2, <1>3, <1>5, <1>7 DEF DataInv, LogInv
<1>10. NullInv'
  BY <1>1, <1>2 DEF DataInv, NullInv, HasClosed
<1>11. OwnInv'
  <2>1. \A p \in Producers : Pending(p)' <=> Pending(p)
    BY <1>1, <1>2 DEF Pending
  <2> QED BY <1>1, <2>1 DEF DataInv, OwnInv, Logged
<1>12. deleted' \in [Records -> Nat] /\ deleted'[r] = deleted[r] + 1
       /\ \A s \in Records \ {r} : deleted'[s] = deleted[s]
  BY <1>1, <1>2 DEF TypeOK, TypeStream
<1>13. /\ output' \in Seq(Records) /\ Len(output') \in Nat
       /\ \/ output' = output
          \/ /\ ~failed /\ Len(output') = Len(output) + 1
             /\ \A i \in 1 .. Len(output) : output'[i] = output[i]
             /\ output'[Len(output) + 1] = r
  <2>1. output \in Seq(Records)
    BY DEF TypeOK, TypeStream
  <2>2. /\ Append(output, r) \in Seq(Records)
        /\ Len(Append(output, r)) = Len(output) + 1
        /\ \A i \in 1 .. Len(output) : Append(output, r)[i] = output[i]
        /\ Append(output, r)[Len(output) + 1] = r
    BY <1>2, <2>1, AppendProperties
  <2> QED BY <1>4, <1>8, <2>1, <2>2
<1>14. StreamInv'
  <2>1. ~WrittenBefore(r, Written)
    <3>1. Written + 1 \in Written + 1 .. Len(accepted)
      BY <1>4, <1>6 DEF n
    <3> QED BY <1>6, <3>1, NotYetWritten
  <2>2. \A s : WrittenBefore(s, Written)' <=> WrittenBefore(s, Written) \/ s = r
    <3>1. \A s : WrittenBefore(s, Written)' <=> \E i \in 1 .. Written + 1 : accepted[i] = s
      BY <1>1, <1>5 DEF WrittenBefore
    <3> QED BY <1>4, <1>6, <3>1 DEF WrittenBefore
  <2>3. \A s \in Records : deleted'[s] = IF WrittenBefore(s, Written)' THEN 1 ELSE 0
    BY <1>2, <1>12, <2>1, <2>2 DEF DataInv, StreamInv
  <2>4. Len(output') <= Written'
    BY <1>4, <1>5, <1>13 DEF DataInv, StreamInv
  <2>5. \A i \in 1 .. Len(output') : output'[i] = accepted'[i]
    <3>1. \A i \in 1 .. Len(output) : output[i] = accepted[i]
      BY DEF DataInv, StreamInv
    <3>2. CASE output' = output
      BY <1>1, <3>1, <3>2
    <3>3. CASE ~failed /\ Len(output') = Len(output) + 1
             /\ (\A i \in 1 .. Len(output) : output'[i] = output[i])
             /\ output'[Len(output) + 1] = r
      <4>1. Len(output) = Written
        BY <3>3 DEF DataInv, StreamInv
      <4> QED BY <1>1, <1>4, <1>6, <3>1, <3>3, <4>1
    <3> QED BY <1>13, <3>2, <3>3
  <2>6. ~failed' => Len(output') = Written'
    <3>1. ASSUME ~failed' PROVE ~failed /\ output' = Append(output, r)
      BY <1>8, <3>1
    <3>2. Len(Append(output, r)) = Len(output) + 1
      BY <1>2 DEF TypeOK, TypeStream
    <3> QED BY <1>5, <3>1, <3>2 DEF DataInv, StreamInv
  <2> QED BY <2>3, <2>4, <2>5, <2>6 DEF StreamInv
<1>15. TypeOK'
  <2>1. TypeThreads'
    BY <1>1, <1>2 DEF TypeOK, TypeThreads, Labels, ProducerLabels, MainLabels, WriterLabels
  <2>2. TypeQueue'
    BY <1>1, <1>2 DEF TypeOK, TypeQueue, At
  <2>3. failed' \in BOOLEAN
    BY <1>8 DEF TypeOK, TypeStream
  <2> QED BY <1>1, <1>12, <1>13, <2>1, <2>2, <2>3 DEF TypeOK, TypeStream
<1> QED BY <1>9, <1>10, <1>11, <1>14, <1>15 DEF DataInv

(* The null record ends the writing thread. *)
LEMMA EndKeeps ==
  ASSUME TypeOK, DataInv, EndLoop
  PROVE  DataInv' /\ TypeOK'
<1> USE ThreadsFacts
<1>1. /\ pc[Writer] = "popped" /\ pc' = [pc EXCEPT ![Writer] = "returned"]
      /\ element[Writer] = Null
      /\ UNCHANGED <<buffer, head, size, not_full, not_empty, element, output, failed,
                     deleted, closed, accepted, issued>>
  BY DEF EndLoop, Goto, ring, conditions, streamVars
<1>2. pc \in [Threads -> Labels] /\ Writer \in Threads
  BY DEF TypeOK, TypeThreads
<1>3. Holding /\ Holding'
  BY <1>1, <1>2 DEF Holding
<1>4. Popped' = Popped /\ Written' = Written /\ Contents' = Contents
  BY <1>1, <1>3 DEF Popped, Written, Contents
<1>5. LogInv'
  BY <1>1, <1>3, <1>4 DEF DataInv, LogInv
<1>6. NullInv'
  BY <1>1, <1>2 DEF DataInv, NullInv, HasClosed
<1>7. OwnInv'
  BY <1>1, <1>2 DEF DataInv, OwnInv, Logged, Pending
<1>8. StreamInv'
  BY <1>1, <1>4 DEF DataInv, StreamInv, WrittenBefore
<1>9. TypeOK'
  BY <1>1, <1>2 DEF TypeOK, TypeQueue, TypeThreads, TypeStream, At, Labels,
                    ProducerLabels, MainLabels, WriterLabels
<1> QED BY <1>5, <1>6, <1>7, <1>8, <1>9 DEF DataInv

(* Main joins its threads and pushes the null record; joins the writing    *)
(* thread.                                                                 *)
LEMMA CloseKeeps ==
  ASSUME TypeOK, DataInv, Close \/ Join
  PROVE  DataInv' /\ TypeOK'
<1> USE ThreadsFacts
<1>1. /\ UNCHANGED <<buffer, head, size, not_full, not_empty, output, failed,
                     deleted, accepted, issued>>
      /\ element' \in [Threads -> Elements]
      /\ \A t \in Threads \ {Main} : pc'[t] = pc[t] /\ element'[t] = element[t]
      /\ pc' \in [Threads -> Labels]
  BY DEF Close, Join, Goto, ring, conditions, streamVars, TypeOK, TypeQueue, TypeThreads,
         Labels, MainLabels
<1>2. \/ /\ pc[Main] = "open" /\ pc'[Main] = "push" /\ element'[Main] = Null
         /\ closed' = closed /\ \A p \in Producers : pc[p] = "done"
      \/ /\ pc[Main] = "pushed" /\ pc'[Main] = "end" /\ element'[Main] = element[Main]
         /\ closed' = TRUE /\ pc[Writer] = "returned"
  BY DEF Close, Join, Goto, TypeOK, TypeQueue, TypeThreads
<1>3. pc \in [Threads -> Labels]
  BY DEF TypeOK, TypeThreads
<1>4. (Holding' <=> Holding) /\ Popped' = Popped /\ Written' = Written /\ Contents' = Contents
  BY <1>1 DEF Holding, Popped, Written, Contents
<1>5. LogInv'
  BY <1>1, <1>4 DEF DataInv, LogInv
<1>6. NullInv'
  BY <1>1, <1>2 DEF DataInv, NullInv, HasClosed
<1>7. OwnInv'
  BY <1>1 DEF DataInv, OwnInv, Logged, Pending
<1>8. StreamInv'
  BY <1>1, <1>4 DEF DataInv, StreamInv, WrittenBefore
<1>9. TypeThreads'
  BY <1>1, <1>2 DEF TypeOK, TypeThreads, MainLabels
<1>10. \A t \in Threads : (pc'[t] = "full" <=> pc[t] = "full") /\ (pc'[t] = "empty" <=> pc[t] = "empty")
  BY <1>1, <1>2
<1>11. TypeQueue'
  BY <1>1, <1>10 DEF TypeOK, TypeQueue, At
<1>12. TypeStream'
  BY <1>1, <1>2 DEF TypeOK, TypeStream
<1> QED BY <1>5, <1>6, <1>7, <1>8, <1>9, <1>11, <1>12 DEF DataInv, TypeOK

(* A producer hands over a record nobody has issued, or is done. *)
LEMMA ProduceKeeps ==
  ASSUME TypeOK, DataInv, NEW p \in Producers, Produce(p)
  PROVE  DataInv' /\ TypeOK'
<1> USE ThreadsFacts
<1>1. /\ UNCHANGED <<buffer, head, size, not_full, not_empty, output, failed,
                     deleted, closed, accepted>>
      /\ pc[p] = "pushed"
  BY DEF Produce, ring, conditions, streamVars
<1>2. pc \in [Threads -> Labels] /\ element \in [Threads -> Elements] /\ p \in Threads
  BY DEF TypeOK, TypeThreads, TypeQueue
<1>3. \/ \E r \in Records \ issued :
           /\ element' = [element EXCEPT ![p] = r] /\ issued' = issued \cup {r}
           /\ pc' = [pc EXCEPT ![p] = "push"]
      \/ /\ element' = element /\ issued' = issued
         /\ pc' = [pc EXCEPT ![p] = "done"]
  BY DEF Produce, Goto
<1>4. /\ \A t \in Threads \ {p} : pc'[t] = pc[t] /\ element'[t] = element[t]
      /\ pc'[p] \in {"push", "done"} /\ pc' \in [Threads -> Labels]
      /\ element' \in [Threads -> Elements]
  BY <1>2, <1>3 DEF Labels, ProducerLabels
<1>5. (Holding' <=> Holding) /\ Popped' = Popped /\ Written' = Written /\ Contents' = Contents
  BY <1>1, <1>4 DEF Holding, Popped, Written, Contents
<1>6. pc[Main] = "open"
  BY <1>1 DEF DataInv, NullInv
<1>7. LogInv'
  BY <1>1, <1>4, <1>5 DEF DataInv, LogInv
<1>8. NullInv'
  BY <1>1, <1>4, <1>6 DEF DataInv, NullInv, HasClosed
<1>9. \A r \in Records : Logged(r) => r \in issued
  BY DEF DataInv, OwnInv, Logged
<1>10. OwnInv'
  <2>1. CASE element' = element /\ issued' = issued /\ pc' = [pc EXCEPT ![p] = "done"]
    BY <1>1, <1>2, <2>1 DEF DataInv, OwnInv, Logged, Pending
  <2>2. ASSUME NEW r \in Records \ issued, element' = [element EXCEPT ![p] = r],
               issued' = issued \cup {r}, pc' = [pc EXCEPT ![p] = "push"]
        PROVE  OwnInv'
    <3>1. \A q \in Producers : Pending(q)' <=> Pending(q) \/ q = p
      BY <1>1, <1>2, <2>2 DEF Pending
    <3>2. element'[p] = r /\ ~Pending(p) /\ \A q \in Producers \ {p} : element'[q] = element[q]
      BY <1>1, <1>2, <2>2 DEF Pending
    <3>3. \A q \in Producers : Pending(q) => element[q] # r
      BY DEF DataInv, OwnInv
    <3>4. ~Logged(r)
      BY <1>9
    <3>5. \A s : Logged(s)' <=> Logged(s)
      BY <1>1 DEF Logged
    <3>6. \A q \in Producers : Pending(q)' => element'[q] \in issued' /\ ~Logged(element'[q])
      BY <2>2, <3>1, <3>2, <3>4 DEF DataInv, OwnInv
    <3>7. \A q \in Producers : Logged(element[q])' <=> Logged(element'[q])
      BY <1>1 DEF Logged
    <3>8. \A q, u \in Producers :
            Pending(q)' /\ Pending(u)' /\ element'[q] = element'[u] => q = u
      BY <3>1, <3>2, <3>3 DEF DataInv, OwnInv
    <3>9. \A s \in issued' : Logged(s)' \/ \E q \in Producers : Pending(q)' /\ element'[q] = s
      <4>1. ASSUME NEW s \in issued
            PROVE  Logged(s) \/ \E q \in Producers : Pending(q)' /\ element'[q] = s
        <5>1. Logged(s) \/ \E q \in Producers : Pending(q) /\ element[q] = s
          BY DEF DataInv, OwnInv
        <5> QED BY <3>1, <3>2, <5>1
      <4> QED BY <2>2, <3>1, <3>2, <3>5, <4>1
    <3> QED BY <1>1, <2>2, <3>6, <3>7, <3>8, <3>9 DEF DataInv, OwnInv
  <2> QED BY <1>3, <2>1, <2>2
<1>11. StreamInv'
  BY <1>1, <1>5 DEF DataInv, StreamInv, WrittenBefore
<1>12. TypeThreads'
  BY <1>4 DEF TypeOK, TypeThreads, ProducerLabels
<1>13. TypeQueue'
  BY <1>1, <1>4 DEF TypeOK, TypeQueue, At
<1>14. TypeStream'
  BY <1>1, <1>3 DEF TypeOK, TypeStream
<1> QED BY <1>7, <1>8, <1>10, <1>11, <1>12, <1>13, <1>14 DEF DataInv, TypeOK

-----------------------------------------------------------------------------
(* Wakeups: how many threads are where, before and after a move. *)

Number(f, label) == Cardinality({t \in Threads : f[t] = label})

LEMMA NumberNat == ASSUME NEW f, NEW label PROVE Number(f, label) \in Nat
<1> DEFINE S == {t \in Threads : f[t] = label}
<1>1. IsFiniteSet(S)
  BY ThreadsAssumption, FS_Subset DEF ThreadsAssumption
<1> QED BY <1>1, FS_CardinalityType DEF Number

LEMMA NumberMoved ==
  ASSUME NEW f, NEW g, NEW t \in Threads, NEW label,
         \A u \in Threads \ {t} : g[u] = f[u]
  PROVE  Number(g, label) = Number(f, label) - (IF f[t] = label THEN 1 ELSE 0)
                              + (IF g[t] = label THEN 1 ELSE 0)
<1> DEFINE S == {u \in Threads : f[u] = label}
           T == {u \in Threads : g[u] = label}
           R == S \ {t}
<1>1. IsFiniteSet(S)
  BY ThreadsAssumption, FS_Subset DEF ThreadsAssumption
<1>2. IsFiniteSet(R) /\ Cardinality(R) = IF t \in S THEN Cardinality(S) - 1 ELSE Cardinality(S)
  BY <1>1, FS_RemoveElement
<1>3. Cardinality(R \cup {t}) = Cardinality(R) + 1
  BY <1>2, FS_AddElement
<1>4. t \in S <=> f[t] = label
  OBVIOUS
<1>5. T = IF g[t] = label THEN R \cup {t} ELSE R
  OBVIOUS
<1>6. Cardinality(S) \in Nat
  BY <1>1, FS_CardinalityType
<1> HIDE DEF S, T, R
<1>7. Cardinality(T) = Cardinality(S) - (IF f[t] = label THEN 1 ELSE 0)
                         + (IF g[t] = label THEN 1 ELSE 0)
  BY <1>2, <1>3, <1>4, <1>5, <1>6
<1> QED BY <1>7 DEF Number, S, T

LEMMA NumberAt ==
  ASSUME NEW label
  PROVE  /\ Cardinality(At(label)) = Number(pc, label)
         /\ Cardinality(At(label)') = Number(pc', label)
BY DEF Number, At

(* What the move of one thread does to the number at a label. *)
LEMMA Moved ==
  ASSUME NEW f, NEW g, NEW t \in Threads, \A u \in Threads \ {t} : g[u] = f[u]
  PROVE  \A l : /\ Number(f, l) \in Nat /\ Number(g, l) \in Nat
                /\ f[t] # l => Number(g, l) >= Number(f, l)
                /\ f[t] # l /\ g[t] = l => Number(g, l) >= Number(f, l) + 1
                /\ Number(g, l) >= Number(f, l) - 1
<1> SUFFICES ASSUME NEW l
             PROVE  /\ Number(f, l) \in Nat /\ Number(g, l) \in Nat
                    /\ f[t] # l => Number(g, l) >= Number(f, l)
                    /\ f[t] # l /\ g[t] = l => Number(g, l) >= Number(f, l) + 1
                    /\ Number(g, l) >= Number(f, l) - 1
  OBVIOUS
<1>1. Number(f, l) \in Nat /\ Number(g, l) \in Nat
  BY NumberNat
<1>2. Number(g, l) = Number(f, l) - (IF f[t] = l THEN 1 ELSE 0) + (IF g[t] = l THEN 1 ELSE 0)
  BY NumberMoved
<1> QED BY <1>1, <1>2

(* A thread that moves between other labels, or to a test, does no harm.   *)
LEMMA MoveKeepsWakeup ==
  ASSUME TypeQueue, NoWakeupLost, NEW t \in Threads,
         \A u \in Threads \ {t} : pc'[u] = pc[u],
         pc[t] \notin {"push", "pop", "notify_full", "notify_empty"},
         size' = size, not_full' \subseteq not_full, not_empty' \subseteq not_empty
  PROVE  NoWakeupLost'
<1> DEFINE n(l) == Number(pc, l)
           m(l) == Number(pc', l)
<1>1. \A l : n(l) \in Nat /\ m(l) \in Nat /\ (pc[t] # l => m(l) >= n(l))
  BY Moved
<1>2. size \in Nat /\ Capacity \in Nat
  BY CapacityAssumption DEF TypeQueue
<1>3. not_full # {} => Capacity - size <= n("notify_full") + n("push")
  BY NumberAt DEF NoWakeupLost, RoomIsAwaited
<1>4. not_empty # {} => size <= n("notify_empty") + n("pop")
  BY NumberAt DEF NoWakeupLost, ElementsAreAwaited
<1> HIDE DEF n, m
<1>5. not_full' # {} => Capacity - size' <= m("notify_full") + m("push")
  BY <1>1, <1>2, <1>3
<1>6. not_empty' # {} => size' <= m("notify_empty") + m("pop")
  BY <1>1, <1>2, <1>4
<1> QED BY <1>5, <1>6, NumberAt DEF NoWakeupLost, RoomIsAwaited, ElementsAreAwaited, m

(* A push takes a free cell from those to be awaited and notifies: it adds *)
(* one element and one notification.  A pop is its mirror image.           *)
LEMMA PushKeepsWakeup ==
  ASSUME TypeQueue, TypeThreads, NoWakeupLost, NEW t \in Threads, Push(t)
  PROVE  NoWakeupLost'
<1> DEFINE n(l) == Number(pc, l)
           m(l) == Number(pc', l)
<1>1. /\ \A u \in Threads \ {t} : pc'[u] = pc[u]
      /\ pc[t] = "push" /\ pc'[t] = "notify_empty"
      /\ size' = size + 1 /\ not_full' = not_full /\ not_empty' = not_empty
  BY DEF Push, Goto, TypeThreads, conditions
<1>2. \A l : /\ n(l) \in Nat /\ m(l) \in Nat /\ m(l) >= n(l) - 1
             /\ (pc[t] # l => m(l) >= n(l))
             /\ (pc[t] # l /\ pc'[t] = l => m(l) >= n(l) + 1)
  BY <1>1, Moved
<1>3. size \in Nat /\ Capacity \in Nat
  BY CapacityAssumption DEF TypeQueue
<1>4. not_full # {} => Capacity - size <= n("notify_full") + n("push")
  BY NumberAt DEF NoWakeupLost, RoomIsAwaited
<1>5. not_empty # {} => size <= n("notify_empty") + n("pop")
  BY NumberAt DEF NoWakeupLost, ElementsAreAwaited
<1> HIDE DEF n, m
<1>6. not_full' # {} => Capacity - size' <= m("notify_full") + m("push")
  BY <1>1, <1>2, <1>3, <1>4
<1>7. not_empty' # {} => size' <= m("notify_empty") + m("pop")
  BY <1>1, <1>2, <1>3, <1>5
<1> QED BY <1>6, <1>7, NumberAt DEF NoWakeupLost, RoomIsAwaited, ElementsAreAwaited, m

LEMMA PopKeepsWakeup ==
  ASSUME TypeQueue, TypeThreads, NoWakeupLost, NEW t \in Threads, Pop(t)
  PROVE  NoWakeupLost'
<1> DEFINE n(l) == Number(pc, l)
           m(l) == Number(pc', l)
<1>1. /\ \A u \in Threads \ {t} : pc'[u] = pc[u]
      /\ pc[t] = "pop" /\ pc'[t] = "notify_full"
      /\ size' = size - 1 /\ not_full' = not_full /\ not_empty' = not_empty
  BY DEF Pop, Goto, TypeThreads, conditions
<1>2. \A l : /\ n(l) \in Nat /\ m(l) \in Nat /\ m(l) >= n(l) - 1
             /\ (pc[t] # l => m(l) >= n(l))
             /\ (pc[t] # l /\ pc'[t] = l => m(l) >= n(l) + 1)
  BY <1>1, Moved
<1>3. size \in Nat /\ Capacity \in Nat
  BY CapacityAssumption DEF TypeQueue
<1>4. not_full # {} => Capacity - size <= n("notify_full") + n("push")
  BY NumberAt DEF NoWakeupLost, RoomIsAwaited
<1>5. not_empty # {} => size <= n("notify_empty") + n("pop")
  BY NumberAt DEF NoWakeupLost, ElementsAreAwaited
<1> HIDE DEF n, m
<1>6. not_full' # {} => Capacity - size' <= m("notify_full") + m("push")
  BY <1>1, <1>2, <1>3, <1>4
<1>7. not_empty' # {} => size' <= m("notify_empty") + m("pop")
  BY <1>1, <1>2, <1>3, <1>5
<1> QED BY <1>6, <1>7, NumberAt DEF NoWakeupLost, RoomIsAwaited, ElementsAreAwaited, m

(* Whoever blocks has found nothing to wait for. *)
LEMMA WaitKeepsWakeup ==
  ASSUME TypeQueue, TypeThreads, NoWakeupLost, NEW t \in Threads,
         WaitNotFull(t) \/ WaitNotEmpty(t)
  PROVE  NoWakeupLost'
<1> DEFINE n(l) == Number(pc, l)
           m(l) == Number(pc', l)
<1>1. \A u \in Threads \ {t} : pc'[u] = pc[u]
  BY DEF WaitNotFull, WaitNotEmpty, Goto, TypeThreads
<1>2. \A l : n(l) \in Nat /\ m(l) \in Nat /\ (pc[t] # l => m(l) >= n(l))
  BY <1>1, Moved
<1>3. size \in Nat /\ Capacity \in Nat
  BY CapacityAssumption DEF TypeQueue
<1>4. not_full # {} => Capacity - size <= n("notify_full") + n("push")
  BY NumberAt DEF NoWakeupLost, RoomIsAwaited
<1>5. not_empty # {} => size <= n("notify_empty") + n("pop")
  BY NumberAt DEF NoWakeupLost, ElementsAreAwaited
<1>6. \/ pc[t] = "push" /\ size = Capacity /\ size' = size /\ not_empty' = not_empty
      \/ pc[t] = "pop" /\ size = 0 /\ size' = size /\ not_full' = not_full
  BY DEF WaitNotFull, WaitNotEmpty, ring
<1> HIDE DEF n, m
<1>7. not_full' # {} => Capacity - size' <= m("notify_full") + m("push")
  BY <1>2, <1>3, <1>4, <1>6
<1>8. not_empty' # {} => size' <= m("notify_empty") + m("pop")
  BY <1>2, <1>3, <1>5, <1>6
<1> QED BY <1>7, <1>8, NumberAt DEF NoWakeupLost, RoomIsAwaited, ElementsAreAwaited, m

(* A notification is spent, and the thread it wakes takes its place.       *)
LEMMA NotifyKeepsWakeup ==
  ASSUME TypeQueue, TypeThreads, NoWakeupLost, NEW t \in Threads,
         NotifyNotEmpty(t) \/ NotifyNotFull(t)
  PROVE  NoWakeupLost'
<1> DEFINE n(l) == Number(pc, l)
           m(l) == Number(pc', l)
<1>1. size \in Nat /\ Capacity \in Nat /\ size' = size
  BY CapacityAssumption DEF TypeQueue, NotifyNotEmpty, NotifyNotFull, ring
<1>2. not_full # {} => Capacity - size <= n("notify_full") + n("push")
  BY NumberAt DEF NoWakeupLost, RoomIsAwaited
<1>3. not_empty # {} => size <= n("notify_empty") + n("pop")
  BY NumberAt DEF NoWakeupLost, ElementsAreAwaited
<1>4. ASSUME NotifyNotEmpty(t)
      PROVE  /\ not_full' # {} => Capacity - size' <= m("notify_full") + m("push")
             /\ not_empty' # {} => size' <= m("notify_empty") + m("pop")
  <2>1. pc[t] = "notify_empty" /\ not_full' = not_full
    BY <1>4 DEF NotifyNotEmpty
  <2>2. CASE not_empty = {}
    <3>1. not_empty' = {} /\ \A u \in Threads \ {t} : pc'[u] = pc[u]
      BY <1>4, <2>2 DEF NotifyNotEmpty, Wake, Goto, TypeThreads
    <3>2. \A l : n(l) \in Nat /\ m(l) \in Nat /\ (pc[t] # l => m(l) >= n(l))
      BY <3>1, Moved
    <3> HIDE DEF n, m
    <3> QED BY <1>1, <1>2, <2>1, <3>1, <3>2
  <2>3. CASE not_empty # {}
    <3>1. PICK u \in not_empty :
            not_empty' = not_empty \ {u} /\ pc' = [pc EXCEPT ![u] = "pop", ![t] = "pushed"]
      BY <1>4, <2>3 DEF NotifyNotEmpty, Wake
    <3> DEFINE f == [pc EXCEPT ![t] = "pushed"]
               k(l) == Number(f, l)
    <3>2. u \in Threads /\ pc[u] = "empty" /\ u # t
      BY <2>1 DEF TypeQueue, At
    <3>3. /\ \A v \in Threads \ {t} : f[v] = pc[v]
          /\ \A v \in Threads \ {u} : pc'[v] = f[v]
          /\ f[u] = "empty" /\ pc'[u] = "pop"
      BY <3>1, <3>2 DEF TypeThreads
    <3> HIDE DEF f
    <3>4. \A l : n(l) \in Nat /\ k(l) \in Nat /\ k(l) >= n(l) - 1 /\ (pc[t] # l => k(l) >= n(l))
      BY <3>3, Moved
    <3>5. \A l : /\ k(l) \in Nat /\ m(l) \in Nat
                 /\ (f[u] # l => m(l) >= k(l))
                 /\ (f[u] # l /\ pc'[u] = l => m(l) >= k(l) + 1)
      BY <3>2, <3>3, Moved
    <3> HIDE DEF n, m, k
    <3>6. m("notify_full") >= n("notify_full") /\ m("push") >= n("push")
      BY <2>1, <3>3, <3>4, <3>5
    <3>7. m("notify_empty") + m("pop") >= n("notify_empty") + n("pop")
      BY <2>1, <3>3, <3>4, <3>5
    <3> QED BY <1>1, <1>2, <1>3, <2>1, <2>3, <3>4, <3>5, <3>6, <3>7
  <2> QED BY <2>2, <2>3
<1>5. ASSUME NotifyNotFull(t)
      PROVE  /\ not_full' # {} => Capacity - size' <= m("notify_full") + m("push")
             /\ not_empty' # {} => size' <= m("notify_empty") + m("pop")
  <2>1. pc[t] = "notify_full" /\ not_empty' = not_empty
    BY <1>5 DEF NotifyNotFull
  <2>2. CASE not_full = {}
    <3>1. not_full' = {} /\ \A u \in Threads \ {t} : pc'[u] = pc[u]
      BY <1>5, <2>2 DEF NotifyNotFull, Wake, Goto, TypeThreads
    <3>2. \A l : n(l) \in Nat /\ m(l) \in Nat /\ (pc[t] # l => m(l) >= n(l))
      BY <3>1, Moved
    <3> HIDE DEF n, m
    <3> QED BY <1>1, <1>3, <2>1, <3>1, <3>2
  <2>3. CASE not_full # {}
    <3>1. PICK u \in not_full :
            not_full' = not_full \ {u} /\ pc' = [pc EXCEPT ![u] = "push", ![t] = "popped"]
      BY <1>5, <2>3 DEF NotifyNotFull, Wake
    <3> DEFINE f == [pc EXCEPT ![t] = "popped"]
               k(l) == Number(f, l)
    <3>2. u \in Threads /\ pc[u] = "full" /\ u # t
      BY <2>1 DEF TypeQueue, At
    <3>3. /\ \A v \in Threads \ {t} : f[v] = pc[v]
          /\ \A v \in Threads \ {u} : pc'[v] = f[v]
          /\ f[u] = "full" /\ pc'[u] = "push"
      BY <3>1, <3>2 DEF TypeThreads
    <3> HIDE DEF f
    <3>4. \A l : n(l) \in Nat /\ k(l) \in Nat /\ k(l) >= n(l) - 1 /\ (pc[t] # l => k(l) >= n(l))
      BY <3>3, Moved
    <3>5. \A l : /\ k(l) \in Nat /\ m(l) \in Nat
                 /\ (f[u] # l => m(l) >= k(l))
                 /\ (f[u] # l /\ pc'[u] = l => m(l) >= k(l) + 1)
      BY <3>2, <3>3, Moved
    <3> HIDE DEF n, m, k
    <3>6. m("notify_empty") >= n("notify_empty") /\ m("pop") >= n("pop")
      BY <2>1, <3>3, <3>4, <3>5
    <3>7. m("notify_full") + m("push") >= n("notify_full") + n("push")
      BY <2>1, <3>3, <3>4, <3>5
    <3> QED BY <1>1, <1>2, <1>3, <2>1, <2>3, <3>4, <3>5, <3>6, <3>7
  <2> QED BY <2>2, <2>3
<1>6. /\ not_full' # {} => Capacity - size' <= m("notify_full") + m("push")
      /\ not_empty' # {} => size' <= m("notify_empty") + m("pop")
  BY <1>4, <1>5
<1> QED BY <1>6, NumberAt DEF NoWakeupLost, RoomIsAwaited, ElementsAreAwaited

-----------------------------------------------------------------------------
(* The invariant holds initially and every step preserves it. *)

LEMMA InitOK == Init => IInv
<1>1. Init => NoWakeupLost
  BY DEF Init, WriterInit, FIFOInit, NoWakeupLost, RoomIsAwaited, ElementsAreAwaited
<1> QED BY <1>1, InitType, InitData DEF IInv, DataInv

LEMMA PushingOK ==
  ASSUME IInv, NEW t \in Producers \cup {Main}, Pushing(t)
  PROVE  IInv'
<1> USE ThreadsFacts
<1>1. TypeOK /\ TypeQueue /\ TypeThreads /\ DataInv /\ NoWakeupLost /\ t \in Threads
  BY DEF IInv, TypeOK, DataInv
<1>2. PushStep(t)
      /\ accepted' = (IF size' # size THEN Append(accepted, element[t]) ELSE accepted)
      /\ UNCHANGED <<streamVars, closed, issued>>
  BY DEF Pushing
<1>3. TypeQueue' /\ TypeThreads'
  BY <1>1, <1>2, PushStepType
<1>4. TypeStream'
  <2>1. accepted' \in Seq(Elements)
    BY <1>1, <1>2, AppendProperties DEF TypeOK, TypeQueue, TypeStream
  <2> QED BY <1>1, <1>2, <2>1 DEF TypeOK, TypeStream, streamVars
<1>5. CASE Push(t)
  BY <1>1, <1>3, <1>4, <1>5, PushKeeps, PushKeepsWakeup DEF IInv, TypeOK, DataInv
<1>6. CASE WaitNotFull(t) \/ NotifyNotEmpty(t)
  <2>1. size' = size
    BY <1>6 DEF WaitNotFull, NotifyNotEmpty, ring
  <2>2. Quiet
    BY <1>1, <1>2, <1>6, <2>1, BlockQuiet
  <2>3. DataInv'
    BY <1>1, <2>2, QuietKeeps
  <2>4. NoWakeupLost'
    BY <1>1, <1>6, WaitKeepsWakeup, NotifyKeepsWakeup
  <2> QED BY <1>3, <1>4, <2>3, <2>4 DEF IInv, TypeOK, DataInv
<1> QED BY <1>2, <1>5, <1>6 DEF PushStep

LEMMA WriteLoopOK ==
  ASSUME IInv, WriteLoop
  PROVE  IInv'
<1> USE ThreadsFacts
<1>1. TypeOK /\ TypeQueue /\ TypeThreads /\ DataInv /\ NoWakeupLost /\ Writer \in Threads
  BY DEF IInv, TypeOK, DataInv
<1>2. CASE PopStep(Writer) /\ UNCHANGED <<streamVars, closed, accepted, issued>>
  <2>1. size > 0 => Contents[1] \in Elements
    <3>1. accepted \in Seq(Elements) /\ Len(accepted) \in Nat /\ size \in Nat
          /\ Popped \in Nat /\ Popped = Len(accepted) - size
      BY <1>1, Numbers DEF DataInv, TypeOK, TypeStream
    <3>2. size > 0 => 1 \in 1 .. size /\ Popped + 1 \in 1 .. Len(accepted)
      BY <3>1
    <3>3. size > 0 => Contents[1] = accepted[Popped + 1]
      BY <1>1, <3>2 DEF DataInv, LogInv
    <3> QED BY <3>1, <3>2, <3>3, ElementOfSeq
  <2>2. TypeQueue' /\ TypeThreads'
    BY <1>1, <1>2, <2>1, PopStepType
  <2>3. TypeStream'
    BY <1>1, <1>2 DEF TypeOK, TypeStream, streamVars
  <2>4. CASE Pop(Writer)
    BY <1>1, <1>2, <2>2, <2>3, <2>4, PopKeeps, PopKeepsWakeup DEF IInv, TypeOK, DataInv
  <2>5. CASE WaitNotEmpty(Writer) \/ NotifyNotFull(Writer)
    <3>1. Quiet
      BY <1>1, <1>2, <2>5, BlockQuiet
    <3>2. DataInv'
      BY <1>1, <3>1, QuietKeeps
    <3>3. NoWakeupLost'
      BY <1>1, <2>5, WaitKeepsWakeup, NotifyKeepsWakeup
    <3> QED BY <2>2, <2>3, <3>2, <3>3 DEF IInv, TypeOK, DataInv
  <2> QED BY <1>2, <2>4, <2>5 DEF PopStep
<1>3. CASE WriteRecord \/ EndLoop
  <2>1. /\ \A u \in Threads \ {Writer} : pc'[u] = pc[u]
        /\ pc[Writer] = "popped"
        /\ size' = size /\ not_full' = not_full /\ not_empty' = not_empty
    BY <1>1, <1>3 DEF WriteRecord, EndLoop, Goto, TypeThreads, ring, conditions
  <2>2. NoWakeupLost'
    BY <1>1, <2>1, MoveKeepsWakeup
  <2> QED BY <1>1, <1>3, <2>2, WriteKeeps, EndKeeps DEF IInv, DataInv
<1> QED BY <1>2, <1>3 DEF WriteLoop

LEMMA CallerOK ==
  ASSUME IInv, Close \/ Join \/ \E p \in Producers : Produce(p)
  PROVE  IInv'
<1> USE ThreadsFacts
<1>1. TypeOK /\ TypeQueue /\ TypeThreads /\ DataInv /\ NoWakeupLost
  BY DEF IInv, TypeOK, DataInv
<1>2. CASE Close \/ Join
  <2>1. /\ \A u \in Threads \ {Main} : pc'[u] = pc[u]
        /\ pc[Main] \in {"open", "pushed"} /\ Main \in Threads
        /\ size' = size /\ not_full' = not_full /\ not_empty' = not_empty
    BY <1>1, <1>2 DEF Close, Join, Goto, TypeThreads, ring, conditions
  <2>2. NoWakeupLost'
    BY <1>1, <2>1, MoveKeepsWakeup
  <2> QED BY <1>1, <1>2, <2>2, CloseKeeps DEF IInv, DataInv
<1>3. ASSUME NEW p \in Producers, Produce(p) PROVE IInv'
  <2>1. /\ \A u \in Threads \ {p} : pc'[u] = pc[u]
        /\ pc[p] = "pushed" /\ p \in Threads
        /\ size' = size /\ not_full' = not_full /\ not_empty' = not_empty
    BY <1>1, <1>3 DEF Produce, Goto, TypeThreads, ring, conditions
  <2>2. NoWakeupLost'
    BY <1>1, <2>1, MoveKeepsWakeup
  <2> QED BY <1>1, <1>3, <2>2, ProduceKeeps DEF IInv, DataInv
<1> QED BY <1>2, <1>3

LEMMA WakeupOK ==
  ASSUME IInv, NEW t \in Threads, Wakeup(t)
  PROVE  IInv'
<1>1. TypeOK /\ TypeQueue /\ TypeThreads /\ DataInv /\ NoWakeupLost
  BY DEF IInv, TypeOK, DataInv
<1>2. TypeQueue' /\ TypeThreads'
  BY <1>1, WakeupType DEF Wakeup
<1>3. TypeStream'
  BY <1>1 DEF Wakeup, TypeOK, TypeStream, streamVars
<1>4. DataInv'
  BY <1>1, WakeupQuiet, QuietKeeps
<1>5. /\ \A u \in Threads \ {t} : pc'[u] = pc[u]
      /\ pc[t] \in {"full", "empty"}
      /\ size' = size /\ not_full' \subseteq not_full /\ not_empty' \subseteq not_empty
  BY <1>1 DEF Wakeup, SpuriousWakeup, Goto, TypeThreads, TypeQueue, At, ring
<1>6. NoWakeupLost'
  BY <1>1, <1>5, MoveKeepsWakeup
<1> QED BY <1>2, <1>3, <1>4, <1>6 DEF IInv, TypeOK, DataInv

LEMMA StutterOK == ASSUME IInv, UNCHANGED vars PROVE IInv'
<1> USE DEF vars, fifoVars, ring, conditions, streamVars
<1>1. TypeOK'
  BY DEF IInv, TypeOK, TypeQueue, TypeThreads, TypeStream, At
<1>2. DataInv'
  <2>1. Quiet
    BY DEF Quiet, Holding, HasClosed
  <2> QED BY <2>1, QuietKeeps DEF IInv, DataInv
<1>3. NoWakeupLost'
  BY DEF IInv, NoWakeupLost, RoomIsAwaited, ElementsAreAwaited, At
<1> QED BY <1>1, <1>2, <1>3 DEF IInv, DataInv

LEMMA NextOK == IInv /\ [Next]_vars => IInv'
<1> SUFFICES ASSUME IInv, [Next]_vars PROVE IInv'
  OBVIOUS
<1>1. CASE CloseStep
  BY <1>1, PushingOK, CallerOK DEF CloseStep
<1>2. ASSUME NEW p \in Producers, Pushing(p) \/ Produce(p) PROVE IInv'
  BY <1>2, PushingOK, CallerOK
<1>3. ASSUME NEW t \in Threads, Wakeup(t) PROVE IInv'
  BY <1>3, WakeupOK
<1>4. CASE Terminated \/ UNCHANGED vars
  BY <1>4, StutterOK DEF Terminated
<1> QED BY <1>1, <1>2, <1>3, <1>4, WriteLoopOK DEF Next

(* The invariant holds in every reachable state. *)
THEOREM WriterInvariant == Spec => []IInv
<1> QED BY InitOK, NextOK, PTL DEF Spec

(* ConcurrentFIFO::push and pop: no thread sleeps for room next to a free  *)
(* cell, nor for a record next to one, unless somebody is about to take it *)
(* or to notify, for all the interleavings with notify_one after unlock.   *)
THEOREM WakeupsKept == Spec => []NoWakeupLost
<1>1. IInv => NoWakeupLost
  BY DEF IInv
<1> QED BY <1>1, WriterInvariant, PTL

(* A buffer is deleted once, and not while it is queued or handed over.    *)
THEOREM Ownership == Spec => []BuffersOwned
<1>1. ASSUME IInv PROVE BuffersOwned
  <2>1. TypeOK /\ DataInv
    BY <1>1 DEF IInv, DataInv
  <2>2. /\ Len(accepted) \in Nat /\ size \in Nat /\ Popped \in Nat /\ Written \in Nat
        /\ Written <= Popped /\ Popped = Len(accepted) - size
    BY <2>1, Numbers DEF DataInv
  <2>3. \A r \in Records : deleted[r] = IF WrittenBefore(r, Written) THEN 1 ELSE 0
    BY <2>1 DEF DataInv, StreamInv
  <2>4. \A r \in Records : deleted[r] <= 1
    BY <2>3
  <2>5. ASSUME NEW i \in 1 .. size, Contents[i] \in Records PROVE deleted[Contents[i]] = 0
    <3>1. Popped + i \in Written + 1 .. Len(accepted)
      BY <2>2
    <3>2. Contents[i] = accepted[Popped + i]
      BY <2>1 DEF DataInv, LogInv
    <3>3. ~WrittenBefore(accepted[Popped + i], Written)
      BY <2>1, <3>1, NotYetWritten
    <3> QED BY <2>3, <2>5, <3>2, <3>3
  <2>6. ASSUME NEW p \in Producers, pc[p] \in {"push", "full"} PROVE deleted[element[p]] = 0
    <3>1. element[p] \in Records /\ ~Logged(element[p])
      BY <2>1, <2>6 DEF DataInv, OwnInv, Pending, TypeOK, TypeStream
    <3>2. ~WrittenBefore(element[p], Written)
      BY <2>2, <3>1 DEF Logged, WrittenBefore
    <3> QED BY <2>3, <3>1, <3>2
  <2> QED BY <2>4, <2>5, <2>6 DEF BuffersOwned
<1> QED BY <1>1, WriterInvariant, PTL

(* When the thread has returned the null record was the last, the queue is *)
(* empty, and the log without it is what has been written.                 *)
LEMMA Returned ==
  ASSUME IInv, pc[Writer] = "returned"
  PROVE  /\ size = 0 /\ Len(accepted) > 0 /\ Written = Len(accepted) - 1
         /\ accepted[Len(accepted)] = Null
<1>1. TypeOK /\ DataInv /\ Holding
  BY DEF IInv, DataInv, Holding
<1>2. /\ Len(accepted) \in Nat /\ size \in Nat /\ Popped \in Nat /\ Written \in Nat
      /\ Written = Popped - 1 /\ Popped = Len(accepted) - size
  BY <1>1, Numbers DEF DataInv
<1>3. Popped \in 1 .. Len(accepted) /\ accepted[Popped] = Null
  BY <1>1, <1>2 DEF DataInv, LogInv
<1>4. Popped = Len(accepted)
  BY <1>1, <1>3 DEF DataInv, NullInv
<1> QED BY <1>2, <1>3, <1>4

(* Once every producer is done, the log holds each record issued once.     *)
LEMMA AllLogged ==
  ASSUME IInv, \A p \in Producers : pc[p] = "done",
         Len(accepted) > 0, accepted[Len(accepted)] = Null
  PROVE  /\ Cardinality(issued) = Len(accepted) - 1
         /\ \A r \in issued : WrittenBefore(r, Len(accepted) - 1)
<1> USE ThreadsFacts
<1> DEFINE n == Len(accepted) - 1
           f == [i \in 1 .. n |-> accepted[i]]
<1>1. TypeOK /\ DataInv
  BY DEF IInv, DataInv
<1>2. Len(accepted) \in Nat /\ n \in Nat
  BY <1>1, Numbers DEF DataInv
<1>3. \A r \in issued : Logged(r) /\ r # Null
  BY <1>1 DEF DataInv, OwnInv, Pending, TypeOK, TypeStream
<1>4. \A r \in issued : \E i \in 1 .. n : accepted[i] = r
  BY <1>2, <1>3 DEF Logged
<1>5. \A i \in 1 .. n : accepted[i] \in issued
  BY <1>1, <1>2 DEF DataInv, OwnInv, NullInv
<1>6. \A i, j \in 1 .. n : accepted[i] = accepted[j] => i = j
  BY <1>1, <1>2 DEF DataInv, OwnInv
<1> HIDE DEF n
<1>7. f \in Bijection(1 .. n, issued)
  BY <1>4, <1>5, <1>6 DEF Bijection, Injection, Surjection, IsInjective
<1>8. Cardinality(issued) = n
  BY <1>2, <1>7, FS_CountingElements DEF ExistsBijection
<1> QED BY <1>4, <1>8 DEF n, WrittenBefore

(* When the writer is gone everything handed over is written and freed.    *)
THEOREM Closing == Spec => []ClosedMeansWritten
<1>1. ASSUME IInv, closed
      PROVE  /\ size = 0
             /\ \A r \in issued : deleted[r] = 1
             /\ failed \/ Len(output) = Cardinality(issued)
  <2>1. TypeOK /\ DataInv
    BY <1>1 DEF IInv, DataInv
  <2>2. pc[Writer] = "returned" /\ \A p \in Producers : pc[p] = "done"
    BY <1>1, <2>1 DEF DataInv, NullInv
  <2>3. /\ size = 0 /\ Len(accepted) > 0 /\ Written = Len(accepted) - 1
        /\ accepted[Len(accepted)] = Null
    BY <1>1, <2>2, Returned
  <2>4. /\ Cardinality(issued) = Len(accepted) - 1
        /\ \A r \in issued : WrittenBefore(r, Len(accepted) - 1)
    BY <1>1, <2>2, <2>3, AllLogged
  <2> QED BY <2>1, <2>3, <2>4 DEF DataInv, StreamInv, TypeOK, TypeStream
<1>2. IInv => ClosedMeansWritten
  BY <1>1 DEF ClosedMeansWritten
<1> QED BY <1>2, WriterInvariant, PTL

-----------------------------------------------------------------------------
(* The refinement. *)

(* The records accepted are the log, less the null record at its end.      *)
AcceptedOK ==
  /\ AcceptedRecords \in Seq(Records)
  /\ HasClosed => Len(AcceptedRecords) = Len(accepted) - 1
  /\ ~HasClosed => AcceptedRecords = accepted
  /\ \A i \in 1 .. Len(AcceptedRecords) : AcceptedRecords[i] = accepted[i]

LEMMA AcceptedFacts == IInv => AcceptedOK
<1> USE ThreadsFacts DEF AcceptedOK
<1> SUFFICES ASSUME IInv PROVE AcceptedOK
  OBVIOUS
<1> DEFINE n == Len(accepted)
<1>1. TypeOK /\ NullInv /\ accepted \in Seq(Elements)
  BY DEF IInv, TypeOK, TypeStream
<1>2. n \in Nat /\ \A i \in 1 .. n : accepted[i] \in Elements
  BY <1>1, LenProperties, ElementOfSeq
<1>3. HasClosed <=> n > 0 /\ accepted[n] = Null
  BY <1>1 DEF NullInv
<1>4. n > 0 <=> accepted # <<>>
  BY <1>1, <1>2, EmptySeq, LenProperties
<1>5. \A i \in 1 .. n : accepted[i] = Null => i = n
  BY <1>1 DEF NullInv
<1>6. CASE HasClosed
  <2>1. AcceptedRecords = SubSeq(accepted, 1, n - 1)
    BY <1>3, <1>4, <1>6 DEF AcceptedRecords
  <2>2. \A i \in 1 .. n - 1 : accepted[i] \in Records
    BY <1>2, <1>5
  <2>3. 1 \in Int /\ n - 1 \in Int /\ n > 0
    BY <1>2, <1>3, <1>6
  <2> HIDE DEF n
  <2>4. /\ SubSeq(accepted, 1, n - 1) \in Seq(Records)
        /\ Len(SubSeq(accepted, 1, n - 1)) = IF 1 <= n - 1 THEN n - 1 - 1 + 1 ELSE 0
        /\ \A i \in 1 .. n - 1 - 1 + 1 : SubSeq(accepted, 1, n - 1)[i] = accepted[1 + i - 1]
    BY <2>2, <2>3, SubSeqProperties
  <2>5. Len(AcceptedRecords) = n - 1
    BY <2>1, <2>3, <2>4, <1>2
  <2>6. \A i \in 1 .. n - 1 : AcceptedRecords[i] = accepted[i]
    BY <2>1, <2>3, <2>4, <1>2
  <2> QED BY <1>6, <2>1, <2>4, <2>5, <2>6 DEF n
<1>7. CASE ~HasClosed
  <2>1. AcceptedRecords = accepted
    BY <1>3, <1>4, <1>7 DEF AcceptedRecords
  <2>2. \A i \in 1 .. n : accepted[i] \in Records
    BY <1>2, <1>3, <1>5, <1>7
  <2>3. accepted \in Seq(Records)
    <3> HIDE DEF n
    <3>1. 1 \in Int /\ n \in Int
      BY <1>2
    <3>2. SubSeq(accepted, 1, n) \in Seq(Records)
      BY <2>2, <3>1, SubSeqProperties
    <3> QED BY <1>1, <3>2, SubSeqFull DEF n
  <2> QED BY <1>7, <2>1, <2>3
<1> QED BY <1>6, <1>7

LEMMA AcceptedNext == IInv' => AcceptedOK'
BY AcceptedFacts, PTL

(* A push accepts its record; the null record changes nothing. *)
LEMMA PushRefines ==
  ASSUME IInv, IInv', NEW t \in Producers \cup {Main}, Push(t), Pushing(t)
  PROVE  [Abstract!Next]_(Abstract!vars)
<1> USE ThreadsFacts
<1>1. TypeOK /\ DataInv
  BY DEF IInv, DataInv
<1>2. /\ size' # size /\ pc[t] = "push" /\ UNCHANGED <<output, failed, closed>>
      /\ accepted' = Append(accepted, element[t])
      /\ pc' = [pc EXCEPT ![t] = "notify_empty"]
  <2>1. size' # size
    BY <1>1, CapacityAssumption DEF Push, TypeOK, TypeQueue
  <2> QED BY <2>1 DEF Push, Pushing, streamVars, Goto
<1>3. pc[Main] = "open" \/ t = Main
  BY <1>1, <1>2 DEF DataInv, NullInv
<1>4. ~HasClosed /\ ~closed /\ pc \in [Threads -> Labels]
  BY <1>1, <1>2, <1>3 DEF HasClosed, DataInv, NullInv, TypeOK, TypeThreads
<1>5. AcceptedRecords = accepted
  BY <1>4, AcceptedFacts DEF AcceptedOK
<1>6. AcceptedOK'
  BY AcceptedNext
<1>7. accepted \in Seq(Elements) /\ element[t] \in Elements /\ Len(accepted) \in Nat
  BY <1>1, LenProperties DEF TypeOK, TypeStream, TypeQueue
<1>8. /\ Len(accepted') = Len(accepted) + 1
      /\ \A i \in 1 .. Len(accepted) : accepted'[i] = accepted[i]
  BY <1>2, <1>7, AppendProperties
<1>9. CASE t = Main
  <2>1. HasClosed'
    BY <1>2, <1>4, <1>9 DEF HasClosed
  <2>2. /\ AcceptedRecords' \in Seq(Records)
        /\ Len(AcceptedRecords') = Len(accepted') - 1
        /\ \A i \in 1 .. Len(AcceptedRecords') : AcceptedRecords'[i] = accepted'[i]
    BY <1>6, <2>1 DEF AcceptedOK
  <2>3. accepted \in Seq(Records)
    BY <1>5, AcceptedFacts DEF AcceptedOK
  <2>4. Len(AcceptedRecords') = Len(accepted)
    BY <1>7, <1>8, <2>2
  <2>5. \A i \in 1 .. Len(accepted) : AcceptedRecords'[i] = accepted[i]
    BY <1>8, <2>2, <2>4
  <2>6. AcceptedRecords' = accepted
    BY <2>2, <2>3, <2>4, <2>5, SeqEqual
  <2> QED BY <1>2, <1>5, <2>6 DEF Abstract!vars
<1>10. CASE t \in Producers
  <2>1. ~HasClosed'
    BY <1>2, <1>3, <1>4, <1>10 DEF HasClosed
  <2>2. AcceptedRecords' = Append(AcceptedRecords, element[t])
    BY <1>2, <1>5, <1>6, <2>1 DEF AcceptedOK
  <2>3. element[t] \in Records
    BY <1>1, <1>2, <1>10 DEF DataInv, OwnInv, Pending, TypeOK, TypeStream
  <2>4. Abstract!Accept(element[t])
    BY <1>2, <1>4, <2>2 DEF Abstract!Accept
  <2> QED BY <2>3, <2>4 DEF Abstract!Next
<1> QED BY <1>9, <1>10

(* The record written is the next one accepted. *)
LEMMA WriteRefines ==
  ASSUME IInv, IInv', WriteRecord
  PROVE  [Abstract!Next]_(Abstract!vars)
<1> USE ThreadsFacts
<1>1. TypeOK /\ DataInv /\ AcceptedOK
  BY AcceptedFacts DEF IInv, DataInv
<1>2. pc[Writer] = "popped" /\ element[Writer] # Null /\ UNCHANGED <<closed, accepted>>
      /\ pc' = [pc EXCEPT ![Writer] = "pop"]
  BY DEF WriteRecord, Goto
<1>3. Holding /\ ~closed
  BY <1>1, <1>2 DEF Holding, DataInv, NullInv
<1>4. /\ Len(accepted) \in Nat /\ Popped \in Nat /\ Written \in Nat /\ Written = Popped - 1
      /\ Popped <= Len(accepted) /\ Len(output) \in Nat
  BY <1>1, <1>3, Numbers DEF DataInv
<1>5. element[Writer] = accepted[Written + 1] /\ Written + 1 <= Len(accepted)
  BY <1>1, <1>3, <1>4 DEF DataInv, LogInv
<1>6. HasClosed => Written + 1 # Len(accepted)
  BY <1>1, <1>2, <1>5 DEF DataInv, NullInv
<1>7. Written + 1 \in 1 .. Len(AcceptedRecords)
  BY <1>1, <1>4, <1>5, <1>6 DEF AcceptedOK
<1>8. element[Writer] = AcceptedRecords[Written + 1]
  BY <1>1, <1>5, <1>7 DEF AcceptedOK
<1>9. AcceptedRecords' = AcceptedRecords
  BY <1>2 DEF AcceptedRecords
<1>10. Len(AcceptedRecords) \in Nat
  BY <1>1, LenProperties DEF AcceptedOK
<1>11. ~failed => Len(output) = Written
  BY <1>1 DEF DataInv, StreamInv
<1>12. CASE ~failed /\ output' = Append(output, element[Writer]) /\ failed' = failed
  <2>1. Len(output) < Len(AcceptedRecords) /\ element[Writer] = AcceptedRecords[Len(output) + 1]
    BY <1>4, <1>7, <1>8, <1>10, <1>11, <1>12
  <2>2. Abstract!Emit
    BY <1>2, <1>3, <1>9, <1>12, <2>1 DEF Abstract!Emit
  <2> QED BY <2>2 DEF Abstract!Next
<1>13. CASE failed' = TRUE /\ output' = output
  <2>1. CASE failed
    <3>1. failed' = failed
      BY <1>1, <1>13, <2>1 DEF TypeOK, TypeStream
    <3> QED BY <1>2, <1>9, <1>13, <3>1 DEF Abstract!vars
  <2>2. CASE ~failed
    <3>1. Len(output) < Len(AcceptedRecords)
      BY <1>4, <1>7, <1>10, <1>11, <2>2
    <3>2. Abstract!Fail
      BY <1>2, <1>9, <1>13, <2>2, <3>1 DEF Abstract!Fail
    <3> QED BY <3>2 DEF Abstract!Next
  <2> QED BY <2>1, <2>2
<1> QED BY <1>12, <1>13 DEF WriteRecord

(* The writer is closed when everything accepted has been written. *)
LEMMA JoinRefines ==
  ASSUME IInv, IInv', Join
  PROVE  Abstract!Next
<1>1. TypeOK /\ DataInv /\ AcceptedOK
  BY AcceptedFacts DEF IInv, DataInv
<1>2. /\ pc[Main] = "pushed" /\ pc[Writer] = "returned" /\ closed' = TRUE
      /\ UNCHANGED <<output, failed, accepted>>
  BY DEF Join, streamVars
<1>3. /\ Len(accepted) > 0 /\ Written = Len(accepted) - 1
  BY <1>2, Returned
<1>4. ~closed /\ HasClosed
  BY <1>1, <1>2 DEF DataInv, NullInv, HasClosed
<1>5. Len(AcceptedRecords) = Written
  BY <1>1, <1>3, <1>4 DEF AcceptedOK
<1>6. AcceptedRecords' = AcceptedRecords
  BY <1>2 DEF AcceptedRecords
<1>7. ~failed => output = AcceptedRecords
  <2>1. output \in Seq(Records) /\ AcceptedRecords \in Seq(Records)
    BY <1>1 DEF TypeOK, TypeStream, AcceptedOK
  <2>2. ASSUME ~failed
        PROVE  /\ Len(output) = Len(AcceptedRecords)
               /\ \A i \in 1 .. Len(output) : output[i] = AcceptedRecords[i]
    BY <1>1, <1>5, <2>2 DEF DataInv, StreamInv, AcceptedOK
  <2> QED BY <2>1, <2>2, SeqEqual
<1>8. Abstract!Close
  BY <1>2, <1>4, <1>6, <1>7 DEF Abstract!Close
<1> QED BY <1>8 DEF Abstract!Next

(* The other steps change nothing the abstract writer sees. *)
LEMMA StepRefines ==
  ASSUME IInv, IInv', [Next]_vars
  PROVE  [Abstract!Next]_(Abstract!vars)
<1> USE ThreadsFacts
<1> DEFINE Hidden == UNCHANGED <<accepted, output, failed, closed>>
<1>1. Hidden => [Abstract!Next]_(Abstract!vars)
  BY DEF AcceptedRecords, Abstract!vars
<1>2. ASSUME NEW t \in Producers \cup {Main}, Pushing(t)
      PROVE  [Abstract!Next]_(Abstract!vars)
  <2>1. CASE Push(t)
    BY <1>2, <2>1, PushRefines
  <2>2. CASE WaitNotFull(t) \/ NotifyNotEmpty(t)
    <3>1. Hidden
      BY <1>2, <2>2 DEF Pushing, WaitNotFull, NotifyNotEmpty, ring, streamVars
    <3> QED BY <1>1, <3>1
  <2> QED BY <1>2, <2>1, <2>2 DEF Pushing, PushStep
<1>3. CASE WriteLoop
  <2>1. CASE WriteRecord
    BY <2>1, WriteRefines
  <2>2. CASE EndLoop \/ UNCHANGED <<streamVars, closed, accepted, issued>>
    BY <1>1, <2>2 DEF EndLoop, streamVars
  <2> QED BY <1>3, <2>1, <2>2 DEF WriteLoop
<1>4. CASE CloseStep
  <2>1. CASE Close
    BY <1>1, <2>1 DEF Close, streamVars
  <2>2. CASE Join
    BY <2>2, JoinRefines
  <2> QED BY <1>2, <1>4, <2>1, <2>2 DEF CloseStep
<1>5. ASSUME NEW p \in Producers, Produce(p) PROVE [Abstract!Next]_(Abstract!vars)
  BY <1>1, <1>5 DEF Produce, streamVars
<1>6. ASSUME NEW t \in Threads, Wakeup(t) PROVE [Abstract!Next]_(Abstract!vars)
  BY <1>1, <1>6 DEF Wakeup, streamVars
<1>7. CASE Terminated \/ UNCHANGED vars
  BY <1>1, <1>7 DEF Terminated, vars, streamVars
<1> QED BY <1>2, <1>3, <1>4, <1>5, <1>6, <1>7 DEF Next

(* The writer does what WriterSpec allows, and nothing else. *)
THEOREM WriterRefines == Spec => Abstract!Safety
<1>1. Init => Abstract!Init
  BY DEF Init, WriterInit, AcceptedRecords, Abstract!Init
<1>2. IInv /\ IInv' /\ [Next]_vars => [Abstract!Next]_(Abstract!vars)
  BY StepRefines
<1> QED BY <1>1, <1>2, WriterInvariant, PTL DEF Spec, Abstract!Safety

-----------------------------------------------------------------------------
(* The builder: its threads are the producers of the writer.               *)

(* next_vertex is incremented once per vertex and once more per thread; it *)
(* must not wrap around, or vertex 0 is handed out again.                  *)
Headroom == ToVertex + 1 + Cardinality(Producers) <= MaxVertex

Done == {p \in Producers : pc[p] = "done"}

(* The vertices issued are those below next_vertex; beyond the last there  *)
(* is one increment per thread that has left the loop.                     *)
CounterInv ==
  /\ next_vertex \in Nat /\ FromVertex <= next_vertex
  /\ next_vertex <= ToVertex + 1 + Cardinality(Done)
  /\ issued = {v \in Requested : v < next_vertex}
  /\ Done # {} => next_vertex > ToVertex

HyperIInv == IInv /\ CounterInv

LEMMA DoneFacts ==
  /\ IsFiniteSet(Producers) /\ IsFiniteSet(Done)
  /\ Cardinality(Producers) \in Nat /\ Cardinality(Done) \in Nat
  /\ Cardinality(Done) <= Cardinality(Producers)
<1>1. IsFiniteSet(Producers)
  BY ThreadsAssumption, ThreadsFacts, FS_Subset DEF ThreadsAssumption
<1>2. Done \subseteq Producers
  BY DEF Done
<1> QED BY <1>1, <1>2, FS_Subset, FS_CardinalityType

LEMMA HyperInitOK == HyperInit => HyperIInv
<1> SUFFICES ASSUME HyperInit PROVE HyperIInv
  OBVIOUS
<1>1. IInv
  BY InitOK DEF HyperInit
<1>2. Done = {} /\ issued = {}
  BY ThreadsFacts DEF HyperInit, Init, Done
<1>3. next_vertex = FromVertex /\ FromVertex \in Nat /\ ToVertex \in Nat /\ FromVertex <= ToVertex
  BY HyperAssumption DEF HyperInit, HyperAssumption
<1>4. {v \in Requested : v < next_vertex} = {}
  BY <1>3 DEF Requested
<1>5. Cardinality(Done) = 0
  BY <1>2, FS_EmptySet
<1> QED BY <1>1, <1>2, <1>3, <1>4, <1>5 DEF HyperIInv, CounterInv

(* A thread that fetches does one of the things a producer may do.         *)
LEMMA FetchProduces ==
  ASSUME HyperIInv, NEW t \in Producers, Fetch(t)
  PROVE  Produce(t)
<1>1. CASE Exhausted(next_vertex)
  BY <1>1 DEF Fetch, Produce
<1>2. CASE ~Exhausted(next_vertex)
  <2>1. next_vertex \in Records \ issued
    <3>1. next_vertex \in Nat /\ ToVertex \in Nat /\ next_vertex <= ToVertex
      BY <1>2, HyperAssumption DEF HyperIInv, CounterInv, Exhausted, HyperAssumption
    <3>2. next_vertex \in Records
      BY <3>1, HyperAssumption DEF HyperAssumption, AllVertices
    <3>3. next_vertex \notin issued
      BY <3>1 DEF HyperIInv, CounterInv
    <3> QED BY <3>2, <3>3
  <2> QED BY <1>2, <2>1 DEF Fetch, Produce
<1> QED BY <1>1, <1>2

LEMMA FetchCounts ==
  ASSUME Headroom, HyperIInv, NEW t \in Producers, Fetch(t)
  PROVE  CounterInv'
<1>1. /\ next_vertex \in Nat /\ FromVertex <= next_vertex
      /\ next_vertex <= ToVertex + 1 + Cardinality(Done)
      /\ issued = {v \in Requested : v < next_vertex}
  BY DEF HyperIInv, CounterInv
<1>2. /\ FromVertex \in Nat /\ ToVertex \in Nat /\ MaxVertex \in Nat
      /\ ToVertex + 1 + Cardinality(Producers) <= MaxVertex
  BY HyperAssumption DEF HyperAssumption, Headroom
<1>3. pc[t] = "pushed" /\ pc \in [Threads -> Labels] /\ t \in Threads
  BY ThreadsFacts DEF Fetch, HyperIInv, IInv, TypeOK, TypeThreads
<1>4. Cardinality(Done) < Cardinality(Producers)
  <2>1. Done \cup {t} \subseteq Producers /\ t \notin Done
    BY <1>3 DEF Done
  <2>2. Cardinality(Done \cup {t}) = Cardinality(Done) + 1
    BY <2>1, DoneFacts, FS_AddElement
  <2>3. Cardinality(Done \cup {t}) <= Cardinality(Producers)
    BY <2>1, DoneFacts, FS_Subset
  <2> QED BY <2>2, <2>3, DoneFacts
<1>5. next_vertex' = next_vertex + 1
  BY <1>1, <1>2, <1>4, DoneFacts DEF Fetch, Successor
<1>6. CASE Exhausted(next_vertex)
  <2>1. issued' = issued /\ pc' = [pc EXCEPT ![t] = "done"]
    BY <1>6 DEF Fetch, Goto
  <2>2. Done' = Done \cup {t} /\ t \notin Done
    BY <1>3, <2>1 DEF Done
  <2>3. Cardinality(Done') = Cardinality(Done) + 1
    BY <2>2, DoneFacts, FS_AddElement
  <2>4. next_vertex > ToVertex
    BY <1>6 DEF Exhausted
  <2>5. {v \in Requested : v < next_vertex} = {v \in Requested : v < next_vertex + 1}
    BY <1>1, <1>2, <2>4 DEF Requested
  <2> QED BY <1>1, <1>2, <1>5, <2>1, <2>3, <2>4, <2>5, DoneFacts DEF CounterInv
<1>7. CASE ~Exhausted(next_vertex)
  <2>1. issued' = issued \cup {next_vertex} /\ pc' = [pc EXCEPT ![t] = "push"]
    BY <1>7 DEF Fetch, Goto
  <2>2. Done' = Done
    BY <1>3, <2>1 DEF Done
  <2>3. next_vertex <= ToVertex
    BY <1>1, <1>2, <1>7 DEF Exhausted
  <2>4. Done = {}
    BY <1>1, <1>2, <2>3 DEF HyperIInv, CounterInv
  <2>5. {v \in Requested : v < next_vertex} \cup {next_vertex}
          = {v \in Requested : v < next_vertex + 1}
    BY <1>1, <1>2, <2>3 DEF Requested
  <2> QED BY <1>1, <1>2, <1>5, <2>1, <2>2, <2>3, <2>4, <2>5, DoneFacts DEF CounterInv
<1> QED BY <1>6, <1>7

(* The threads that have left the loop stay out of it.                     *)
LEMMA DoneStays ==
  ASSUME TypeOK,
         \/ \E t \in Producers \cup {Main} : Pushing(t)
         \/ WriteLoop \/ Close \/ Join \/ UNCHANGED vars
         \/ \E t \in Threads : Wakeup(t)
  PROVE  Done' = Done /\ issued' = issued
<1> USE ThreadsFacts DEF Goto
<1>1. pc \in [Threads -> Labels] /\ not_full = At("full") /\ not_empty = At("empty")
  BY DEF TypeOK, TypeThreads, TypeQueue
<1>2. ASSUME NEW t \in Producers \cup {Main}, Pushing(t) PROVE Done' = Done /\ issued' = issued
  <2>1. t \in Threads /\ issued' = issued /\ PushStep(t)
    BY <1>2 DEF Pushing
  <2>2. CASE WaitNotFull(t) \/ Push(t)
    BY <1>1, <2>1, <2>2 DEF WaitNotFull, Push, Done
  <2>3. CASE NotifyNotEmpty(t)
    BY <1>1, <2>1, <2>3 DEF NotifyNotEmpty, Wake, At, Done
  <2> QED BY <2>1, <2>2, <2>3 DEF PushStep
<1>3. CASE WriteLoop
  <2>1. CASE PopStep(Writer) /\ UNCHANGED <<streamVars, closed, accepted, issued>>
    <3>1. CASE WaitNotEmpty(Writer) \/ Pop(Writer)
      BY <1>1, <2>1, <3>1 DEF WaitNotEmpty, Pop, Done
    <3>2. CASE NotifyNotFull(Writer)
      BY <1>1, <2>1, <3>2 DEF NotifyNotFull, Wake, At, Done
    <3> QED BY <2>1, <3>1, <3>2 DEF PopStep
  <2>2. CASE WriteRecord \/ EndLoop
    BY <1>1, <2>2 DEF WriteRecord, EndLoop, Done
  <2> QED BY <1>3, <2>1, <2>2 DEF WriteLoop
<1>4. CASE Close \/ Join
  BY <1>1, <1>4 DEF Close, Join, Done
<1>5. CASE UNCHANGED vars
  BY <1>5 DEF vars, fifoVars, Done
<1>6. ASSUME NEW t \in Threads, Wakeup(t) PROVE Done' = Done /\ issued' = issued
  BY <1>1, <1>6 DEF Wakeup, SpuriousWakeup, At, Done
<1> QED BY <1>2, <1>3, <1>4, <1>5, <1>6

(* Every step is a step of the writer and its callers.                     *)
LEMMA HyperStep ==
  ASSUME HyperIInv, [HyperNext]_hyperVars
  PROVE  [Next]_vars
<1>1. ASSUME NEW t \in Producers, Fetch(t) PROVE Next
  BY <1>1, FetchProduces DEF Next
<1>2. ASSUME NEW t \in Producers, Pushing(t) PROVE Next
  BY <1>2 DEF Next
<1>3. CASE WriteLoop \/ CloseStep
  BY <1>3 DEF Next
<1>4. ASSUME NEW t \in Threads, Wakeup(t) PROVE Next
  BY <1>4 DEF Next
<1>5. CASE Terminated
  BY <1>5 DEF Next
<1>6. CASE UNCHANGED hyperVars
  BY <1>6 DEF hyperVars
<1> QED BY <1>1, <1>2, <1>3, <1>4, <1>5, <1>6 DEF HyperNext

LEMMA HyperNextOK ==
  ASSUME Headroom
  PROVE  HyperIInv /\ [HyperNext]_hyperVars => HyperIInv'
<1> SUFFICES ASSUME HyperIInv, [HyperNext]_hyperVars PROVE HyperIInv'
  OBVIOUS
<1>1. IInv'
  BY HyperStep, NextOK DEF HyperIInv
<1>2. CounterInv'
  <2>1. ASSUME Done' = Done, issued' = issued, next_vertex' = next_vertex
        PROVE  CounterInv'
    BY <2>1 DEF HyperIInv, CounterInv
  <2>2. TypeOK
    BY DEF HyperIInv, IInv
  <2>3. ASSUME NEW t \in Producers, Fetch(t) PROVE CounterInv'
    BY <2>3, FetchCounts
  <2>4. ASSUME NEW t \in Producers, Pushing(t), UNCHANGED next_vertex PROVE CounterInv'
    BY <2>1, <2>2, <2>4, DoneStays
  <2>5. CASE (WriteLoop \/ CloseStep) /\ UNCHANGED next_vertex
    BY <2>1, <2>2, <2>5, DoneStays DEF CloseStep
  <2>6. ASSUME NEW t \in Threads, Wakeup(t), UNCHANGED next_vertex PROVE CounterInv'
    BY <2>1, <2>2, <2>6, DoneStays
  <2>7. CASE Terminated /\ UNCHANGED next_vertex
    BY <2>1, <2>2, <2>7, DoneStays DEF Terminated
  <2>8. CASE UNCHANGED hyperVars
    BY <2>1, <2>2, <2>8, DoneStays DEF hyperVars
  <2> QED BY <2>3, <2>4, <2>5, <2>6, <2>7, <2>8 DEF HyperNext
<1> QED BY <1>1, <1>2 DEF HyperIInv

(* The counter and the writer agree on the vertices handed over.           *)
THEOREM HyperInvariant == ASSUME Headroom PROVE HyperSpec => []HyperIInv
BY HyperInitOK, HyperNextOK, PTL DEF HyperSpec

(* HyperMultithreadedBuilder::thread_loop calls write() as the writer lets *)
(* its callers: no record twice, none after close().                       *)
THEOREM UsesWriter == ASSUME Headroom PROVE HyperSpec => Init /\ [][Next]_vars
<1>1. HyperInit => Init
  BY DEF HyperInit
<1>2. HyperIInv /\ [HyperNext]_hyperVars => [Next]_vars
  BY HyperStep
<1> QED BY <1>1, <1>2, HyperInvariant, PTL DEF HyperSpec

-----------------------------------------------------------------------------
(* The file. *)

LEMMA NoRecords == ASSUME NEW v, NEW S, S = {} PROVE [n \in 1 .. Cardinality(S) |-> v] = <<>>
<1>1. 1 .. Cardinality(S) = {}
  BY FS_EmptySet
<1> QED BY <1>1

LEMMA OneRecord == ASSUME NEW v, NEW k, NEW S, S = {k} PROVE [n \in 1 .. Cardinality(S) |-> v] = <<v>>
<1>1. Cardinality(S) = 1
  BY FS_Singleton
<1> QED BY <1>1

(* What is in the stream has been accepted, in the same place.             *)
LEMMA OutputFacts ==
  ASSUME HyperIInv
  PROVE  /\ output \in Seq(Records) /\ Len(output) \in Nat
         /\ Len(accepted) \in Nat /\ Written \in Nat
         /\ Written <= Popped /\ Popped <= Len(accepted) /\ Len(output) <= Written
         /\ Holding => Written + 1 = Popped
         /\ \A n \in 1 .. Len(output) : output[n] = accepted[n]
         /\ \A n, m \in 1 .. Len(accepted) : accepted[n] = accepted[m] => n = m
         /\ issued \subseteq Requested
         /\ \A n \in 1 .. Len(accepted) : accepted[n] \in issued \cup {Null}
<1>1. TypeOK /\ LogInv /\ StreamInv /\ OwnInv /\ output \in Seq(Records)
  BY DEF HyperIInv, IInv, TypeOK, TypeStream
<1>2. Len(output) \in Nat
  BY <1>1, LenProperties
<1>3. /\ Len(accepted) \in Nat /\ Popped \in Nat /\ Written \in Nat /\ Written <= Popped
      /\ size \in Nat /\ Popped = Len(accepted) - size
  BY <1>1, Numbers
<1>4. Popped <= Len(accepted)
  BY <1>3
<1>5. Holding => Written + 1 = Popped
  BY <1>3 DEF Written
<1>6. issued \subseteq Requested
  BY DEF HyperIInv, CounterInv
<1> QED BY <1>1, <1>2, <1>3, <1>4, <1>5, <1>6 DEF StreamInv, OwnInv

(* The writing thread adds the record of a vertex that has none.           *)
LEMMA WriteAdds ==
  ASSUME HyperIInv, WriteRecord
  PROVE  [Sequential!Next]_File
<1> DEFINE r == element[Writer]
           k == Len(output)
<1>1. /\ pc[Writer] = "popped" /\ r # Null
      /\ output' = Append(output, r) \/ output' = output
  BY DEF WriteRecord
<1>2. Holding /\ r = accepted[Popped] /\ Popped > 0
  BY <1>1 DEF Holding, HyperIInv, IInv, LogInv
<1>3. CASE output' = output
  BY <1>3 DEF File, RecordsOf, Places
<1>4. CASE output' = Append(output, r)
  <2>1. Popped \in 1 .. Len(accepted) /\ k < Popped /\ k \in Nat
    BY <1>2, OutputFacts
  <2>2. r \in issued /\ r \in Requested
    BY <1>1, <1>2, <2>1, OutputFacts
  <2>3. r \in AllVertices /\ Requested \subseteq AllVertices /\ r \in Records
    BY <2>2, HyperAssumption DEF HyperAssumption, Requested, AllVertices
  <2>4. PICK v \in AllVertices : v = r
    BY <2>3
  <2>5. Places(v) = {}
    <3>1. ASSUME NEW n \in 1 .. k, output[n] = v PROVE FALSE
      <4>1. accepted[n] = accepted[Popped] /\ n \in 1 .. Len(accepted) /\ n # Popped
        BY <1>2, <2>1, <2>4, <3>1, OutputFacts
      <4> QED BY <2>1, <4>1, OutputFacts
    <3> QED BY <3>1 DEF Places
  <2>6. /\ Len(output') = k + 1 /\ output'[k + 1] = v
        /\ \A n \in 1 .. k : output'[n] = output[n]
    BY <1>4, <2>3, <2>4, OutputFacts, AppendProperties
  <2>7. 1 .. k + 1 = (1 .. k) \cup {k + 1}
    BY <2>1
  <2>8. Places(v)' = {k + 1}
    BY <2>5, <2>6, <2>7 DEF Places
  <2>9. ASSUME NEW u \in AllVertices \ {v} PROVE Places(u)' = Places(u)
    <3>1. Places(u)' = {n \in (1 .. k) \cup {k + 1} : output'[n] = u}
      BY <2>6, <2>7 DEF Places
    <3>2. Places(u)' = {n \in 1 .. k : output'[n] = u}
      BY <2>6, <3>1
    <3>3. Places(u) = {n \in 1 .. k : output[n] = u}
      BY DEF Places
    <3> HIDE DEF k
    <3> QED BY <2>6, <3>2, <3>3
  <2>10. File[v] = <<>>
    <3>1. RecordsOf(v) = <<>>
      BY <2>5, NoRecords DEF RecordsOf
    <3> QED BY <3>1 DEF File
  <2>11. RecordsOf(v)' = <<v>>
    BY <2>8, OneRecord DEF RecordsOf
  <2>12. \A u \in AllVertices \ {v} : RecordsOf(u)' = RecordsOf(u)
    BY <2>9 DEF RecordsOf
  <2>13. File' = [File EXCEPT ![v] = <<v>>]
    BY <2>11, <2>12 DEF File
  <2>14. v \in Requested
    BY <2>2, <2>4
  <2>15. Sequential!WriteRecord(v)
    BY <2>4, <2>10, <2>13 DEF Sequential!WriteRecord
  <2> QED BY <2>14, <2>15 DEF Sequential!Next
<1> QED BY <1>1, <1>3, <1>4

(* Only the writing thread touches the file.                               *)
LEMMA FileStep ==
  ASSUME HyperIInv, [HyperNext]_hyperVars
  PROVE  [Sequential!Next]_File
<1>1. output' = output => File' = File
  BY DEF File, RecordsOf, Places
<1>2. ASSUME NEW t \in Producers, Fetch(t) PROVE output' = output
  BY <1>2 DEF Fetch, streamVars
<1>3. ASSUME NEW t \in Producers \cup {Main}, Pushing(t) PROVE output' = output
  BY <1>3 DEF Pushing, streamVars
<1>4. CASE WriteRecord
  BY <1>4, WriteAdds
<1>5. CASE WriteLoop /\ ~WriteRecord
  BY <1>1, <1>5 DEF WriteLoop, EndLoop, streamVars
<1>6. CASE CloseStep
  BY <1>1, <1>3, <1>6 DEF CloseStep, Close, Join, streamVars
<1>7. ASSUME NEW t \in Threads, Wakeup(t) PROVE output' = output
  BY <1>7 DEF Wakeup, streamVars
<1>8. CASE Terminated \/ UNCHANGED hyperVars
  BY <1>1, <1>8 DEF Terminated, hyperVars, vars, streamVars
<1> QED BY <1>1, <1>2, <1>3, <1>4, <1>5, <1>6, <1>7, <1>8 DEF HyperNext

(* hyper-build writes one record per requested vertex, as the sequential   *)
(* loop does, in an order the threads decide.                              *)
THEOREM HyperRefines == ASSUME Headroom PROVE HyperSpec => Sequential!Safety
<1>1. HyperInit => Sequential!Init
  <2> SUFFICES ASSUME HyperInit PROVE Sequential!Init
    OBVIOUS
  <2>1. output = <<>> /\ Len(output) = 0
    BY EmptySeq DEF HyperInit, Init, WriterInit
  <2>2. ASSUME NEW v \in AllVertices PROVE RecordsOf(v) = <<>>
    <3>1. Places(v) = {}
      BY <2>1 DEF Places
    <3> QED BY <3>1, NoRecords DEF RecordsOf
  <2> QED BY <2>2 DEF Sequential!Init, File
<1>2. HyperIInv /\ [HyperNext]_hyperVars => [Sequential!Next]_File
  BY FileStep
<1> QED BY <1>1, <1>2, HyperInvariant, PTL DEF HyperSpec, Sequential!Safety

(* When the writer is gone and the stream is good, the file is complete.   *)
LEMMA Complete ==
  ASSUME HyperIInv, closed, ~failed, NEW v \in AllVertices
  PROVE  RecordsOf(v) = IF v \in Requested THEN <<v>> ELSE <<>>
<1>1. TypeOK /\ DataInv
  BY DEF HyperIInv, IInv, DataInv
<1>2. pc[Writer] = "returned" /\ \A p \in Producers : pc[p] = "done"
  BY <1>1 DEF DataInv, NullInv
<1>3. Done # {}
  BY <1>2, HyperAssumption DEF HyperAssumption, Done
<1>4. issued = Requested
  <2>1. next_vertex > ToVertex /\ next_vertex \in Nat /\ ToVertex \in Nat
    BY <1>3, HyperAssumption DEF HyperIInv, CounterInv, HyperAssumption
  <2>2. \A u \in Requested : u < next_vertex
    BY <2>1, HyperAssumption DEF Requested, HyperAssumption
  <2> QED BY <2>2 DEF HyperIInv, CounterInv
<1>5. /\ size = 0 /\ Len(accepted) > 0 /\ Written = Len(accepted) - 1
      /\ accepted[Len(accepted)] = Null
  BY <1>1, <1>2, Returned DEF HyperIInv
<1>6. \A r \in issued : WrittenBefore(r, Len(accepted) - 1)
  BY <1>1, <1>2, <1>5, AllLogged DEF HyperIInv
<1>7. Len(output) = Len(accepted) - 1
  BY <1>1, <1>5 DEF DataInv, StreamInv
<1>8. CASE v \in Requested
  <2>1. PICK n \in 1 .. Len(output) : accepted[n] = v
    BY <1>4, <1>6, <1>7, <1>8 DEF WrittenBefore
  <2>2. Places(v) = {n}
    <3>1. \A m \in 1 .. Len(output) : m \in 1 .. Len(accepted)
      BY <1>5, <1>7, OutputFacts
    <3>2. \A m \in 1 .. Len(output) : output[m] = v <=> m = n
      BY <2>1, <3>1, OutputFacts
    <3> QED BY <3>2 DEF Places
  <2> QED BY <1>8, <2>2, OneRecord DEF RecordsOf
<1>9. CASE v \notin Requested
  <2>1. v # Null
    BY ThreadsFacts, HyperAssumption DEF HyperAssumption
  <2>2. \A m \in 1 .. Len(output) : m \in 1 .. Len(accepted)
    BY <1>5, <1>7, OutputFacts
  <2>3. Places(v) = {}
    BY <1>9, <2>1, <2>2, OutputFacts DEF Places
  <2> QED BY <1>9, <2>3, NoRecords DEF RecordsOf
<1> QED BY <1>8, <1>9

(* Once build() has deleted its writer no requested vertex is missing.     *)
THEOREM CompleteFile == ASSUME Headroom PROVE HyperSpec => []FileComplete
<1>1. HyperIInv => FileComplete
  BY Complete DEF FileComplete
<1> QED BY <1>1, HyperInvariant, PTL
=============================================================================

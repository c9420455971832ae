--------------------------- MODULE LogReader_proofs ---------------------------
(***************************************************************************)
(* Proofs about LogReader, for every set of request threads and every      *)
(* capacity and bound.                                                     *)
(***************************************************************************)
EXTENDS LogReader, SequenceTheorems, TLAPS

\* No file has more lines than were written, and open files exist.
FilesInv ==
    /\ \A g \in 1..Current : Length(g) <= written
    /\ \A p \in Poller : handle[p].file <= Current

TypeInv == TypeOK /\ FilesInv

LEMMA InitType == Init => TypeInv
<1> SUFFICES ASSUME Init PROVE TypeInv
  OBVIOUS
<1> DEFINE f == [i \in 1..written |-> i]
<1>1. written \in 0..MaxLines /\ MaxLines \in Nat /\ files = <<f>>
  BY BoundsAssumption DEF Init
<1>2. f \in [1..written -> Line]
  BY <1>1 DEF Line
<1>3. f \in Seq(Line) /\ Len(f) = written
  <2> HIDE DEF f
  <2>1. f \in Seq(Line)
    BY <1>1, <1>2, SeqDef
  <2>2. QED
    BY <1>1, <1>2, <2>1, LenProperties
<1>4. files \in Seq(Seq(Line)) /\ Current = 1 /\ Length(1) = written
  <2> HIDE DEF f
  <2>1. QED
    BY <1>1, <1>3 DEF Current, Length
<1>5. query \in Seq(Line) /\ Len(query) <= Capacity
  BY BoundsAssumption DEF Init
<1>6. /\ lastTimeFileSize \in 0..MaxLines /\ newest \in 0..MaxLines
      /\ size \in [Poller -> 0..MaxLines]
  BY <1>1 DEF Init
<1>7. pc \in [Poller -> Pcs]
  BY DEF Init, Pcs
<1>8. taken \subseteq Line /\ late \subseteq Line /\ failed \in BOOLEAN /\ broken \in BOOLEAN
      /\ shared \in BOOLEAN
  BY DEF Init
<1>9. handle \in [Poller -> Handles]
  BY <1>1, BoundsAssumption DEF Init, Handles
<1>10. FilesInv
  BY <1>1, <1>4 DEF Init, FilesInv
<1>11. QED
  BY <1>1, <1>4, <1>5, <1>6, <1>7, <1>8, <1>9, <1>10, BoundsAssumption DEF TypeInv, TypeOK

\* What the steps below need of the files.
LEMMA FileFacts ==
    ASSUME TypeInv
    PROVE  /\ Current \in 1..MaxFiles /\ written \in 0..MaxLines /\ MaxLines \in Nat
           /\ \A g \in 1..Current : files[g] \in Seq(Line) /\ Length(g) \in 0..MaxLines
           /\ \A p \in Poller : handle[p].file \in 1..Current /\ handle[p].next \in 1..(MaxLines + 1)
<1>1. /\ files \in Seq(Seq(Line)) /\ Current \in 1..MaxFiles
      /\ written \in 0..MaxLines /\ MaxLines \in Nat
  BY BoundsAssumption DEF TypeInv, TypeOK
<1>2. ASSUME NEW g \in 1..Current
      PROVE  files[g] \in Seq(Line) /\ Length(g) \in 0..MaxLines
  <2>1. files[g] \in Seq(Line)
    BY <1>1 DEF Current
  <2>2. Length(g) \in Nat /\ Length(g) <= written
    BY <2>1 DEF Length, TypeInv, FilesInv
  <2>3. QED
    BY <1>1, <2>1, <2>2
<1>3. ASSUME NEW p \in Poller
      PROVE  handle[p].file \in 1..Current /\ handle[p].next \in 1..(MaxLines + 1)
  <2>1. handle[p] \in Handles /\ handle[p].file <= Current
    BY DEF TypeInv, TypeOK, FilesInv
  <2>2. QED
    BY <1>1, <2>1 DEF Handles
<1>4. QED
  BY <1>1, <1>2, <1>3

\* An answered request leaves the locals of the thread in their types.
LEMMA AnsweredType ==
    ASSUME TypeInv, NEW p \in Poller, Answered(p)
    PROVE  /\ pc' \in [Poller -> Pcs]
           /\ size' \in [Poller -> 0..MaxLines]
           /\ handle' \in [Poller -> Handles]
           /\ \A q \in Poller : handle'[q].file <= Current
<1>1. /\ pc' \in [Poller -> Pcs]
      /\ size' \in [Poller -> 0..MaxLines]
  BY BoundsAssumption DEF Answered, TypeInv, TypeOK, Pcs
<1>2. NoHandle \in Handles /\ NoHandle.file <= Current
  <2>1. 1 \in 1..MaxFiles /\ 1 \in 1..(MaxLines + 1) /\ 1 <= Current
    BY FileFacts, BoundsAssumption
  <2>2. QED
    BY <2>1 DEF NoHandle, Handles
<1>3. QED
  BY <1>1, <1>2 DEF Answered, TypeInv, TypeOK, FilesInv

LEMMA TypeStep == ASSUME TypeInv, [Next]_vars PROVE TypeInv'
<1>1. CASE Write
  <2>1. UNCHANGED <<lastTimeFileSize, query, pc, size, handle, newest, taken, failed, broken, shared>>
    BY <1>1 DEF Write, static, local
  <2>2. written' = written + 1 /\ written' \in 0..MaxLines /\ written' \in Line
    BY <1>1, FileFacts DEF Write, Line
  <2>3. Current \in 1..Len(files) /\ files \in Seq(Seq(Line)) /\ files[Current] \in Seq(Line)
    BY FileFacts DEF Current, TypeInv, TypeOK
  <2>4. /\ Append(files[Current], written') \in Seq(Line)
        /\ Len(Append(files[Current], written')) = Length(Current) + 1
    BY <2>2, <2>3 DEF Length
  <2>5. files' = [files EXCEPT ![Current] = Append(files[Current], written')]
    BY <1>1, <2>2 DEF Write
  <2>6. /\ files' \in Seq(Seq(Line)) /\ Current' = Current
        /\ \A g \in 1..Current : files'[g] = IF g = Current THEN Append(files[Current], written') ELSE files[g]
    BY <2>3, <2>4, <2>5, ExceptSeq DEF Current
  <2>7. late' \subseteq Line
    BY <1>1, <2>2 DEF Write, TypeInv, TypeOK
  <2>8. \A g \in 1..Current' : Length(g)' <= written'
    <3>1. /\ \A g \in 1..Current : Length(g) \in Nat /\ Length(g) <= written
          /\ Current \in Nat /\ written \in Nat
      BY FileFacts DEF TypeInv, FilesInv
    <3>2. ASSUME NEW g \in 1..Current, g # Current PROVE Len(files'[g]) <= written'
      BY <2>2, <2>6, <3>1, <3>2 DEF Length
    <3>3. Len(files'[Current]) <= written'
      <4>1. Current \in 1..Current
        BY <2>3 DEF Current
      <4>2. Len(files'[Current]) = Length(Current) + 1
        BY <2>4, <2>6, <4>1
      <4>3. QED
        BY <2>2, <3>1, <4>1, <4>2
    <3>4. \A g \in 1..Current : Len(files'[g]) <= written'
      BY <3>2, <3>3
    <3>5. QED
      BY <2>6, <3>4 DEF Length
  <2>9. QED
    BY <2>1, <2>2, <2>6, <2>7, <2>8 DEF TypeInv, TypeOK, FilesInv
<1>2. CASE Rotate
  <2>1. UNCHANGED <<written, lastTimeFileSize, query, pc, size, handle, newest, taken, late, failed, broken, shared>>
    BY <1>2 DEF Rotate, static, local, history
  <2>2. files \in Seq(Seq(Line)) /\ << >> \in Seq(Line) /\ files' = Append(files, << >>)
    BY <1>2 DEF Rotate, TypeInv, TypeOK
  <2>3. /\ files' \in Seq(Seq(Line)) /\ Current' = Current + 1
        /\ \A g \in 1..Current' : files'[g] = IF g = Current + 1 THEN << >> ELSE files[g]
    BY <2>2, FileFacts DEF Current
  <2>4. Current' \in 1..MaxFiles
    BY <1>2, <2>3, FileFacts, BoundsAssumption DEF Rotate
  <2>5. \A g \in 1..Current' : Length(g)' <= written'
    BY <2>1, <2>3, FileFacts DEF Length, TypeInv, FilesInv
  <2>6. \A p \in Poller : handle'[p].file <= Current'
    BY <2>1, <2>3, FileFacts
  <2>7. QED
    BY <2>1, <2>3, <2>4, <2>5, <2>6 DEF TypeInv, TypeOK, FilesInv
<1>3. ASSUME NEW p \in Poller, Request(p) PROVE TypeInv'
  <2>1. UNCHANGED <<files, written, lastTimeFileSize, query, size, handle, newest, taken, late, failed, broken>>
    BY <1>3 DEF Request, log, static
  <2>2. shared' \in BOOLEAN
    BY <1>3 DEF Request
  <2>3. pc' \in [Poller -> Pcs]
    BY <1>3 DEF Request, TypeInv, TypeOK, Pcs
  <2>4. QED
    BY <2>1, <2>2, <2>3 DEF TypeInv, TypeOK, FilesInv, Current, Length
<1>4. ASSUME NEW p \in Poller, ReadLength(p) PROVE TypeInv'
  <2>1. UNCHANGED <<files, written, lastTimeFileSize, query, handle, newest, taken, late, failed, broken, shared>>
    BY <1>4 DEF ReadLength, log, static, history
  <2>2. pc' \in [Poller -> Pcs]
    BY <1>4 DEF ReadLength, TypeInv, TypeOK, Pcs
  <2>3. size' \in [Poller -> 0..MaxLines]
    BY <1>4, FileFacts DEF ReadLength, TypeInv, TypeOK
  <2>4. QED
    BY <2>1, <2>2, <2>3 DEF TypeInv, TypeOK, FilesInv, Current, Length
<1>5. ASSUME NEW p \in Poller, CompareShrunk(p) PROVE TypeInv'
  <2>1. UNCHANGED <<files, written, query, size, handle, newest, taken, late, failed, broken, shared>>
    BY <1>5 DEF CompareShrunk, log, history
  <2>2. pc' \in [Poller -> Pcs]
    BY <1>5 DEF CompareShrunk, TypeInv, TypeOK, Pcs
  <2>3. lastTimeFileSize' \in 0..MaxLines
    BY <1>5 DEF CompareShrunk, TypeInv, TypeOK
  <2>4. QED
    BY <2>1, <2>2, <2>3 DEF TypeInv, TypeOK, FilesInv, Current, Length
<1>6. ASSUME NEW p \in Poller, CompareGrown(p) PROVE TypeInv'
  <2>1. UNCHANGED <<files, written, lastTimeFileSize, query, size, handle, newest, taken, late, failed, broken, shared>>
    BY <1>6 DEF CompareGrown, log, static, history
  <2>2. pc' \in [Poller -> Pcs]
    BY <1>6 DEF CompareGrown, TypeInv, TypeOK, Pcs
  <2>3. QED
    BY <2>1, <2>2 DEF TypeInv, TypeOK, FilesInv, Current, Length
<1>7. ASSUME NEW p \in Poller, Seek(p) PROVE TypeInv'
  <2> DEFINE h == [file |-> Current, next |-> lastTimeFileSize + 1]
  <2>1. UNCHANGED <<files, written, lastTimeFileSize, query, size, newest, taken, late, failed, broken, shared>>
    BY <1>7 DEF Seek, log, static, history
  <2>2. pc' \in [Poller -> Pcs]
    BY <1>7 DEF Seek, TypeInv, TypeOK, Pcs
  <2>3. h \in Handles /\ h.file <= Current
    BY FileFacts DEF Handles, TypeInv, TypeOK
  <2>4. handle' = [handle EXCEPT ![p] = h]
    BY <1>7 DEF Seek
  <2>5. handle' \in [Poller -> Handles] /\ \A q \in Poller : handle'[q].file <= Current
    <3> HIDE DEF h
    <3>1. QED
      BY <2>3, <2>4 DEF TypeInv, TypeOK, FilesInv
  <2>6. QED
    BY <2>1, <2>2, <2>5 DEF TypeInv, TypeOK, FilesInv, Current, Length
<1>8. ASSUME NEW p \in Poller, ReadLine(p) PROVE TypeInv'
  <2> DEFINE f == files[handle[p].file]
             i == handle[p].next
  <2>1. UNCHANGED <<files, written, lastTimeFileSize, newest, taken, late, broken, shared>>
    BY <1>8 DEF ReadLine, log
  <2>2. /\ f \in Seq(Line) /\ Len(f) \in 0..MaxLines
        /\ i \in 1..(MaxLines + 1) /\ handle[p].file \in 1..Current
        /\ MaxLines \in Nat
    BY FileFacts DEF Length
  <2>3. /\ query \in Seq(Line) /\ Len(query) <= Capacity /\ handle \in [Poller -> Handles]
        /\ pc \in [Poller -> Pcs]
        /\ size \in [Poller -> 0..MaxLines] /\ failed \in BOOLEAN /\ shared \in BOOLEAN
        /\ \A q \in Poller : handle[q].file <= Current
    BY DEF TypeInv, TypeOK, FilesInv
  <2>4. CASE i > Len(f) /\ pc' = [pc EXCEPT ![p] = "mark"] /\ UNCHANGED <<query, size, handle, failed>>
    BY <2>1, <2>4 DEF Pcs, TypeInv, TypeOK, FilesInv, Current, Length
  <2>5. CASE /\ i <= Len(f) /\ Len(query) < Capacity
             /\ query' = Append(query, f[i]) /\ handle' = [handle EXCEPT ![p].next = i + 1]
             /\ UNCHANGED <<pc, size, failed>>
    <3>1. f[i] \in Line
      BY <2>2, <2>5
    <3>2. query' \in Seq(Line) /\ Len(query') <= Capacity
      BY <2>3, <2>5, <3>1, BoundsAssumption
    <3>3. i + 1 \in 1..(MaxLines + 1)
      BY <2>2, <2>5
    <3>4. \A q \in Poller : handle'[q] \in Handles /\ handle'[q].file <= Current
      BY <2>3, <2>5, <3>3 DEF Handles
    <3>5. handle' \in [Poller -> Handles]
      BY <2>3, <2>5, <3>4
    <3>6. QED
      BY <2>1, <2>5, <3>2, <3>4, <3>5 DEF TypeInv, TypeOK, FilesInv, Current, Length
  <2>6. CASE Answered(p) /\ failed' = TRUE /\ UNCHANGED query
    BY <2>1, <2>6, AnsweredType DEF TypeInv, TypeOK, FilesInv, Current, Length
  <2>7. QED
    BY <1>8, <2>4, <2>5, <2>6 DEF ReadLine
<1>9. ASSUME NEW p \in Poller, Mark(p) PROVE TypeInv'
  <2>1. UNCHANGED <<files, written, query, size, handle, newest, taken, late, failed, broken, shared>>
    BY <1>9 DEF Mark, log, history
  <2>2. pc' \in [Poller -> Pcs]
    BY <1>9 DEF Mark, TypeInv, TypeOK, Pcs
  <2>3. lastTimeFileSize' \in 0..MaxLines
    BY <1>9, FileFacts DEF Mark
  <2>4. QED
    BY <2>1, <2>2, <2>3 DEF TypeInv, TypeOK, FilesInv, Current, Length
<1>10. ASSUME NEW p \in Poller, Take(p) PROVE TypeInv'
  <2>1. UNCHANGED <<files, written, lastTimeFileSize, late, failed, broken, shared>>
    BY <1>10 DEF Take, log
  <2>2. query \in Seq(Line) /\ query # << >> /\ Len(query) <= Capacity
    BY <1>10 DEF Take, TypeInv, TypeOK
  <2>3. Head(query) \in Line /\ Tail(query) \in Seq(Line) /\ Len(Tail(query)) <= Capacity
    BY <2>2, BoundsAssumption
  <2>4. query' \in Seq(Line) /\ Len(query') <= Capacity
    BY <1>10, <2>3 DEF Take
  <2>5. newest' \in 0..MaxLines /\ taken' \subseteq Line
    <3>1. newest' = Head(query) /\ taken' = taken \cup {Head(query)} /\ taken \subseteq Line
      BY <1>10 DEF Take, TypeInv, TypeOK
    <3>2. Line \subseteq 0..MaxLines
      BY BoundsAssumption DEF Line
    <3>3. QED
      BY <2>3, <3>1, <3>2
  <2>6. Answered(p)
    BY <1>10 DEF Take
  <2>7. QED
    BY <2>1, <2>4, <2>5, <2>6, AnsweredType DEF TypeInv, TypeOK, FilesInv, Current, Length
<1>11. ASSUME NEW p \in Poller, Fails(p) \/ PrintStackTrace(p) PROVE TypeInv'
  <2>1. UNCHANGED <<files, written, lastTimeFileSize, query, size, handle, newest, taken, late, failed, shared>>
    BY <1>11 DEF Fails, OpenFails, ReadFails, PrintStackTrace, log, static, history
  <2>2. pc' \in [Poller -> Pcs]
    BY <1>11 DEF Fails, OpenFails, ReadFails, PrintStackTrace, TypeInv, TypeOK, Pcs
  <2>3. broken' \in BOOLEAN
    BY <1>11, Zenon DEF Fails, OpenFails, ReadFails, PrintStackTrace, history, TypeInv, TypeOK
  <2>4. QED
    BY <2>1, <2>2, <2>3 DEF TypeInv, TypeOK, FilesInv, Current, Length
<1>12. CASE UNCHANGED vars
  BY <1>12 DEF vars, log, static, local, history, TypeInv, TypeOK, FilesInv, Current, Length
<1>13. QED
  BY <1>1, <1>2, <1>3, <1>4, <1>5, <1>6, <1>7, <1>8, <1>9, <1>10, <1>11, <1>12 DEF Next, Handle

LEMMA TypeInvariance == Spec => []TypeInv
<1>1. TypeInv /\ [Next]_vars => TypeInv'
  BY TypeStep
<1>2. QED
  BY <1>1, InitType, PTL DEF Spec

\* Every state has the types of the model: the offset stays inside the file and
\* the queue inside its capacity, whatever the threads do to each other.
THEOREM Typing == Spec => []TypeOK
<1>1. TypeInv => TypeOK
  BY DEF TypeInv
<1>2. QED
  BY <1>1, TypeInvariance, PTL

-----------------------------------------------------------------------------
(* No line of the part of the log that counts as read is lost.             *)

\* Line i was answered, waits in the queue or came too late to be read.
Settled(i) == i \in taken \cup late \/ Queued(i)
SettledUpTo(n) == \A i \in 1..n : Settled(i)

\* As long as there is one file its line i is the i-th one written, and not only
\* what counts as read is settled but also what a thread has gone past that is
\* about to count as read.
ReadInv ==
    Current = 1 =>
        /\ Length(1) = written /\ \A i \in 1..written : files[1][i] = i
        /\ lastTimeFileSize <= written /\ SettledUpTo(lastTimeFileSize)
        /\ \A p \in Poller :
              /\ size[p] <= written
              /\ pc[p] = "read" => SettledUpTo(handle[p].next - 1)
              /\ pc[p] = "mark" => SettledUpTo(written)

\* A settled line stays settled: it leaves the queue only as an answer.
LEMMA SettledForEver ==
    ASSUME TypeInv, [Next]_vars, NEW i, Settled(i)
    PROVE  Settled(i)'
<1>1. CASE UNCHANGED query /\ taken \subseteq taken' /\ late \subseteq late'
  BY <1>1 DEF Settled, Queued
<1>2. ASSUME NEW p \in Poller, ReadLine(p), query' # query PROVE Settled(i)'
  <2>1. PICK e : query' = Append(query, e)
    BY <1>2 DEF ReadLine
  <2>2. UNCHANGED <<taken, late>> /\ query \in Seq(Line)
    BY <1>2 DEF ReadLine, TypeInv, TypeOK
  <2>3. /\ Len(query') = Len(query) + 1 /\ Len(query) \in Nat
        /\ \A k \in 1..Len(query) : query'[k] = query[k]
    BY <2>1, <2>2
  <2>4. Queued(i) => Queued(i)'
    BY <2>3 DEF Queued
  <2>5. QED
    BY <2>2, <2>4 DEF Settled
<1>3. ASSUME NEW p \in Poller, Take(p) PROVE Settled(i)'
  <2>1. /\ query \in Seq(Line) /\ query # << >> /\ query' = Tail(query)
        /\ taken' = taken \cup {Head(query)} /\ UNCHANGED late
    BY <1>3 DEF Take, TypeInv, TypeOK
  <2>2. ASSUME NEW k \in 1..Len(query), query[k] = i, k # 1 PROVE Queued(i)'
    <3>1. /\ Len(query') = Len(query) - 1 /\ Len(query) \in Nat
          /\ \A j \in 1..Len(query') : query'[j] = query[j + 1]
      BY <2>1, HeadTailProperties
    <3>2. k - 1 \in 1..Len(query') /\ query'[k - 1] = i
      BY <2>2, <3>1
    <3>3. QED
      BY <3>2 DEF Queued
  <2>3. query[1] = Head(query)
    BY <2>1
  <2>4. QED
    BY <2>1, <2>2, <2>3 DEF Settled, Queued
<1>4. QED
  <2>1. ASSUME NEW p \in Poller, ReadLine(p), UNCHANGED query PROVE Settled(i)'
    BY <1>1, <2>1 DEF ReadLine
  <2>2. CASE Write \/ Rotate \/ UNCHANGED vars
    BY <1>1, <2>2 DEF Write, Rotate, vars, static, local, history
  <2>3. ASSUME NEW p \in Poller,
               \/ Request(p) \/ ReadLength(p) \/ CompareShrunk(p)
               \/ CompareGrown(p) \/ Seek(p) \/ Mark(p) \/ Fails(p) \/ PrintStackTrace(p)
        PROVE  Settled(i)'
    BY <1>1, <2>3 DEF Request, ReadLength, CompareShrunk, CompareGrown, Seek, Mark, Fails, OpenFails,
       ReadFails, PrintStackTrace, static, history
  <2>4. QED
    BY <1>2, <1>3, <2>1, <2>2, <2>3 DEF Next, Handle

LEMMA ReadInit == Init => ReadInv
<1> SUFFICES ASSUME Init PROVE ReadInv
  OBVIOUS
<1> DEFINE f == [i \in 1..written |-> i]
<1>1. /\ files = <<f>> /\ lastTimeFileSize = 0 /\ written \in Nat
      /\ \A p \in Poller : pc[p] = "idle" /\ size[p] = 0
  BY BoundsAssumption DEF Init
<1>2. Length(1) \in Nat /\ DOMAIN f = 1..Length(1) /\ DOMAIN f = 1..written
  <2>1. files \in Seq(Seq(Line)) /\ Current = 1
    BY <1>1, InitType DEF TypeInv, TypeOK, Current
  <2>2. files[1] \in Seq(Line) /\ files[1] = f
    BY <1>1, <2>1 DEF Current
  <2>3. QED
    BY <2>2, LenProperties DEF Length
<1>3. Length(1) = written
  BY <1>1, <1>2
<1>4. \A i \in 1..written : files[1][i] = i
  BY <1>1
<1>5. QED
  BY <1>1, <1>3, <1>4 DEF ReadInv, SettledUpTo

LEMMA ReadStep ==
    ASSUME TypeInv, ReadInv, [Next]_vars
    PROVE  ReadInv'
<1>1. \A i : Settled(i) => Settled(i)'
  BY SettledForEver
<1>2. CASE Rotate
  <2>1. Current' = Current + 1 /\ Current \in Nat \ {0}
    BY <1>2, FileFacts DEF Rotate, Current, TypeInv, TypeOK
  <2>2. QED
    BY <2>1 DEF ReadInv
<1>3. SUFFICES ASSUME Current = 1, Current' = 1, ~Rotate
               PROVE  ReadInv'
  <2>1. ~Rotate => Current' = Current
    <3>1. ~Rotate => UNCHANGED files \/ files' = [files EXCEPT ![Current] = Append(files[Current], written + 1)]
      BY DEF Next, Handle, Write, Request, ReadLength, CompareShrunk, CompareGrown, Seek, ReadLine,
             Mark, Take, Fails, OpenFails, ReadFails, PrintStackTrace, vars, log
    <3>2. files \in Seq(Seq(Line)) /\ Current \in Nat
      BY FileFacts DEF TypeInv, TypeOK
    <3>3. QED
      BY <3>1, <3>2 DEF Current
  <2>2. QED
    BY <1>2, <2>1 DEF ReadInv
<1>4. /\ Length(1) = written /\ (\A i \in 1..written : files[1][i] = i)
      /\ lastTimeFileSize <= written /\ SettledUpTo(lastTimeFileSize)
      /\ written \in Nat /\ lastTimeFileSize \in Nat
  BY <1>3 DEF ReadInv, TypeInv, TypeOK
<1>5. \A p \in Poller :
        /\ size[p] \in Nat /\ size[p] <= written
        /\ handle[p].file = 1 /\ handle[p].next \in Nat \ {0}
        /\ pc[p] = "read" => SettledUpTo(handle[p].next - 1)
        /\ pc[p] = "mark" => SettledUpTo(written)
        /\ pc[p] \in Pcs
  BY <1>3, FileFacts DEF ReadInv, TypeInv, TypeOK
<1>6. pc \in [Poller -> Pcs] /\ size \in [Poller -> 0..MaxLines] /\ handle \in [Poller -> Handles]
  BY DEF TypeInv, TypeOK
<1>7. CASE Write
  <2>1. /\ UNCHANGED <<lastTimeFileSize, query, pc, size, handle, taken>>
        /\ written' = written + 1
        /\ files' = [files EXCEPT ![1] = Append(files[1], written + 1)]
    BY <1>3, <1>7 DEF Write, static, local
  <2>2. files \in Seq(Seq(Line)) /\ 1 \in 1..Len(files) /\ files[1] \in Seq(Line)
    BY <1>3, FileFacts DEF TypeInv, TypeOK, Current
  <2>3. files'[1] = Append(files[1], written + 1)
    BY <2>1, <2>2
  <2>4. Length(1)' = written' /\ \A i \in 1..written' : files'[1][i] = i
    <3>1. Len(files[1]) = written
      BY <1>4 DEF Length
    <3>2. QED
      BY <1>4, <2>1, <2>2, <2>3, <3>1 DEF Length
  <2>5. ASSUME NEW p \in Poller, pc[p] = "mark" PROVE SettledUpTo(written)'
    <3>1. written + 1 \in late'
      BY <1>3, <1>5, <1>7, <2>5 DEF Write
    <3>2. \A e : e = written + 1 => Settled(e)'
      BY <2>1, <3>1 DEF Settled
    <3>3. \A i \in 1..written : Settled(i)'
      BY <1>1, <1>5, <2>5 DEF SettledUpTo
    <3>4. QED
      BY <1>4, <2>1, <3>2, <3>3 DEF SettledUpTo
  <2>6. QED
    BY <1>1, <1>4, <1>5, <2>1, <2>4, <2>5 DEF ReadInv, SettledUpTo
<1>8. ASSUME UNCHANGED <<files, written>>,
             lastTimeFileSize' <= written, SettledUpTo(lastTimeFileSize'),
             \A p \in Poller :
                /\ size'[p] <= written
                /\ pc'[p] = "read" => \/ pc[p] = "read" /\ handle'[p] = handle[p]
                                      \/ SettledUpTo(handle[p].next - 1)'
                /\ pc'[p] = "mark" => SettledUpTo(written)
      PROVE  ReadInv'
  <2>1. SettledUpTo(lastTimeFileSize)' /\ (\A p \in Poller : pc'[p] = "mark" => SettledUpTo(written)')
    BY <1>1, <1>8 DEF SettledUpTo
  <2>2. \A p \in Poller : pc'[p] = "read" => SettledUpTo(handle[p].next - 1)'
    BY <1>1, <1>5, <1>8 DEF SettledUpTo
  <2>3. Length(1)' = written' /\ \A i \in 1..written' : files'[1][i] = i
    BY <1>4, <1>8 DEF Length
  <2>4. QED
    BY <1>8, <2>1, <2>2, <2>3 DEF ReadInv
<1>9. ASSUME NEW p \in Poller, Request(p) PROVE ReadInv'
  <2>1. UNCHANGED <<files, written, lastTimeFileSize, size, handle>> /\ pc' = [pc EXCEPT ![p] = "length"]
    BY <1>9 DEF Request, log, static
  <2>2. QED
    BY <1>4, <1>5, <1>6, <1>8, <2>1
<1>10. ASSUME NEW p \in Poller, ReadLength(p) PROVE ReadInv'
  <2>1. /\ UNCHANGED <<files, written, lastTimeFileSize, handle>>
        /\ pc' = [pc EXCEPT ![p] = "shrunk"] /\ size' = [size EXCEPT ![p] = written]
    BY <1>3, <1>4, <1>10 DEF ReadLength, log, static
  <2>2. QED
    BY <1>4, <1>5, <1>6, <1>8, <2>1
<1>11. ASSUME NEW p \in Poller, CompareShrunk(p) PROVE ReadInv'
  <2>1. /\ UNCHANGED <<files, written, size, handle>>
        /\ lastTimeFileSize' = lastTimeFileSize \/ (size[p] < lastTimeFileSize /\ lastTimeFileSize' = size[p])
        /\ pc' = [pc EXCEPT ![p] = "take"] \/ pc' = [pc EXCEPT ![p] = "grown"]
    BY <1>11 DEF CompareShrunk, log
  <2>2. lastTimeFileSize' <= written /\ SettledUpTo(lastTimeFileSize')
    BY <1>4, <1>5, <2>1 DEF SettledUpTo
  <2>3. QED
    BY <1>4, <1>5, <1>6, <1>8, <2>1, <2>2
<1>12. ASSUME NEW p \in Poller, CompareGrown(p) PROVE ReadInv'
  <2>1. /\ UNCHANGED <<files, written, lastTimeFileSize, size, handle>>
        /\ pc' = [pc EXCEPT ![p] = "seek"] \/ pc' = [pc EXCEPT ![p] = "take"]
    BY <1>12 DEF CompareGrown, log, static
  <2>2. QED
    BY <1>4, <1>5, <1>6, <1>8, <2>1
<1>13. ASSUME NEW p \in Poller, Seek(p) PROVE ReadInv'
  <2>1. /\ UNCHANGED <<files, written, lastTimeFileSize, size>>
        /\ pc' = [pc EXCEPT ![p] = "read"]
        /\ \A q \in Poller : q # p => handle'[q] = handle[q]
        /\ handle'[p].next = lastTimeFileSize + 1
    BY <1>6, <1>13 DEF Seek, log, static
  <2>2. SettledUpTo(handle[p].next - 1)'
    BY <1>1, <1>4, <2>1 DEF SettledUpTo
  <2>3. QED
    BY <1>4, <1>5, <1>6, <1>8, <2>1, <2>2
<1>14. ASSUME NEW p \in Poller, ReadLine(p) PROVE ReadInv'
  <2>1. UNCHANGED <<files, written, lastTimeFileSize>> /\ Len(files[1]) = written
    BY <1>4, <1>14 DEF ReadLine, log, Length
  <2>2. CASE handle[p].next > written /\ pc' = [pc EXCEPT ![p] = "mark"] /\ UNCHANGED <<size, handle>>
    <3>1. SettledUpTo(written)
      BY <1>4, <1>5, <1>14, <2>2 DEF ReadLine, SettledUpTo
    <3>2. QED
      BY <1>4, <1>5, <1>6, <1>8, <2>1, <2>2, <3>1
  <2>3. CASE /\ handle[p].next <= written /\ query' = Append(query, files[1][handle[p].next])
             /\ handle' = [handle EXCEPT ![p].next = handle[p].next + 1]
             /\ UNCHANGED <<pc, size>>
    <3> DEFINE i == handle[p].next
    <3>1. query' = Append(query, i) /\ query \in Seq(Line) /\ i \in Nat \ {0}
      BY <1>4, <1>5, <2>3 DEF TypeInv, TypeOK
    <3>2. \A e : e = i => Settled(e)'
      <4>1. Len(query') = Len(query) + 1 /\ query'[Len(query) + 1] = i /\ Len(query) \in Nat
        BY <3>1
      <4>2. QED
        BY <4>1 DEF Settled, Queued
    <3>3. \A k \in 1..(i - 1) : Settled(k)'
      BY <1>1, <1>5, <1>14 DEF ReadLine, SettledUpTo
    <3>4. handle'[p].next = i + 1 /\ \A q \in Poller : q # p => handle'[q] = handle[q]
      BY <1>6, <2>3 DEF Handles
    <3>5. SettledUpTo(handle[p].next - 1)'
      BY <3>1, <3>2, <3>3, <3>4 DEF SettledUpTo
    <3>6. QED
      BY <1>4, <1>5, <1>6, <1>8, <2>1, <2>3, <3>4, <3>5
  <2>4. CASE Answered(p)
    BY <1>4, <1>5, <1>6, <1>8, <2>1, <2>4 DEF Answered
  <2>5. QED
    BY <1>5, <1>14, <2>1, <2>2, <2>3, <2>4 DEF ReadLine
<1>15. ASSUME NEW p \in Poller, Mark(p) PROVE ReadInv'
  <2>1. /\ UNCHANGED <<files, written, size, handle>>
        /\ lastTimeFileSize' = written /\ pc' = [pc EXCEPT ![p] = "take"] /\ pc[p] = "mark"
    BY <1>4, <1>5, <1>15 DEF Mark, log
  <2>2. QED
    BY <1>4, <1>5, <1>6, <1>8, <2>1
<1>16. ASSUME NEW p \in Poller, Take(p) PROVE ReadInv'
  <2>1. UNCHANGED <<files, written, lastTimeFileSize>> /\ Answered(p)
    BY <1>16 DEF Take, log
  <2>2. QED
    BY <1>4, <1>5, <1>6, <1>8, <2>1 DEF Answered
<1>17. ASSUME NEW p \in Poller, Fails(p) \/ PrintStackTrace(p) PROVE ReadInv'
  <2>1. /\ UNCHANGED <<files, written, lastTimeFileSize, size, handle>>
        /\ pc' = [pc EXCEPT ![p] = "caught"] \/ pc' = [pc EXCEPT ![p] = "take"]
    BY <1>17 DEF Fails, OpenFails, ReadFails, PrintStackTrace, log, static
  <2>2. QED
    BY <1>4, <1>5, <1>6, <1>8, <2>1
<1>18. CASE UNCHANGED vars
  BY <1>4, <1>5, <1>8, <1>18 DEF vars, log, static, local
<1>19. QED
  BY <1>3, <1>7, <1>9, <1>10, <1>11, <1>12, <1>13, <1>14, <1>15, <1>16, <1>17, <1>18 DEF Next, Handle

\* However many requests overlap, fail or are answered in whatever order: until
\* the log is rotated no line below the offset is lost but those that were
\* written between the end a thread had read up to and its call of length().
THEOREM OnlyLateLinesLostHolds == Spec => []OnlyLateLinesLost
<1>1. TypeInv /\ TypeInv' /\ ReadInv /\ [Next]_vars => ReadInv'
  BY ReadStep
<1>2. ReadInv => OnlyLateLinesLost
  BY DEF ReadInv, OnlyLateLinesLost, SettledUpTo, Settled
<1>3. QED
  BY <1>1, <1>2, ReadInit, TypeInvariance, PTL DEF Spec

-----------------------------------------------------------------------------
(* Requests that do not overlap answer the lines in their order.           *)

\* The lines of a file, and of one file after the other, are numbered upwards.
Upwards ==
    /\ \A g \in 1..Current : \A k \in 1..Length(g) : files[g][k] <= written
    /\ \A g, h \in 1..Current : \A k \in 1..Length(g), l \in 1..Length(h) :
          g < h \/ (g = h /\ k < l) => files[g][k] < files[h][l]

\* Line i is newer than all that were answered or are queued; so are all lines of
\* file g from the n-th on.
Above(i) == newest < i /\ \A j \in 1..Len(query) : query[j] < i
Fresh(g, n) == \A k \in 1..Len(files[g]) : k >= n => Above(files[g][k])

Sorted ==
    /\ \A i, j \in 1..Len(query) : i < j => query[i] < query[j]
    /\ \A j \in 1..Len(query) : newest < query[j]
    /\ Above(written + 1)

\* What is read next is fresh: for a thread that reads, from its place in the file
\* on and in all later files; else from the offset on, or the whole file if it is
\* shorter than the offset, which is what a thread that finds it so relies on.
OneRuns == \A p, q \in Poller : Running(p) /\ Running(q) => p = q
Reads(p) == pc[p] \in {"read", "mark"}
OffsetFresh ==
    /\ Fresh(Current, lastTimeFileSize + 1)
    /\ lastTimeFileSize > Length(Current) => Fresh(Current, 1)
ThreadFresh(p) ==
    /\ pc[p] = "shrunk" /\ size[p] < lastTimeFileSize => Fresh(Current, 1)
    /\ pc[p] = "read" => Fresh(handle[p].file, handle[p].next)
    /\ Reads(p) => \A g \in 1..Current : g > handle[p].file => Fresh(g, 1)

InTurn ==
    /\ Sorted /\ OneRuns
    /\ (\A p \in Poller : ~Reads(p)) => OffsetFresh
    /\ \A p \in Poller : ThreadFresh(p)
OrderInv == ~failed /\ ~broken /\ ~shared => InTurn

\* A file the log is written to gets one line, newer than all; a new one has none.
LEMMA LogStep ==
    ASSUME TypeInv, Write \/ Rotate
    PROVE  /\ Current' \in Nat /\ written' \in Nat /\ written <= written'
           /\ \A g \in 1..Current' : /\ Length(g)' \in Nat
                                     /\ g \in 1..Current => Length(g) <= Length(g)'
                                     /\ g \notin 1..Current => Length(g)' = 0
           /\ \A g \in 1..Current' : \A k \in 1..Length(g)' :
                 \/ g \in 1..Current /\ k \in 1..Length(g) /\ files'[g][k] = files[g][k]
                 \/ g = Current /\ Current' = Current /\ k = Length(g)'
                    /\ Length(g)' = Length(g) + 1 /\ files'[g][k] = written + 1 /\ written' = written + 1
<1>1. /\ files \in Seq(Seq(Line)) /\ Current \in Nat \ {0} /\ written \in Nat /\ Current = Len(files)
      /\ \A g \in 1..Current : files[g] \in Seq(Line) /\ Length(g) \in Nat /\ Length(g) = Len(files[g])
  BY FileFacts DEF TypeInv, TypeOK, Current, Length
<1>2. CASE Write
  <2>1. written' = written + 1 /\ files' = [files EXCEPT ![Current] = Append(files[Current], written + 1)]
    BY <1>2 DEF Write
  <2>2. /\ Len(files') = Current
        /\ \A g \in 1..Current : files'[g] = IF g = Current THEN Append(files[g], written + 1) ELSE files[g]
    BY <1>1, <2>1
  <2>3. Current' = Current /\ \A g : Length(g)' = Len(files'[g])
    BY <2>2 DEF Current, Length
  <2>4. /\ Len(files'[Current]) = Length(Current) + 1
        /\ \A k \in 1..Len(files'[Current]) :
              files'[Current][k] = IF k \in 1..Length(Current) THEN files[Current][k] ELSE written + 1
    <3> DEFINE f == files[Current]
               e == written + 1
    <3>1. Current \in 1..Current
      BY <1>1
    <3>2. files'[Current] = Append(f, e) /\ f \in Seq(Line) /\ Len(f) = Length(Current)
      BY <1>1, <2>2, <3>1
    <3> HIDE DEF f, e
    <3>3. Len(Append(f, e)) = Len(f) + 1 /\ Len(f) \in Nat
          /\ \A k \in 1..(Len(f) + 1) : Append(f, e)[k] = IF k \in 1..Len(f) THEN f[k] ELSE e
      BY <3>2
    <3> QED
      BY <3>2, <3>3 DEF f, e
  <2>5. ASSUME NEW g \in 1..Current'
        PROVE  /\ Length(g)' \in Nat /\ Length(g) <= Length(g)'
               /\ \A k \in 1..Length(g)' :
                     \/ k \in 1..Length(g) /\ files'[g][k] = files[g][k]
                     \/ g = Current /\ k = Length(g)' /\ Length(g)' = Length(g) + 1
                        /\ files'[g][k] = written + 1
    <3>1. CASE g = Current
      BY <1>1, <2>3, <2>4, <2>5, <3>1
    <3>2. CASE g # Current
      BY <1>1, <2>2, <2>3, <2>5, <3>2
    <3> QED
      BY <3>1, <3>2
  <2> QED
    BY <1>1, <2>1, <2>3, <2>5
<1>3. CASE Rotate
  <2>1. files' = Append(files, << >>) /\ UNCHANGED written
    BY <1>3 DEF Rotate
  <2>2. Len(files') = Current + 1
        /\ \A g \in 1..(Current + 1) : files'[g] = IF g = Current + 1 THEN << >> ELSE files[g]
    BY <1>1, <2>1
  <2>3. Current' = Current + 1
    BY <2>2 DEF Current
  <2>4. \A g \in 1..Current : files'[g] = files[g] /\ Length(g)' = Length(g)
    BY <1>1, <2>2 DEF Length
  <2>5. \A g : g = Current + 1 => Length(g)' = 0
    BY <1>1, <2>2 DEF Length
  <2>6. \A g \in 1..Current' : g \in 1..Current \/ g = Current + 1
    BY <1>1, <2>3
  <2> QED
    BY <1>1, <2>1, <2>3, <2>4, <2>5, <2>6
<1> QED
  BY <1>2, <1>3

LEMMA UpwardsStep == ASSUME TypeInv, Upwards, [Next]_vars PROVE Upwards'
<1>1. ASSUME UNCHANGED <<files, written>> PROVE Upwards'
  BY <1>1 DEF Upwards, Current, Length
<1>2. CASE Write \/ Rotate
  <2>1. /\ written' \in Nat /\ written <= written' /\ written \in Nat
        /\ \A g \in 1..Current : Length(g) \in Nat /\ files[g] \in Seq(Line)
    <3>1. written' \in Nat /\ written <= written'
      BY <1>2, LogStep
    <3> QED
      BY <3>1, FileFacts
  <2>2. \A g \in 1..Current : \A k \in 1..Length(g) : files[g][k] \in Nat /\ files[g][k] <= written
    <3>1. \A g \in 1..Current : \A k \in 1..Length(g) : files[g][k] \in Line
      BY <2>1 DEF Length
    <3> QED
      BY <3>1 DEF Upwards, Line
  <2>3. ASSUME NEW g \in 1..Current', NEW k \in 1..Length(g)' PROVE files'[g][k] <= written'
    <3>1. CASE g \in 1..Current /\ k \in 1..Length(g) /\ files'[g][k] = files[g][k]
      BY <2>1, <2>2, <3>1
    <3>2. CASE files'[g][k] = written + 1 /\ written' = written + 1
      BY <2>1, <3>2
    <3> QED
      BY <1>2, <2>3, <3>1, <3>2, LogStep
  <2>4. ASSUME NEW g \in 1..Current', NEW h \in 1..Current',
               NEW k \in 1..Length(g)', NEW l \in 1..Length(h)',
               g < h \/ (g = h /\ k < l)
        PROVE  files'[g][k] < files'[h][l]
    <3>1. CASE h \in 1..Current /\ l \in 1..Length(h) /\ files'[h][l] = files[h][l]
      <4>1. g \in 1..Current /\ k \in 1..Length(g) /\ files'[g][k] = files[g][k]
        <5>1. g \in 1..Current /\ g <= h /\ Length(g) \in Nat
          BY <2>1, <2>4, <3>1, FileFacts
        <5>2. g = h => k \in 1..Length(g)
          BY <2>4, <3>1, <5>1
        <5>3. g < h => g # Current
          BY <3>1, <5>1, FileFacts
        <5>4. g = Current /\ k = Length(g)' /\ Length(g)' = Length(g) + 1 => FALSE
          BY <5>1, <5>2, <5>3
        <5> QED
          BY <1>2, <2>4, <5>4, LogStep
      <4> QED
        BY <2>4, <3>1, <4>1 DEF Upwards
    <3>2. CASE h = Current /\ Current' = Current /\ l = Length(h)' /\ Length(h)' = Length(h) + 1
               /\ files'[h][l] = written + 1
      <4>1. g \in 1..Current /\ k \in 1..Length(g) /\ files'[g][k] = files[g][k]
        BY <1>2, <2>1, <2>4, <3>2, LogStep
      <4> QED
        BY <2>1, <2>2, <3>2, <4>1
    <3> QED
      BY <1>2, <3>1, <3>2, LogStep
  <2> QED
    BY <2>3, <2>4 DEF Upwards
<1>3. ASSUME NEW p \in Poller, Request(p) \/ Handle(p) \/ Fails(p) PROVE UNCHANGED <<files, written>>
  BY <1>3 DEF Handle, Fails, Request, ReadLength, CompareShrunk, CompareGrown, Seek, ReadLine, Mark, Take,
     OpenFails, ReadFails, PrintStackTrace, log
<1>4. CASE UNCHANGED vars
  BY <1>1, <1>4 DEF vars, log
<1> QED
  BY <1>1, <1>2, <1>3, <1>4 DEF Next

\* Steps that leave the log, the queue and the answers alone leave fresh what was.
LEMMA FreshSame ==
    ASSUME UNCHANGED <<files, written, newest, query>>
    PROVE  /\ Current' = Current /\ \A g : Length(g)' = Length(g)
           /\ \A g, n : Fresh(g, n) => Fresh(g, n)'
           /\ Sorted => Sorted'
<1>1. Current' = Current /\ \A g : Length(g)' = Length(g)
  BY DEF Current, Length
<1>2. \A i : Above(i)' <=> Above(i)
  BY DEF Above
<1>3. \A g, n : Fresh(g, n) => Fresh(g, n)'
  BY <1>1, <1>2 DEF Fresh
<1>4. Sorted => Sorted'
  BY <1>2 DEF Sorted
<1> QED
  BY <1>1, <1>3, <1>4

LEMMA Between ==
    /\ \A v, w, n \in Nat : v < w /\ w < n => v < n
    /\ \A v, w \in Nat : v <= w => w + 1 \in Nat /\ v < w + 1
  OBVIOUS

LEMMA StillLess == \A v, w, n \in Nat : v <= w /\ n < v + 1 => n < w + 1
  OBVIOUS

\* So do steps of the log: the line they write is newer than all.
LEMMA FreshLog ==
    ASSUME TypeInv, Sorted, Write \/ Rotate
    PROVE  /\ Sorted'
           /\ \A g \in 1..Current' : \A n :
                 (g \in 1..Current => Fresh(g, n)) =>
                     \A k \in 1..Len(files'[g]) : k >= n => Above(files'[g][k])
<1>1. UNCHANGED <<newest, query>> /\ written <= written' /\ written \in Nat /\ written' \in Nat
      /\ newest \in Nat /\ query \in Seq(Line)
  <2>1. UNCHANGED <<newest, query>>
    BY DEF Write, Rotate, static, history
  <2>2. written <= written' /\ written' \in Nat
    BY LogStep
  <2> QED
    BY <2>1, <2>2, FileFacts DEF TypeInv, TypeOK
<1>2. \A i : Above(i)' <=> Above(i)
  BY <1>1 DEF Above
<1>3. Above(written' + 1)
  <2>1. \A j \in 1..Len(query) : query[j] \in Nat
    BY <1>1, BoundsAssumption DEF Line
  <2>2. newest < written + 1 /\ \A j \in 1..Len(query) : query[j] < written + 1
    BY DEF Sorted, Above
  <2>3. \A n \in Nat : n < written + 1 => n < written' + 1
    BY <1>1, StillLess
  <2> QED
    BY <1>1, <2>1, <2>2, <2>3 DEF Above
<1>4. Sorted'
  BY <1>1, <1>2, <1>3 DEF Sorted
<1>5. ASSUME NEW g \in 1..Current', NEW n, NEW k \in 1..Len(files'[g]), k >= n,
             g \in 1..Current => Fresh(g, n)
      PROVE  Above(files'[g][k])
  <2>1. Length(g)' = Len(files'[g]) /\ Length(g) = Len(files[g])
    BY DEF Length
  <2>2. CASE g \in 1..Current /\ k \in 1..Length(g) /\ files'[g][k] = files[g][k]
    BY <1>5, <2>1, <2>2 DEF Fresh
  <2>3. CASE files'[g][k] = written + 1
    BY <2>3 DEF Sorted
  <2> QED
    BY <1>5, <2>1, <2>2, <2>3, LogStep
<1> QED
  BY <1>4, <1>5

LEMMA OrderLog == ASSUME TypeInv, InTurn, Write \/ Rotate PROVE InTurn'
<1>1. UNCHANGED <<lastTimeFileSize, query, pc, size, handle, newest, failed, broken, shared>>
  BY DEF Write, Rotate, static, local, history
<1>2. Sorted /\ OneRuns /\ ((\A p \in Poller : ~Reads(p)) => OffsetFresh) /\ \A p \in Poller : ThreadFresh(p)
  BY DEF InTurn
<1>3. Sorted'
  BY <1>2, FreshLog
<1>4. OneRuns'
  BY <1>1, <1>2 DEF OneRuns, Running
<1>5. \A p : Reads(p)' <=> Reads(p)
  BY <1>1 DEF Reads
<1>6. /\ Current \in Nat \ {0} /\ Current' \in Nat \ {0} /\ lastTimeFileSize \in Nat
      /\ \A p \in Poller : handle[p].file \in 1..Current /\ handle[p].file \in 1..Current'
      /\ Current <= Current'
  <2>1. /\ files \in Seq(Seq(Line)) /\ Current \in Nat \ {0} /\ lastTimeFileSize \in Nat
        /\ \A p \in Poller : handle[p].file \in 1..Current
    BY FileFacts DEF TypeInv, TypeOK
  <2>2. Current <= Current' /\ Current' \in Nat
    <3>1. CASE Write
      BY <2>1, <3>1 DEF Write, Current
    <3>2. CASE Rotate
      BY <2>1, <3>2 DEF Rotate, Current
    <3> QED
      BY <3>1, <3>2
  <2> QED
    BY <2>1, <2>2
<1>7. \A g \in 1..Current' : \A n :
        (g \in 1..Current => Fresh(g, n)) =>
            \A k \in 1..Len(files'[g]) : k >= n => Above(files'[g][k])
  BY <1>2, FreshLog
<1>8. \A n : (Current' = Current => Fresh(Current, n)) => Fresh(Current, n)'
  <2>1. Current' \in 1..Current' /\ (Current' \in 1..Current => Current' = Current)
    BY <1>6
  <2> QED
    BY <1>1, <1>7, <2>1 DEF Fresh, Above
<1>9. (\A p \in Poller : ~Reads(p)) => OffsetFresh'
  <2> SUFFICES ASSUME OffsetFresh PROVE OffsetFresh'
    BY <1>2
  <2>1. Current' = Current => Length(Current) \in Nat /\ Length(Current)' \in Nat
                             /\ Length(Current) <= Length(Current)'
    BY <1>6, LogStep, FileFacts
  <2> QED
    BY <1>1, <1>6, <1>8, <2>1 DEF OffsetFresh
<1>10. ASSUME NEW p \in Poller PROVE ThreadFresh(p)'
  <2>1. pc[p] = "shrunk" /\ size[p] < lastTimeFileSize => Fresh(Current, 1)'
    BY <1>2, <1>8 DEF ThreadFresh
  <2>2. pc[p] = "read" => Fresh(handle[p].file, handle[p].next)'
    <3> SUFFICES ASSUME Fresh(handle[p].file, handle[p].next)
                 PROVE  Fresh(handle[p].file, handle[p].next)'
      BY <1>2 DEF ThreadFresh
    <3> QED
      BY <1>1, <1>6, <1>7 DEF Fresh, Above
  <2>3. Reads(p) => \A g \in 1..Current' : g > handle[p].file => Fresh(g, 1)'
    <3> SUFFICES ASSUME Reads(p), NEW g \in 1..Current', g > handle[p].file
                 PROVE  Fresh(g, 1)'
      OBVIOUS
    <3>1. g \in 1..Current => Fresh(g, 1)
      BY <1>2 DEF ThreadFresh
    <3> QED
      BY <1>1, <1>7, <3>1 DEF Fresh, Above
  <2> QED
    BY <1>1, <1>5, <2>1, <2>2, <2>3 DEF ThreadFresh
<1> QED
  BY <1>3, <1>4, <1>5, <1>9, <1>10 DEF InTurn

\* A thread in run is the only one: what the others need is nothing.
LEMMA OrderRun ==
    ASSUME TypeInv, OneRuns, NEW p \in Poller, NEW x \in Pcs, pc' = [pc EXCEPT ![p] = x],
           Running(p) \/ \A q \in Poller : ~Running(q),
           Sorted', x \notin {"read", "mark"} => OffsetFresh', ThreadFresh(p)'
    PROVE  InTurn'
<1>1. pc \in [Poller -> Pcs]
  BY DEF TypeInv, TypeOK
<1>2. pc'[p] = x /\ \A q \in Poller : q # p => pc'[q] = pc[q] /\ pc[q] \in {"idle", "take"}
  BY <1>1 DEF OneRuns, Running, Pcs
<1>3. OneRuns'
  BY <1>2 DEF OneRuns, Running
<1>4. \A q \in Poller : q # p => ThreadFresh(q)'
  BY <1>2 DEF ThreadFresh, Reads
<1>5. (\A q \in Poller : ~Reads(q)') => OffsetFresh'
  BY <1>2 DEF Reads
<1> QED
  BY <1>3, <1>4, <1>5 DEF InTurn

LEMMA OrderThread ==
    ASSUME TypeInv, Upwards, InTurn, NEW p \in Poller,
           Request(p) => \A q \in Poller : ~Running(q), ReadLine(p) => pc'[p] # "idle",
           \/ Request(p) \/ ReadLength(p) \/ CompareShrunk(p) \/ CompareGrown(p)
           \/ Seek(p) \/ ReadLine(p) \/ Mark(p) \/ OpenFails(p) \/ PrintStackTrace(p)
    PROVE  InTurn'
<1>1. Sorted /\ OneRuns /\ ((\A q \in Poller : ~Reads(q)) => OffsetFresh) /\ ThreadFresh(p)
  BY DEF InTurn
<1>2. /\ pc \in [Poller -> Pcs] /\ handle \in [Poller -> Handles] /\ size \in [Poller -> 0..MaxLines]
      /\ lastTimeFileSize \in Nat /\ files \in Seq(Seq(Line)) /\ query \in Seq(Line)
      /\ newest \in Nat /\ Current \in Nat \ {0} /\ written \in Nat
      /\ \A g \in 1..Current : files[g] \in Seq(Line) /\ Length(g) \in Nat
      /\ handle[p].file \in 1..Current /\ handle[p].next \in Nat \ {0} /\ size[p] \in Nat
  BY FileFacts DEF TypeInv, TypeOK
<1>3. Running(p) => \A q \in Poller : q # p => ~Reads(q)
  BY <1>1 DEF OneRuns, Running, Reads
<1>4. CASE Request(p)
  <2>1. /\ pc' = [pc EXCEPT ![p] = "length"] /\ \A q \in Poller : ~Running(q)
        /\ UNCHANGED <<files, written, lastTimeFileSize, query, newest>>
    BY <1>4 DEF Request, log, static
  <2>2. OffsetFresh'
    BY <1>1, <2>1 DEF OffsetFresh, Fresh, Above, Current, Length, Running, Reads
  <2>3. ThreadFresh(p)'
    BY <1>2, <2>1 DEF ThreadFresh, Reads
  <2> QED
    BY <1>1, <2>1, <2>2, <2>3, FreshSame, OrderRun DEF Pcs
<1>5. CASE ReadLength(p)
  <2>1. /\ pc[p] = "length" /\ pc' = [pc EXCEPT ![p] = "shrunk"]
        /\ size' = [size EXCEPT ![p] = Length(Current)]
        /\ UNCHANGED <<files, written, lastTimeFileSize, query, newest>>
    BY <1>5 DEF ReadLength, log, static, history
  <2>2. Running(p) /\ ~Reads(p)
    BY <2>1 DEF Running, Reads
  <2>3. OffsetFresh
    BY <1>1, <1>3, <2>2
  <2>4. OffsetFresh'
    BY <2>1, <2>3 DEF OffsetFresh, Fresh, Above, Current, Length
  <2>5. ThreadFresh(p)'
    <3>1. pc'[p] = "shrunk" /\ size'[p] = Length(Current)
      BY <1>2, <2>1
    <3>2. Length(Current) < lastTimeFileSize => Fresh(Current, 1)
      <4>1. Length(Current) \in Nat
        BY <1>2
      <4> QED
        BY <1>2, <2>3, <4>1 DEF OffsetFresh
    <3>3. Length(Current) < lastTimeFileSize => Fresh(Current, 1)'
      BY <2>1, <3>2 DEF Fresh, Above, Current
    <3> QED
      BY <2>1, <3>1, <3>3 DEF ThreadFresh, Reads
  <2> QED
    BY <1>1, <2>1, <2>2, <2>4, <2>5, FreshSame, OrderRun DEF Pcs
<1>6. CASE CompareShrunk(p)
  <2>1. /\ pc[p] = "shrunk" /\ UNCHANGED <<files, written, query, newest>>
        /\ \/ size[p] < lastTimeFileSize /\ lastTimeFileSize' = size[p] /\ pc' = [pc EXCEPT ![p] = "take"]
           \/ UNCHANGED lastTimeFileSize /\ pc' = [pc EXCEPT ![p] = "grown"]
    BY <1>6 DEF CompareShrunk, log, history
  <2>2. Running(p) /\ ~Reads(p)
    BY <2>1 DEF Running, Reads
  <2>3. OffsetFresh
    BY <1>1, <1>3, <2>2
  <2>4. OffsetFresh'
    <3>1. CASE UNCHANGED lastTimeFileSize
      BY <2>1, <2>3, <3>1 DEF OffsetFresh, Fresh, Above, Current, Length
    <3>2. CASE size[p] < lastTimeFileSize /\ lastTimeFileSize' = size[p]
      <4>1. Fresh(Current, 1)
        BY <1>1, <2>1, <3>2 DEF ThreadFresh
      <4>2. Fresh(Current, size[p] + 1)
        BY <1>2, <4>1 DEF Fresh
      <4> QED
        BY <2>1, <3>2, <4>1, <4>2 DEF OffsetFresh, Fresh, Above, Current, Length
    <3> QED
      BY <2>1, <3>1, <3>2
  <2>5. pc'[p] \in {"take", "grown"}
    BY <1>2, <2>1
  <2>6. ThreadFresh(p)'
    BY <2>5 DEF ThreadFresh, Reads
  <2> QED
    BY <1>1, <2>1, <2>2, <2>4, <2>6, FreshSame, OrderRun DEF Pcs
<1>7. CASE CompareGrown(p)
  <2>1. /\ pc[p] = "grown" /\ UNCHANGED <<files, written, lastTimeFileSize, query, newest>>
        /\ \E x \in {"seek", "take"} : pc' = [pc EXCEPT ![p] = x]
    BY <1>7 DEF CompareGrown, log, static, history
  <2>2. Running(p) /\ ~Reads(p)
    BY <2>1 DEF Running, Reads
  <2>3. OffsetFresh
    BY <1>1, <1>3, <2>2
  <2>4. OffsetFresh'
    BY <2>1, <2>3 DEF OffsetFresh, Fresh, Above, Current, Length
  <2>5. pc'[p] \in {"take", "seek"}
    BY <1>2, <2>1
  <2>6. ThreadFresh(p)'
    BY <2>5 DEF ThreadFresh, Reads
  <2> QED
    BY <1>1, <2>1, <2>2, <2>4, <2>6, FreshSame, OrderRun DEF Pcs
<1>8. CASE Seek(p)
  <2>1. /\ pc[p] = "seek" /\ UNCHANGED <<files, written, lastTimeFileSize, query, newest>>
        /\ handle' = [handle EXCEPT ![p] = [file |-> Current, next |-> lastTimeFileSize + 1]]
        /\ pc' = [pc EXCEPT ![p] = "read"]
    BY <1>8 DEF Seek, log, static, history
  <2>2. Running(p) /\ ~Reads(p)
    BY <2>1 DEF Running, Reads
  <2>3. OffsetFresh
    BY <1>1, <1>3, <2>2
  <2>4. pc'[p] = "read" /\ handle'[p].file = Current /\ handle'[p].next = lastTimeFileSize + 1
        /\ Current' = Current
    BY <1>2, <2>1 DEF Current
  <2>5. \A g \in 1..Current : ~(g > Current)
    BY <1>2
  <2>6. ThreadFresh(p)'
    <3>1. \A k \in 1..Len(files[Current]) : k >= lastTimeFileSize + 1 => Above(files[Current][k])
      BY <2>3 DEF OffsetFresh, Fresh
    <3>2. Fresh(handle[p].file, handle[p].next)'
      BY <2>1, <2>4, <3>1 DEF Fresh, Above
    <3>3. \A g \in 1..Current' : g > handle'[p].file => Fresh(g, 1)'
      BY <2>4, <2>5
    <3> QED
      BY <2>4, <3>2, <3>3 DEF ThreadFresh
  <2> QED
    BY <1>1, <2>1, <2>2, <2>6, FreshSame, OrderRun DEF Pcs
<1>9. CASE Mark(p)
  <2>1. /\ pc[p] = "mark" /\ UNCHANGED <<files, written, query, newest>>
        /\ lastTimeFileSize' = Length(handle[p].file) /\ pc' = [pc EXCEPT ![p] = "take"]
    BY <1>9 DEF Mark, log, history
  <2>2. Running(p) /\ Reads(p)
    BY <2>1 DEF Running, Reads
  <2>3. OffsetFresh'
    <3>1. Current' = Current /\ Length(Current)' = Length(Current)
      BY <2>1 DEF Current, Length
    <3>2. CASE handle[p].file = Current
      <4>1. lastTimeFileSize' = Length(Current) /\ Length(Current) \in Nat
        BY <1>2, <2>1, <3>2
      <4>2. \A k \in 1..Length(Current) : ~(k >= Length(Current) + 1)
        BY <4>1
      <4> QED
        BY <2>1, <3>1, <4>1, <4>2 DEF OffsetFresh, Fresh, Length
    <3>3. CASE handle[p].file # Current
      <4>1. Current \in 1..Current /\ Current > handle[p].file
        BY <1>2, <3>3
      <4>2. Fresh(Current, 1)
        BY <1>1, <2>2, <4>1 DEF ThreadFresh
      <4>3. Length(handle[p].file) \in Nat
        BY <1>2
      <4>4. Fresh(Current, Length(handle[p].file) + 1)
        BY <4>2, <4>3 DEF Fresh
      <4> QED
        BY <2>1, <3>1, <4>2, <4>4 DEF OffsetFresh, Fresh, Above, Length
    <3> QED
      BY <3>2, <3>3
  <2>4. pc'[p] = "take"
    BY <1>2, <2>1
  <2>5. ThreadFresh(p)'
    BY <2>4 DEF ThreadFresh, Reads
  <2> QED
    BY <1>1, <2>1, <2>2, <2>3, <2>5, FreshSame, OrderRun DEF Pcs
<1>10. CASE ReadLine(p)
  <2> DEFINE f == files[handle[p].file]
             i == handle[p].next
  <2>1. /\ pc[p] = "read" /\ UNCHANGED <<files, written, lastTimeFileSize, newest>>
        /\ \/ pc' = [pc EXCEPT ![p] = "mark"] /\ UNCHANGED <<query, handle>>
           \/ /\ i <= Len(f) /\ query' = Append(query, f[i])
              /\ handle' = [handle EXCEPT ![p].next = i + 1] /\ UNCHANGED pc
    BY <1>2, <1>10 DEF ReadLine, log, Answered
  <2>2. Running(p) /\ Reads(p)
    BY <2>1 DEF Running, Reads
  <2>3. Fresh(handle[p].file, i) /\ \A g \in 1..Current : g > handle[p].file => Fresh(g, 1)
    BY <1>1, <2>1, <2>2 DEF ThreadFresh
  <2>4. CASE pc' = [pc EXCEPT ![p] = "mark"] /\ UNCHANGED <<query, handle>>
    <3>1. pc'[p] = "mark"
      BY <1>2, <2>4
    <3>2. \A g \in 1..Current' : g > handle'[p].file => Fresh(g, 1)'
      BY <2>1, <2>3, <2>4 DEF Fresh, Above, Current
    <3>3. ThreadFresh(p)'
      BY <3>1, <3>2 DEF ThreadFresh
    <3> QED
      BY <1>1, <2>1, <2>2, <2>4, <3>3, FreshSame, OrderRun DEF Pcs
  <2>5. CASE /\ i <= Len(f) /\ query' = Append(query, f[i])
             /\ handle' = [handle EXCEPT ![p].next = i + 1] /\ UNCHANGED pc
    <3>1. /\ f \in Seq(Line) /\ i \in 1..Len(f) /\ f[i] \in Nat /\ f[i] <= written /\ Above(f[i])
          /\ Length(handle[p].file) = Len(f)
      <4>1. f \in Seq(Line) /\ i \in 1..Len(f) /\ Length(handle[p].file) = Len(f)
        BY <1>2, <2>5 DEF Length
      <4>2. f[i] \in Line
        BY <4>1
      <4>3. f[i] <= written
        <5>1. \A g \in 1..Current : \A k \in 1..Length(g) : files[g][k] <= written
          BY DEF Upwards
        <5>2. handle[p].file \in 1..Current
          BY <1>2
        <5> QED
          BY <4>1, <5>1, <5>2
      <4>4. Above(f[i])
        <5>1. \A k \in 1..Len(f) : k >= i => Above(f[k])
          BY <2>3 DEF Fresh
        <5>2. i >= i
          BY <1>2
        <5> HIDE DEF f, i
        <5> QED
          BY <4>1, <5>1, <5>2
      <4> QED
        BY <4>1, <4>2, <4>3, <4>4, BoundsAssumption DEF Line
    <3>2. /\ Len(query') = Len(query) + 1 /\ Len(query) \in Nat
          /\ \A j \in 1..Len(query) : query'[j] = query[j]
          /\ query'[Len(query) + 1] = f[i]
      BY <1>2, <2>5
    <3>3. \A e \in Nat : f[i] < e => Above(e)'
      <4> SUFFICES ASSUME NEW e \in Nat, f[i] < e PROVE Above(e)'
        OBVIOUS
      <4>1. newest < f[i] /\ \A j \in 1..Len(query) : query[j] < f[i]
        BY <3>1 DEF Above
      <4>2. newest < e
        <5>1. newest \in Nat /\ f[i] \in Nat
          BY <1>2, <3>1
        <5> QED
          BY <4>1, <5>1, Between
      <4>3. \A j \in 1..Len(query) : query[j] < e
        <5>1. \A j \in 1..Len(query) : query[j] \in Nat
          <6>1. query \in Seq(Line)
            BY <1>2
          <6> QED
            BY <6>1, BoundsAssumption DEF Line
        <5>2. f[i] \in Nat
          BY <3>1
        <5> QED
          BY <4>1, <5>1, <5>2, Between
      <4>4. \A j \in 1..Len(query') : query'[j] < e
        BY <3>2, <4>3
      <4> QED
        BY <2>1, <4>2, <4>4 DEF Above
    <3>4. Sorted'
      <4>1. newest < f[i] /\ \A j \in 1..Len(query) : query[j] < f[i]
        BY <3>1 DEF Above
      <4>2. \A j, k \in 1..Len(query') : j < k => query'[j] < query'[k]
        BY <1>1, <3>2, <4>1 DEF Sorted
      <4>3. \A j \in 1..Len(query') : newest < query'[j]
        BY <1>1, <3>2, <4>1 DEF Sorted
      <4>4. Above(written + 1)'
        <5>1. written + 1 \in Nat /\ f[i] < written + 1
          <6>1. written \in Nat /\ f[i] \in Nat /\ f[i] <= written
            BY <1>2, <3>1
          <6> QED
            BY <6>1, Between
        <5> QED
          BY <2>1, <3>3, <5>1 DEF Above
      <4> QED
        BY <2>1, <4>2, <4>3, <4>4 DEF Sorted
    <3>5. handle'[p].file = handle[p].file /\ handle'[p].next = i + 1 /\ pc'[p] = "read"
          /\ Current' = Current
      BY <1>2, <2>1, <2>5 DEF Handles, Current
    <3>6. ASSUME NEW g \in 1..Current, NEW k \in 1..Len(files[g]),
                 g > handle[p].file \/ (g = handle[p].file /\ k >= i + 1)
          PROVE  Above(files[g][k])'
      <4>1. files[g][k] \in Nat /\ Length(g) = Len(files[g])
        <5>1. files[g] \in Seq(Line) /\ Length(g) = Len(files[g])
          BY <1>2 DEF Length
        <5>2. files[g][k] \in Line
          BY <5>1
        <5> QED
          BY <5>1, <5>2, BoundsAssumption DEF Line
      <4>2. f[i] < files[g][k]
        <5> DEFINE h == handle[p].file
        <5>1. h \in 1..Current /\ i \in 1..Length(h) /\ k \in 1..Length(g)
          BY <1>2, <3>1, <4>1
        <5>2. h < g \/ (h = g /\ i < k)
          <6>1. h \in Nat /\ i \in Nat /\ k \in Nat
            BY <1>2, <3>6
          <6> QED
            BY <3>6, <6>1
        <5> HIDE DEF h, i
        <5>3. files[h][i] < files[g][k]
          BY <5>1, <5>2 DEF Upwards
        <5> QED
          BY <5>3 DEF h
      <4>3. \A e : e = files[g][k] => Above(e)'
        BY <3>3, <4>1, <4>2
      <4> QED
        BY <2>1, <4>3 DEF Above
    <3>7. Fresh(handle[p].file, handle[p].next)'
      BY <1>2, <2>1, <3>5, <3>6 DEF Fresh, Above
    <3>8. \A g \in 1..Current' : g > handle'[p].file => Fresh(g, 1)'
      BY <2>1, <3>5, <3>6 DEF Fresh, Above
    <3>9. ThreadFresh(p)'
      BY <3>5, <3>7, <3>8 DEF ThreadFresh
    <3>10. pc' = [pc EXCEPT ![p] = "read"]
      BY <1>2, <2>1, <2>5
    <3> QED
      BY <1>1, <2>2, <3>4, <3>9, <3>10, OrderRun DEF Pcs
  <2> QED
    BY <2>1, <2>4, <2>5
<1>11. CASE OpenFails(p) \/ PrintStackTrace(p)
  <2>1. /\ pc[p] \in {"seek", "caught"} /\ UNCHANGED <<files, written, lastTimeFileSize, query, newest>>
        /\ \E x \in {"caught", "take"} : pc' = [pc EXCEPT ![p] = x]
    BY <1>11 DEF OpenFails, PrintStackTrace, log, static, history
  <2>2. Running(p) /\ ~Reads(p)
    BY <2>1 DEF Running, Reads
  <2>3. OffsetFresh
    BY <1>1, <1>3, <2>2
  <2>4. OffsetFresh'
    BY <2>1, <2>3 DEF OffsetFresh, Fresh, Above, Current, Length
  <2>5. pc'[p] \in {"take", "caught"}
    BY <1>2, <2>1
  <2>6. ThreadFresh(p)'
    BY <2>5 DEF ThreadFresh, Reads
  <2> QED
    BY <1>1, <2>1, <2>2, <2>4, <2>6, FreshSame, OrderRun DEF Pcs
<1> QED
  BY <1>4, <1>5, <1>6, <1>7, <1>8, <1>9, <1>10, <1>11

\* The oldest line of the queue becomes the newest that is answered.
LEMMA OrderTake == ASSUME TypeInv, InTurn, NEW p \in Poller, Take(p) PROVE InTurn'
<1>1. /\ pc[p] = "take" /\ query # << >> /\ query' = Tail(query) /\ newest' = query[1]
      /\ pc' = [pc EXCEPT ![p] = "idle"] /\ size' = [size EXCEPT ![p] = 0]
      /\ handle' = [handle EXCEPT ![p] = NoHandle]
      /\ UNCHANGED <<files, written, lastTimeFileSize, failed, broken, shared>>
  BY DEF Take, Answered, log
<1>2. Sorted /\ OneRuns /\ ((\A q \in Poller : ~Reads(q)) => OffsetFresh) /\ \A q \in Poller : ThreadFresh(q)
  BY DEF InTurn
<1>3. query \in Seq(Line) /\ pc \in [Poller -> Pcs] /\ size \in [Poller -> 0..MaxLines]
      /\ handle \in [Poller -> Handles]
  BY DEF TypeInv, TypeOK
<1>4. /\ Len(query) \in Nat \ {0} /\ Len(query') = Len(query) - 1
      /\ \A j \in 1..Len(query') : query'[j] = query[j + 1]
  BY <1>1, <1>3, HeadTailProperties
<1>5. \A e : newest < e /\ (\A j \in 1..Len(query) : query[j] < e) =>
                 newest' < e /\ \A j \in 1..Len(query') : query'[j] < e
  BY <1>1, <1>4
<1>6. Sorted'
  <2>1. \A i, j \in 1..Len(query') : i < j => query'[i] < query'[j]
    <3> SUFFICES ASSUME NEW i \in 1..Len(query'), NEW j \in 1..Len(query'), i < j
                 PROVE  query'[i] < query'[j]
      OBVIOUS
    <3>1. i + 1 \in 1..Len(query) /\ j + 1 \in 1..Len(query) /\ i + 1 < j + 1
      BY <1>4
    <3> QED
      BY <1>2, <1>4, <3>1 DEF Sorted
  <2>2. \A j \in 1..Len(query') : newest' < query'[j]
    <3> SUFFICES ASSUME NEW j \in 1..Len(query') PROVE newest' < query'[j]
      OBVIOUS
    <3>1. 1 \in 1..Len(query) /\ j + 1 \in 1..Len(query) /\ 1 < j + 1
      BY <1>4
    <3> QED
      BY <1>1, <1>2, <1>4, <3>1 DEF Sorted
  <2>3. Above(written + 1)'
    BY <1>1, <1>2, <1>5 DEF Sorted, Above
  <2> QED
    BY <2>1, <2>2, <2>3 DEF Sorted
<1>7. Current' = Current /\ \A g : Len(files'[g]) = Len(files[g])
  BY <1>1 DEF Current
<1>8. \A g, n : Fresh(g, n) => \A k \in 1..Len(files'[g]) :
                                  k >= n => /\ newest' < files'[g][k]
                                            /\ \A j \in 1..Len(query') : query'[j] < files'[g][k]
  BY <1>1, <1>5 DEF Fresh, Above
<1>9. \A q \in Poller : /\ pc'[q] = "idle" \/ (q # p /\ pc'[q] = pc[q])
                        /\ q # p => size'[q] = size[q] /\ handle'[q] = handle[q]
  BY <1>1, <1>3
<1>10. OneRuns'
  BY <1>2, <1>9 DEF OneRuns, Running
<1>11. \A q \in Poller : Reads(q) => Reads(q)'
  <2>1. \A q \in Poller : q # p => pc'[q] = pc[q]
    BY <1>1, <1>3
  <2> QED
    BY <1>1, <2>1 DEF Reads
<1>12. (\A q \in Poller : ~Reads(q)') => OffsetFresh'
  <2>1. OffsetFresh => OffsetFresh'
    BY <1>1, <1>7, <1>8 DEF OffsetFresh, Fresh, Above, Length
  <2> QED
    BY <1>2, <1>11, <2>1
<1>13. ASSUME NEW q \in Poller PROVE ThreadFresh(q)'
  <2>1. CASE pc'[q] = "idle"
    BY <2>1 DEF ThreadFresh, Reads
  <2>2. CASE q # p /\ pc'[q] = pc[q]
    <3>1. ThreadFresh(q) /\ size'[q] = size[q] /\ handle'[q] = handle[q]
      BY <1>2, <1>9, <2>2
    <3> QED
      BY <1>1, <1>7, <1>8, <2>2, <3>1 DEF ThreadFresh, Reads, Fresh, Above
  <2> QED
    BY <1>9, <2>1, <2>2
<1> QED
  BY <1>6, <1>10, <1>12, <1>13 DEF InTurn

LEMMA BrokenForEver == ASSUME [Next]_vars, broken PROVE broken'
  BY DEF Next, Handle, Write, Rotate, Request, ReadLength, CompareShrunk, CompareGrown, Seek, ReadLine,
         Mark, Take, Fails, OpenFails, ReadFails, PrintStackTrace, vars, history

LEMMA OrderStep == ASSUME TypeInv, Upwards, OrderInv, [Next]_vars PROVE OrderInv'
<1> SUFFICES ASSUME ~failed', ~broken', ~shared' PROVE InTurn'
  BY DEF OrderInv
<1>0. ~failed /\ InTurn
  <2>1. failed => failed'
    BY DEF Next, Handle, Write, Rotate, Request, ReadLength, CompareShrunk, CompareGrown, Seek, ReadLine,
           Mark, Take, Fails, OpenFails, ReadFails, PrintStackTrace, vars, history
  <2>2. shared => shared'
    BY DEF Next, Handle, Write, Rotate, Request, ReadLength, CompareShrunk, CompareGrown, Seek, ReadLine,
           Mark, Take, Fails, OpenFails, ReadFails, PrintStackTrace, vars, history
  <2>3. broken => broken'
    BY BrokenForEver
  <2> QED
    BY <2>1, <2>2, <2>3 DEF OrderInv
<1>1. CASE UNCHANGED vars
  BY <1>0, <1>1 DEF vars, log, static, local, history, InTurn, Sorted, Above, OneRuns, Running, Reads,
              OffsetFresh, ThreadFresh, Fresh, Current, Length
<1>2. ASSUME NEW p \in Poller, Request(p) PROVE \A q \in Poller : ~Running(q)
  BY <1>2 DEF Request
<1>3. ASSUME NEW p \in Poller, ReadLine(p) PROVE pc'[p] # "idle"
  <2>1. pc \in [Poller -> Pcs]
    BY DEF TypeInv, TypeOK
  <2> QED
    BY <1>3, <2>1 DEF ReadLine
<1>4. ASSUME NEW p \in Poller, ReadFails(p) PROVE FALSE
  BY <1>4 DEF ReadFails
<1> QED
  BY <1>0, <1>1, <1>2, <1>3, <1>4, OrderLog, OrderThread, OrderTake DEF Next, Handle, Fails

LEMMA OrderInit == ASSUME Init PROVE Upwards /\ InTurn
<1> DEFINE f == [i \in 1..written |-> i]
<1>1. /\ written \in Nat /\ files = << f >> /\ lastTimeFileSize = 0 /\ query = << >> /\ newest = 0
      /\ \A p \in Poller : pc[p] = "idle"
  BY BoundsAssumption DEF Init
<1>2. f \in Seq(Nat) /\ Len(f) = written /\ \A k \in 1..written : f[k] = k
  BY <1>1
<1>3. Current = 1 /\ files[1] = f /\ Length(1) = written
  <2> HIDE DEF f
  <2> QED
    BY <1>1, <1>2 DEF Current, Length
<1> HIDE DEF f
<1>4. Upwards
  BY <1>1, <1>2, <1>3 DEF Upwards
<1>5. Len(query) = 0
  BY <1>1, EmptySeq
<1>6. \A e \in Nat \ {0} : Above(e)
  BY <1>1, <1>5 DEF Above
<1>7. Sorted
  BY <1>1, <1>5, <1>6 DEF Sorted
<1>8. OffsetFresh
  <2>1. \A n : Fresh(1, n)
    BY <1>1, <1>2, <1>3, <1>6 DEF Fresh
  <2> QED
    BY <1>3, <2>1 DEF OffsetFresh
<1>9. OneRuns /\ \A p \in Poller : ThreadFresh(p)
  BY <1>1 DEF OneRuns, Running, ThreadFresh, Reads
<1> QED
  BY <1>4, <1>7, <1>8, <1>9 DEF InTurn

\* Requests that do not overlap in run, any number of which may wait in take,
\* answer the lines in their order and none twice, however the log is rotated
\* between and during them, unless the queue was ever full or an I/O error came
\* in the middle of the lines.
THEOREM InOrderHolds == Spec => []InOrder
<1>1. Upwards /\ OrderInv /\ TypeInv /\ [Next]_vars => Upwards' /\ OrderInv'
  BY UpwardsStep, OrderStep
<1>2. Init => Upwards /\ OrderInv
  BY OrderInit DEF OrderInv
<1>3. OrderInv /\ TypeInv => InOrder
  <2> SUFFICES ASSUME Sorted, TypeInv, NEW i, NEW j, i < j,
                      i \in 1..Len(<<newest>> \o query), j \in 1..Len(<<newest>> \o query)
               PROVE  (<<newest>> \o query)[i] < (<<newest>> \o query)[j]
    BY DEF InOrder, OrderInv, InTurn
  <2> DEFINE s == <<newest>> \o query
  <2>1. newest \in Nat /\ query \in Seq(Line)
    BY DEF TypeInv, TypeOK
  <2>2. /\ Len(s) = Len(query) + 1 /\ Len(query) \in Nat /\ s[1] = newest
        /\ \A k \in 2..Len(s) : s[k] = query[k - 1]
    BY <2>1
  <2> HIDE DEF s
  <2>3. i \in 1..Len(s) /\ j \in 1..Len(s)
    BY DEF s
  <2>4. s[i] < s[j]
    <3>1. j \in 2..Len(s) /\ j - 1 \in 1..Len(query)
      BY <2>2, <2>3
    <3>2. CASE i = 1
      BY <2>2, <3>1, <3>2 DEF Sorted
    <3>3. CASE i # 1
      <4>1. i \in 2..Len(s) /\ i - 1 \in 1..Len(query) /\ i - 1 < j - 1
        BY <2>2, <2>3, <3>3
      <4> QED
        BY <2>2, <3>1, <4>1 DEF Sorted
    <3> QED
      BY <3>2, <3>3
  <2> QED
    BY <2>4 DEF s
<1> QED
  BY <1>1, <1>2, <1>3, TypeInvariance, PTL DEF Spec
-----------------------------------------------------------------------------
(* One thread alone: the lines keep their order on the full queue, too.    *)

\* No two threads are at work, not even in take.
Lone == \A p, q \in Poller : pc[p] # "idle" /\ pc[q] # "idle" => p = q
Past == \A p \in Poller : pc[p] = "read" => handle[p].next > lastTimeFileSize

\* On a full queue there may be lines from the offset on that are queued already:
\* then no thread takes one, as every thread has lines to read and fails with the
\* first of them, until there is a new file, of which none is queued.
Doomed(p) ==
    /\ pc[p] = "read" /\ handle[p].next <= Length(handle[p].file)
    /\ \A g \in 1..Current : g > handle[p].file => Fresh(g, 1)
Clogged ==
    /\ Length(Current) > lastTimeFileSize
    /\ \A p \in Poller : /\ pc[p] \notin {"read", "mark", "caught", "take"}
                         /\ pc[p] \in {"shrunk", "grown"} => size[p] > lastTimeFileSize
Stuck == failed /\ Sorted /\ Len(query) = Capacity /\ (Clogged \/ \E p \in Poller : Doomed(p))
Tale == Past /\ (InTurn \/ Stuck)

LEMMA LoneFacts ==
    ASSUME TypeInv
    PROVE  /\ pc \in [Poller -> Pcs] /\ handle \in [Poller -> Handles] /\ size \in [Poller -> 0..MaxLines]
           /\ lastTimeFileSize \in Nat /\ Current \in Nat \ {0} /\ Current \in 1..Current
           /\ \A g \in 1..Current : Length(g) \in Nat
           /\ \A p \in Poller : handle[p].file \in 1..Current /\ handle[p].next \in Nat \ {0}
  BY FileFacts DEF TypeInv, TypeOK

\* A poll fails: the next one reads the same lines again if the file is the same.
LEMMA LoneFails ==
    ASSUME TypeInv, Lone, Past, Sorted, NEW p \in Poller, ReadLine(p), pc'[p] = "idle",
           \A g \in 1..Current : g > handle[p].file => Fresh(g, 1)
    PROVE  InTurn' \/ Stuck'
<1>1. /\ pc[p] = "read" /\ UNCHANGED <<files, written, lastTimeFileSize, newest, query>>
      /\ handle[p].next <= Len(files[handle[p].file]) /\ Len(query) = Capacity
      /\ pc' = [pc EXCEPT ![p] = "idle"] /\ failed'
  BY LoneFacts DEF ReadLine, log, Answered
<1>2. \A q \in Poller : pc'[q] = "idle"
  BY <1>1, LoneFacts DEF Lone, Pcs
<1>3. Sorted' /\ Current' = Current /\ Length(Current)' = Length(Current)
  BY <1>1, FreshSame
<1>4. CASE handle[p].file = Current
  <2>1. handle[p].next > lastTimeFileSize /\ handle[p].next <= Length(Current)
    BY <1>1, <1>4 DEF Past, Length
  <2>2. Length(Current) > lastTimeFileSize
    BY <2>1, LoneFacts
  <2> QED
    BY <1>1, <1>2, <1>3, <2>2 DEF Stuck, Clogged
<1>5. CASE handle[p].file # Current
  <2>1. Fresh(Current, 1)
    BY <1>5, LoneFacts
  <2>2. Fresh(Current, lastTimeFileSize + 1)
    BY <2>1, LoneFacts DEF Fresh
  <2>3. OffsetFresh'
    BY <1>1, <1>3, <2>1, <2>2 DEF OffsetFresh, Fresh, Above, Length
  <2> QED
    BY <1>2, <1>3, <2>3 DEF InTurn, OneRuns, Running, ThreadFresh, Reads
<1> QED
  BY <1>4, <1>5

LEMMA LoneLog ==
    ASSUME TypeInv, Lone, Stuck, Write \/ Rotate
    PROVE  InTurn' \/ Stuck'
<1>1. UNCHANGED <<lastTimeFileSize, query, pc, size, handle, newest, failed>>
  BY DEF Write, Rotate, static, local, history
<1>2. /\ Sorted'
      /\ \A g \in 1..Current' : \A n :
            (g \in 1..Current => Fresh(g, n)) =>
                \A k \in 1..Len(files'[g]) : k >= n => Above(files'[g][k])
  BY FreshLog DEF Stuck
<1>3. Len(query') = Capacity
  BY <1>1 DEF Stuck
<1>4. Current' \in Nat /\ Current <= Current'
  <2>1. files \in Seq(Seq(Line))
    BY DEF TypeInv, TypeOK
  <2>2. Current <= Current'
    BY <2>1, LoneFacts DEF Write, Rotate, Current
  <2> QED
    BY <2>2, LogStep
<1>5. ASSUME NEW p \in Poller, Doomed(p) PROVE Doomed(p)'
  <2>1. handle[p].file \in 1..Current' /\ Length(handle[p].file) <= Length(handle[p].file)'
        /\ Length(handle[p].file) \in Nat /\ Length(handle[p].file)' \in Nat /\ handle[p].next \in Nat
    <3> DEFINE g == handle[p].file
    <3>1. g \in 1..Current /\ g \in 1..Current' /\ handle'[p].file = g
      BY <1>1, <1>4, LoneFacts
    <3> HIDE DEF g
    <3>2. Len(files'[g]) \in Nat /\ Length(g) <= Len(files'[g])
      BY <3>1, LogStep DEF Length
    <3> QED
      BY <3>1, <3>2, LoneFacts DEF g, Length
  <2>2. Length(handle[p].file)' = Len(files'[handle[p].file])
    BY <1>1 DEF Length
  <2>3. \A g \in 1..Current' : g > handle[p].file => Fresh(g, 1)'
    <3> SUFFICES ASSUME NEW g \in 1..Current', g > handle[p].file PROVE Fresh(g, 1)'
      OBVIOUS
    <3>1. g \in 1..Current => Fresh(g, 1)
      BY <1>5 DEF Doomed
    <3> QED
      BY <1>1, <1>2, <3>1 DEF Fresh, Above
  <2> QED
    BY <1>1, <1>5, <2>1, <2>2, <2>3 DEF Doomed, Length
<1>6. ASSUME Clogged, Write PROVE Clogged'
  <2>1. Current' = Current
    BY <1>6, LoneFacts DEF Write, Current, TypeInv, TypeOK
  <2>2. Length(Current)' >= Length(Current) /\ Length(Current)' \in Nat /\ Length(Current) \in Nat
    BY <2>1, LogStep, LoneFacts
  <2> QED
    BY <1>1, <1>6, <2>1, <2>2, LoneFacts DEF Clogged
<1>7. ASSUME Clogged, Rotate PROVE InTurn'
  <2>1. Current' = Current + 1 /\ Len(files'[Current']) = 0
    <3>1. files' = Append(files, << >>) /\ files \in Seq(Seq(Line))
      BY <1>7 DEF Rotate, TypeInv, TypeOK
    <3>2. Len(files') = Len(files) + 1 /\ files'[Len(files) + 1] = << >>
      BY <3>1
    <3> QED
      BY <3>2 DEF Current
  <2>2. \A n : Fresh(Current, n)'
    BY <2>1 DEF Fresh
  <2>3. OffsetFresh'
    BY <2>2 DEF OffsetFresh
  <2>4. \A p \in Poller : ThreadFresh(p)'
    BY <1>1, <1>7, <2>2 DEF ThreadFresh, Reads, Clogged
  <2>5. OneRuns'
    BY <1>1 DEF Lone, OneRuns, Running
  <2> QED
    BY <1>2, <2>3, <2>4, <2>5 DEF InTurn
<1> QED
  BY <1>1, <1>2, <1>3, <1>5, <1>6, <1>7 DEF Stuck

LEMMA LoneStuck ==
    ASSUME TypeInv, Lone, Lone', Past, Stuck, ~broken', NEW p \in Poller,
           Request(p) \/ Handle(p) \/ Fails(p)
    PROVE  InTurn' \/ Stuck'
<1>0. failed /\ failed'
  BY DEF Stuck, Request, Handle, ReadLength, CompareShrunk, CompareGrown, Seek, ReadLine, Mark,
         PrintStackTrace, Take, Fails, OpenFails, ReadFails, history
<1>1. CASE \E q \in Poller : Doomed(q)
  <2>1. PICK q \in Poller : Doomed(q)
    BY <1>1
  <2>2. pc[q] = "read" /\ pc \in [Poller -> Pcs]
    BY <2>1, LoneFacts DEF Doomed
  <2>3. p = q
    <3>1. CASE Request(p)
      <4>1. p # q => pc'[p] # "idle" /\ pc'[q] # "idle"
        BY <2>2, <3>1 DEF Request
      <4> QED
        BY <4>1 DEF Lone
    <3>2. CASE Handle(p) \/ Fails(p)
      <4>1. pc[p] # "idle"
        BY <3>2 DEF Handle, ReadLength, CompareShrunk, CompareGrown, Seek, ReadLine, Mark, Take,
                    PrintStackTrace, Fails, OpenFails, ReadFails
      <4> QED
        BY <2>2, <4>1 DEF Lone
    <3> QED
      BY <3>1, <3>2
  <2>4. ReadLine(p)
    BY <2>2, <2>3 DEF Request, Handle, ReadLength, CompareShrunk, CompareGrown, Seek, Mark, Take,
                      PrintStackTrace, Fails, OpenFails, ReadFails
  <2>5. pc'[p] = "idle"
    <3>1. handle[p].next <= Len(files[handle[p].file]) /\ Len(query) = Capacity
      BY <2>1, <2>3 DEF Doomed, Stuck, Length
    <3>2. ~(handle[p].next > Len(files[handle[p].file])) /\ ~(Len(query) < Capacity)
      <4>1. Len(files[handle[p].file]) \in Nat
        BY LoneFacts DEF Length
      <4> QED
        BY <3>1, <4>1, LoneFacts, BoundsAssumption
    <3> QED
      BY <2>2, <2>4, <3>2 DEF ReadLine, Answered
  <2> QED
    BY <2>1, <2>3, <2>4, <2>5, LoneFails DEF Stuck, Doomed
<1>2. CASE Clogged
  <2>1. /\ pc[p] \notin {"read", "mark", "caught", "take"} /\ Length(Current) > lastTimeFileSize
        /\ pc[p] \in {"shrunk", "grown"} => size[p] > lastTimeFileSize
    BY <1>2 DEF Clogged
  <2>2. \/ Request(p) \/ ReadLength(p) \/ CompareShrunk(p) \/ CompareGrown(p) \/ Seek(p)
    BY <1>0, <2>1 DEF Handle, ReadLine, Mark, Take, PrintStackTrace, Fails, OpenFails, ReadFails
  <2>3. /\ UNCHANGED <<files, written, lastTimeFileSize, query, newest>>
    <3>1. ~(size[p] < lastTimeFileSize) \/ pc[p] # "shrunk"
      BY <2>1, LoneFacts
    <3> QED
      BY <2>2, <3>1 DEF Request, ReadLength, CompareShrunk, CompareGrown, Seek, log, static, history
  <2>4. Sorted' /\ Current' = Current /\ (\A g : Length(g)' = Length(g)) /\ Len(query') = Capacity
    BY <2>3, FreshSame DEF Stuck
  <2>5. CASE Seek(p)
    <3>1. /\ pc'[p] = "read" /\ handle'[p] = [file |-> Current, next |-> lastTimeFileSize + 1]
      BY <2>5, LoneFacts DEF Seek
    <3>2. handle'[p].file = Current /\ handle'[p].next = lastTimeFileSize + 1
      BY <3>1
    <3>3. handle'[p].next <= Length(Current)
      BY <2>1, <3>2, LoneFacts
    <3>4. \A g \in 1..Current : ~(g > Current)
      BY LoneFacts
    <3>5. Length(handle[p].file)' = Length(Current)
      BY <2>3, <3>2 DEF Length
    <3>6. Doomed(p)'
      BY <2>4, <3>1, <3>2, <3>3, <3>4, <3>5 DEF Doomed
    <3> QED
      BY <1>0, <2>4, <3>6 DEF Stuck
  <2>6. CASE ~Seek(p)
    <3>1. /\ \E x \in {"length", "shrunk", "grown", "seek"} :
               /\ pc' = [pc EXCEPT ![p] = x]
               /\ x = "shrunk" => size' = [size EXCEPT ![p] = Length(Current)]
               /\ x # "shrunk" => UNCHANGED size
               /\ x = "grown" => pc[p] = "shrunk"
      <4>1. Request(p) => pc' = [pc EXCEPT ![p] = "length"] /\ UNCHANGED size
        BY DEF Request
      <4>2. ReadLength(p) => pc' = [pc EXCEPT ![p] = "shrunk"] /\ size' = [size EXCEPT ![p] = Length(Current)]
        BY DEF ReadLength
      <4>3. CompareShrunk(p) => pc[p] = "shrunk" /\ pc' = [pc EXCEPT ![p] = "grown"] /\ UNCHANGED size
        BY <2>1, LoneFacts DEF CompareShrunk
      <4>4. CompareGrown(p) => pc' = [pc EXCEPT ![p] = "seek"] /\ UNCHANGED size
        BY <2>1, LoneFacts DEF CompareGrown
      <4> QED
        BY <2>2, <2>6, <4>1, <4>2, <4>3, <4>4
    <3>2. PICK x \in {"length", "shrunk", "grown", "seek"} :
               /\ pc' = [pc EXCEPT ![p] = x]
               /\ x = "shrunk" => size' = [size EXCEPT ![p] = Length(Current)]
               /\ x # "shrunk" => UNCHANGED size
               /\ x = "grown" => pc[p] = "shrunk"
      BY <3>1
    <3>3. ASSUME NEW q \in Poller
          PROVE  /\ pc'[q] \notin {"read", "mark", "caught", "take"}
                 /\ pc'[q] \in {"shrunk", "grown"} => size'[q] > lastTimeFileSize
      <4>1. CASE q = p
        BY <2>1, <3>2, <4>1, LoneFacts
      <4>2. CASE q # p
        <5>1. pc'[q] = pc[q] /\ size'[q] = size[q]
          BY <3>2, <4>2, LoneFacts
        <5> QED
          BY <1>2, <5>1 DEF Clogged
      <4> QED
        BY <4>1, <4>2
    <3>4. Clogged'
      BY <2>1, <2>3, <2>4, <3>3 DEF Clogged
    <3> QED
      BY <1>0, <2>4, <3>4 DEF Stuck
  <2> QED
    BY <2>5, <2>6
<1> QED
  BY <1>1, <1>2 DEF Stuck

LEMMA LonePast == ASSUME TypeInv, Lone, Past, [Next]_vars PROVE Past'
<1>1. ASSUME UNCHANGED <<lastTimeFileSize, pc, handle>> PROVE Past'
  BY <1>1 DEF Past
<1>2. CASE Write \/ Rotate \/ UNCHANGED vars
  BY <1>1, <1>2 DEF Write, Rotate, vars, static, local
<1>3. ASSUME NEW p \in Poller, Request(p) \/ ReadLength(p) \/ CompareGrown(p) \/ Take(p) PROVE Past'
  <2>1. UNCHANGED lastTimeFileSize
    BY <1>3 DEF Request, ReadLength, CompareGrown, Take, static
  <2>2. ASSUME NEW q \in Poller, pc'[q] = "read" PROVE handle'[q] = handle[q] /\ pc[q] = "read"
    BY <1>3, <2>2, LoneFacts DEF Request, ReadLength, CompareGrown, Take, Answered
  <2> QED
    BY <2>1, <2>2 DEF Past
<1>4. ASSUME NEW p \in Poller, CompareShrunk(p) \/ Mark(p) PROVE Past'
  <2>1. ASSUME NEW q \in Poller PROVE pc'[q] # "read"
    BY <1>4, <2>1, LoneFacts DEF CompareShrunk, Mark, Lone
  <2> QED
    BY <2>1 DEF Past
<1>5. ASSUME NEW p \in Poller, Seek(p) PROVE Past'
  <2>1. UNCHANGED lastTimeFileSize /\ handle'[p] = [file |-> Current, next |-> lastTimeFileSize + 1]
    BY <1>5, LoneFacts DEF Seek, static
  <2>2. handle'[p].next > lastTimeFileSize'
    BY <2>1, LoneFacts
  <2>3. \A q \in Poller : q # p => pc'[q] = "idle"
    BY <1>5, LoneFacts DEF Seek, Lone
  <2> QED
    BY <2>2, <2>3 DEF Past
<1>6. ASSUME NEW p \in Poller, ReadLine(p) PROVE Past'
  <2>1. UNCHANGED lastTimeFileSize /\ pc[p] = "read"
    BY <1>6 DEF ReadLine
  <2>2. \A q \in Poller : q # p => pc[q] = "idle"
    BY <2>1 DEF Lone
  <2>3. \A q \in Poller : q # p => pc'[q] = "idle"
    BY <1>6, <2>2, LoneFacts DEF ReadLine, Answered
  <2>4. pc'[p] = "read" => handle'[p].next >= handle[p].next
    BY <1>6, LoneFacts DEF ReadLine, Answered, Handles
  <2>5. pc'[p] = "read" => handle'[p].next \in Nat
    BY <1>6, LoneFacts DEF ReadLine, Answered, Handles
  <2> QED
    BY <2>1, <2>3, <2>4, <2>5, LoneFacts DEF Past
<1>7. ASSUME NEW p \in Poller, Fails(p) \/ PrintStackTrace(p) PROVE Past'
  <2>1. UNCHANGED <<lastTimeFileSize, handle>>
    BY <1>7 DEF Fails, OpenFails, ReadFails, PrintStackTrace, static
  <2>2. ASSUME NEW q \in Poller, pc'[q] = "read" PROVE pc[q] = "read"
    BY <1>7, <2>2, LoneFacts DEF Fails, OpenFails, ReadFails, PrintStackTrace
  <2> QED
    BY <2>1, <2>2 DEF Past
<1> QED
  BY <1>2, <1>3, <1>4, <1>5, <1>6, <1>7 DEF Next, Handle

\* As long as there is only one thread at work the order is kept, whether or not
\* the queue was ever full, as long as no I/O error leaves lines queued that do
\* not count as read.
LEMMA LoneStep == ASSUME TypeInv, Upwards, Lone, Lone', Tale, ~broken', [Next]_vars PROVE Tale'
<1>1. Past'
  BY LonePast DEF Tale
<1>2. CASE InTurn
  <2>1. CASE UNCHANGED vars
    <3>1. InTurn'
      BY <1>2, <2>1 DEF vars, log, static, local, history, InTurn, Sorted, Above, OneRuns, Running, Reads,
                        OffsetFresh, ThreadFresh, Fresh, Current, Length
    <3> QED
      BY <1>1, <3>1 DEF Tale
  <2>2. CASE Write \/ Rotate
    BY <1>1, <1>2, <2>2, OrderLog DEF Tale
  <2>3. ASSUME NEW p \in Poller, Take(p) PROVE InTurn'
    BY <1>2, <2>3, OrderTake
  <2>4. ASSUME NEW p \in Poller, Request(p) PROVE InTurn'
    <3>1. \A q \in Poller : ~Running(q)
      <4> SUFFICES ASSUME NEW q \in Poller, pc[q] # "idle" PROVE FALSE
        BY DEF Running
      <4>1. q # p /\ pc'[q] # "idle" /\ pc'[p] # "idle"
        BY <2>4, LoneFacts DEF Request
      <4> QED
        BY <4>1 DEF Lone
    <3>2. ~ReadLine(p)
      BY <2>4 DEF Request, ReadLine
    <3> QED
      BY <1>2, <2>4, <3>1, <3>2, OrderThread
  <2>5. ASSUME NEW p \in Poller, ReadLine(p), pc'[p] = "idle" PROVE InTurn' \/ Stuck'
    <3>1. Sorted /\ ThreadFresh(p) /\ Reads(p) /\ Past
      BY <1>2, <2>5 DEF InTurn, Reads, ReadLine, Tale
    <3> QED
      BY <2>5, <3>1, LoneFails DEF ThreadFresh
  <2>6. ASSUME NEW p \in Poller, ReadLine(p) => pc'[p] # "idle",
               \/ ReadLength(p) \/ CompareShrunk(p) \/ CompareGrown(p) \/ Seek(p) \/ ReadLine(p) \/ Mark(p)
               \/ OpenFails(p) \/ PrintStackTrace(p)
        PROVE  InTurn'
    <3>1. ~Request(p)
      BY <2>6 DEF Request, ReadLength, CompareShrunk, CompareGrown, Seek, ReadLine, Mark, OpenFails,
                  PrintStackTrace
    <3> QED
      BY <1>2, <2>6, <3>1, OrderThread
  <2>7. ASSUME NEW p \in Poller, ReadFails(p) PROVE FALSE
    BY <2>7 DEF ReadFails
  <2> QED
    BY <1>1, <2>1, <2>2, <2>3, <2>4, <2>5, <2>6, <2>7 DEF Tale, Next, Handle, Fails
<1>3. CASE Stuck
  <2>1. CASE UNCHANGED vars
    <3>1. Stuck'
      BY <1>3, <2>1 DEF vars, log, static, local, history, Stuck, Sorted, Above, Clogged, Doomed,
                        Fresh, Current, Length
    <3> QED
      BY <1>1, <3>1 DEF Tale
  <2>2. CASE Write \/ Rotate
    BY <1>1, <1>3, <2>2, LoneLog DEF Tale
  <2>3. ASSUME NEW p \in Poller, Request(p) \/ Handle(p) \/ Fails(p) PROVE InTurn' \/ Stuck'
    BY <1>3, <2>3, LoneStuck DEF Tale
  <2> QED
    BY <1>1, <2>1, <2>2, <2>3 DEF Tale, Next
<1> QED
  BY <1>2, <1>3 DEF Tale

LEMMA LoneInit == ASSUME Init PROVE Lone /\ Tale
<1>1. \A p \in Poller : pc[p] = "idle"
  BY DEF Init
<1> QED
  BY <1>1, OrderInit DEF Lone, Tale, Past
=============================================================================

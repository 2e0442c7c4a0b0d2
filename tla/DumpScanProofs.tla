--------------------------- MODULE DumpScanProofs ---------------------------
(***************************************************************************)
(* Proofs about DumpScan: however a dump falls into chunks, and wherever   *)
(* the scan stops, what was counted is what is there.  The theorem is      *)
(* about Reports, whose run checks the property.                           *)
(***************************************************************************)
EXTENDS Reports, NumberLemmas

-----------------------------------------------------------------------------
(* Buffers.                                                                *)

(* What is left of a buffer, and what is taken from it. *)
LEMMA DropAndTake ==
    ASSUME NEW S, NEW s \in Seq(S), NEW n \in Nat, n <= Len(s)
    PROVE  /\ Drop(s, n) \in Seq(S) /\ Len(Drop(s, n)) = Len(s) - n
           /\ \A i \in 1..(Len(s) - n) : Drop(s, n)[i] = s[n + i]
           /\ Take(s, n) \in Seq(S) /\ Len(Take(s, n)) = n
           /\ \A i \in 1..n : Take(s, n)[i] = s[i]
<1>1. /\ Drop(s, n) \in Seq(S) /\ Len(Drop(s, n)) = Len(s) - n
      /\ \A i \in 1..(Len(s) - n) : Drop(s, n)[i] = s[n + i]
  BY DEF Drop
<1>2. /\ Take(s, n) \in Seq(S) /\ Len(Take(s, n)) = n
      /\ \A i \in 1..n : Take(s, n)[i] = s[i]
  BY DEF Take
<1>. QED
  BY <1>1, <1>2

(* A buffer that is filled up from the file. *)
LEMMA Extended ==
    ASSUME NEW S, NEW s \in Seq(S), NEW t \in Seq(S)
    PROVE  /\ s \o t \in Seq(S) /\ Len(s \o t) = Len(s) + Len(t)
           /\ \A i \in 1..Len(s) : (s \o t)[i] = s[i]
           /\ \A i \in 1..Len(t) : (s \o t)[Len(s) + i] = t[i]
  OBVIOUS

(* A slice of a file. *)
LEMMA Slice ==
    ASSUME NEW S, NEW s \in Seq(S), NEW a \in Nat, NEW b \in Nat, b <= Len(s)
    PROVE  /\ SubSeq(s, a + 1, b) \in Seq(S)
           /\ Len(SubSeq(s, a + 1, b)) = IF a <= b THEN b - a ELSE 0
           /\ \A i \in 1..Len(SubSeq(s, a + 1, b)) : SubSeq(s, a + 1, b)[i] = s[a + i]
  OBVIOUS

-----------------------------------------------------------------------------
(* The reader.                                                             *)

Readers == [at : Nat, buf : Seq(DumpCells), pos : Nat, incomplete : BOOLEAN]

(* The scan of a dump. *)
LEMMA ScanTypes ==
    ASSUME task \in Scans
    PROVE  /\ IsDump(task.file) /\ task.file \in Seq(DumpCells) /\ FileSize \in Nat
           /\ task.chunk \in Nat /\ task.buffer \in Nat
           /\ task.interval \in Nat \ {0} /\ task.budget \in Nat
  BY ScansAssumption DEF IsDump, FileSize

(* A reader that has filled its buffer has n cells of it, if there are. *)
LEMMA FillKeeps ==
    ASSUME task \in Scans, NEW r, ReaderInv(r), NEW n \in Nat
    PROVE  LET full == Fill(r, n)
           IN  /\ ReaderInv(full) /\ full.pos = r.pos /\ full.incomplete = r.incomplete
               /\ Len(full.buf) >= n \/ r.pos + Len(full.buf) >= FileSize
<1>. DEFINE full == Fill(r, n)
            upto == Least(r.at + Most(task.buffer, n), FileSize)
            more == SubSeq(task.file, r.at + 1, upto)
<1>1. /\ r \in Readers /\ r.at \in Nat /\ r.pos \in Nat /\ r.buf \in Seq(DumpCells)
      /\ Len(r.buf) \in Nat /\ r.pos + Len(r.buf) = r.at /\ r.incomplete \in BOOLEAN
      /\ \A i \in 1..Len(r.buf) : r.pos + i <= FileSize /\ r.buf[i] = task.file[r.pos + i]
  BY DEF ReaderInv, Readers
<1>2. CASE Len(r.buf) >= n
  BY <1>2 DEF Fill
<1>3. CASE ~(Len(r.buf) >= n)
  <2>1. full = [r EXCEPT !.buf = r.buf \o more, !.at = Most(r.at, upto)]
    BY <1>3 DEF Fill
  <2>2. /\ task.file \in Seq(DumpCells) /\ FileSize \in Nat /\ task.buffer \in Nat
        /\ Len(task.file) = FileSize
    BY ScanTypes DEF FileSize
  <2>3. upto \in Nat /\ upto <= FileSize
        /\ (upto = FileSize \/ upto >= r.at + n)
    BY <1>1, <2>2 DEF Least, Most
  <2>. HIDE DEF upto
  <2>4. /\ more \in Seq(DumpCells)
        /\ Len(more) = (IF r.at <= upto THEN upto - r.at ELSE 0)
        /\ \A i \in 1..Len(more) : more[i] = task.file[r.at + i]
    <3>. DEFINE file == task.file
                at == r.at
    <3>1. file \in Seq(DumpCells) /\ at \in Nat /\ upto \in Nat /\ upto <= Len(file)
      BY <1>1, <2>2, <2>3
    <3>. HIDE DEF file, at
    <3>2. /\ SubSeq(file, at + 1, upto) \in Seq(DumpCells)
          /\ Len(SubSeq(file, at + 1, upto)) = (IF at <= upto THEN upto - at ELSE 0)
          /\ \A i \in 1..Len(SubSeq(file, at + 1, upto)) :
                SubSeq(file, at + 1, upto)[i] = file[at + i]
      BY <3>1, Slice
    <3>. QED
      BY <3>2 DEF file, at
  <2>. HIDE DEF more
  <2>5. /\ r.buf \o more \in Seq(DumpCells) /\ Len(r.buf \o more) = Len(r.buf) + Len(more)
        /\ \A i \in 1..Len(r.buf) : (r.buf \o more)[i] = r.buf[i]
        /\ \A i \in 1..Len(more) : (r.buf \o more)[Len(r.buf) + i] = more[i]
    <3>. DEFINE had == r.buf
    <3>1. had \in Seq(DumpCells) /\ more \in Seq(DumpCells)
      BY <1>1, <2>4
    <3>. HIDE DEF had
    <3>2. /\ had \o more \in Seq(DumpCells) /\ Len(had \o more) = Len(had) + Len(more)
          /\ \A i \in 1..Len(had) : (had \o more)[i] = had[i]
          /\ \A i \in 1..Len(more) : (had \o more)[Len(had) + i] = more[i]
      BY <3>1, Extended
    <3>. QED
      BY <3>2 DEF had
  <2>. DEFINE buf == r.buf \o more
  <2>. HIDE DEF buf
  <2>6. /\ full \in Readers /\ full.buf = buf /\ full.at = Most(r.at, upto)
        /\ full.pos = r.pos /\ full.incomplete = r.incomplete
    <3>1. buf \in Seq(DumpCells) /\ Most(r.at, upto) \in Nat
      BY <1>1, <2>3, <2>5 DEF Most, buf
    <3>2. full = [r EXCEPT !.buf = buf, !.at = Most(r.at, upto)]
      BY <2>1 DEF buf
    <3>. HIDE DEF full
    <3>. QED
      BY <1>1, <3>1, <3>2 DEF Readers
  <2>7. Len(more) \in Nat /\ r.at + Len(more) = Most(r.at, upto)
    BY <1>1, <2>3, <2>4 DEF Most
  <2>8. r.pos + Len(buf) = Most(r.at, upto)
    BY <1>1, <2>5, <2>7 DEF buf
  <2>9. ASSUME NEW i \in 1..Len(buf)
        PROVE  r.pos + i <= FileSize /\ buf[i] = task.file[r.pos + i]
    <3>1. CASE i <= Len(r.buf)
      BY <1>1, <2>5, <3>1 DEF buf
    <3>2. CASE ~(i <= Len(r.buf))
      <4>1. PICK k \in 1..Len(more) : i = Len(r.buf) + k
        <5>1. i - Len(r.buf) \in 1..Len(more) /\ i = Len(r.buf) + (i - Len(r.buf))
          BY <1>1, <2>5, <2>7, <3>2 DEF buf
        <5>. QED
          BY <5>1
      <4>2. buf[i] = more[k] /\ more[k] = task.file[r.at + k]
        BY <2>4, <2>5, <4>1 DEF buf
      <4>3. r.at + k = r.pos + i /\ r.at + k <= FileSize
        <5>1. k \in Nat /\ k >= 1 /\ k <= Len(more) /\ i = Len(r.buf) + k
          BY <2>7, <4>1
        <5>2. Len(more) = upto - r.at
          BY <2>4, <2>7, <5>1
        <5>3. r.at + k <= upto
          BY <1>1, <2>3, <5>1, <5>2
        <5>. QED
          <6>1. /\ r.pos \in Nat /\ Len(r.buf) \in Nat /\ r.at \in Nat /\ upto \in Nat
                /\ r.pos + Len(r.buf) = r.at /\ upto <= FileSize /\ FileSize \in Nat
            BY <1>1, <2>2, <2>3
          <6>2. r.at + k = r.pos + i
            BY <5>1, <6>1
          <6>3. r.at + k <= FileSize
            BY <5>1, <5>3, <6>1
          <6>. QED
            BY <6>2, <6>3
      <4>. QED
        BY <4>2, <4>3
    <3>. QED
      BY <3>1, <3>2
  <2>10. Len(buf) >= n \/ r.pos + Len(buf) >= FileSize
    BY <1>1, <2>2, <2>3, <2>8 DEF Most
  <2>. HIDE DEF full
  <2>. QED
    BY <2>6, <2>8, <2>9, <2>10 DEF ReaderInv, Readers, full
<1>. QED
  BY <1>2, <1>3

(* A read returns what comes next in the file, n cells if there are. *)
LEMMA ReadKeeps ==
    ASSUME task \in Scans, NEW r, ReaderInv(r), NEW n \in Nat
    PROVE  LET data == DataOf(r, n)
           IN  /\ ReaderInv(Read(r, n)) /\ Read(r, n).incomplete = r.incomplete
               /\ Read(r, n).pos = r.pos + Len(data)
               /\ data \in Seq(DumpCells) /\ Len(data) <= n
               /\ \A i \in 1..Len(data) : r.pos + i <= FileSize /\ data[i] = task.file[r.pos + i]
               /\ Len(data) = n \/ r.pos + Len(data) >= FileSize
<1>. DEFINE full == Fill(r, n)
            got == Least(n, Len(full.buf))
            data == Take(full.buf, got)
            rest == Drop(full.buf, got)
            after == [full EXCEPT !.buf = rest, !.pos = full.pos + got]
<1>1. /\ ReaderInv(full) /\ full.pos = r.pos /\ full.incomplete = r.incomplete
      /\ Len(full.buf) >= n \/ r.pos + Len(full.buf) >= FileSize
  BY FillKeeps
<1>2. DataOf(r, n) = data /\ Read(r, n) = after
  BY DEF DataOf, Read
<1>. HIDE DEF full
<1>3. /\ full \in Readers /\ full.at \in Nat /\ full.pos \in Nat /\ full.buf \in Seq(DumpCells)
      /\ Len(full.buf) \in Nat /\ full.pos + Len(full.buf) = full.at
      /\ \A i \in 1..Len(full.buf) :
            full.pos + i <= FileSize /\ full.buf[i] = task.file[full.pos + i]
  BY <1>1 DEF ReaderInv, Readers
<1>4. got \in Nat /\ got <= Len(full.buf) /\ got <= n
      /\ (got = n \/ (got = Len(full.buf) /\ Len(full.buf) < n))
  BY <1>3 DEF Least
<1>. HIDE DEF got
<1>5. /\ data \in Seq(DumpCells) /\ Len(data) = got
      /\ \A i \in 1..got : data[i] = full.buf[i]
      /\ rest \in Seq(DumpCells) /\ Len(rest) = Len(full.buf) - got
      /\ \A i \in 1..(Len(full.buf) - got) : rest[i] = full.buf[got + i]
  <2>. DEFINE had == full.buf
  <2>1. had \in Seq(DumpCells) /\ got <= Len(had)
    BY <1>3, <1>4
  <2>. HIDE DEF had
  <2>2. /\ Drop(had, got) \in Seq(DumpCells) /\ Len(Drop(had, got)) = Len(had) - got
        /\ \A i \in 1..(Len(had) - got) : Drop(had, got)[i] = had[got + i]
        /\ Take(had, got) \in Seq(DumpCells) /\ Len(Take(had, got)) = got
        /\ \A i \in 1..got : Take(had, got)[i] = had[i]
    BY <1>4, <2>1, DropAndTake
  <2>. QED
    BY <2>2 DEF had
<1>. HIDE DEF data, rest
<1>6. /\ after \in Readers /\ after.buf = rest /\ after.pos = r.pos + got
      /\ after.at = full.at /\ after.incomplete = r.incomplete
  <2>1. full.pos + got \in Nat
    BY <1>3, <1>4
  <2>. QED
    BY <1>1, <1>3, <1>5, <2>1 DEF Readers
<1>. HIDE DEF after
<1>7. ReaderInv(after)
  <2>1. after.pos + Len(after.buf) = after.at
    BY <1>1, <1>3, <1>4, <1>5, <1>6
  <2>2. ASSUME NEW i \in 1..Len(after.buf)
        PROVE  after.pos + i <= FileSize /\ after.buf[i] = task.file[after.pos + i]
    <3>1. got + i \in 1..Len(full.buf) /\ after.buf[i] = full.buf[got + i]
      BY <1>3, <1>4, <1>5, <1>6
    <3>2. full.pos + (got + i) = after.pos + i
      BY <1>1, <1>3, <1>4, <1>6
    <3>3. full.pos + (got + i) <= FileSize /\ full.buf[got + i] = task.file[full.pos + (got + i)]
      BY <1>3, <3>1
    <3>. QED
      BY <3>1, <3>2, <3>3
  <2>. QED
    BY <1>6, <2>1, <2>2 DEF ReaderInv, Readers
<1>8. \A i \in 1..Len(data) : r.pos + i <= FileSize /\ data[i] = task.file[r.pos + i]
  <2>. SUFFICES ASSUME NEW i \in 1..Len(data)
                PROVE  r.pos + i <= FileSize /\ data[i] = task.file[r.pos + i]
    OBVIOUS
  <2>1. i \in 1..got /\ i \in 1..Len(full.buf)
    BY <1>3, <1>4, <1>5
  <2>2. data[i] = full.buf[i]
    BY <1>5, <2>1
  <2>. QED
    BY <1>1, <1>3, <2>1, <2>2
<1>9. Len(data) = n \/ r.pos + Len(data) >= FileSize
  BY <1>1, <1>3, <1>4, <1>5
<1>. QED
  BY <1>2, <1>4, <1>5, <1>6, <1>7, <1>8, <1>9

(* A skip moves the reader on. *)
LEMMA SkipKeeps ==
    ASSUME task \in Scans, NEW r, ReaderInv(r), NEW n \in Nat
    PROVE  /\ ReaderInv(Skip(r, n)) /\ Skip(r, n).pos = r.pos + n
           /\ Skip(r, n).incomplete = r.incomplete
<1>1. /\ r \in Readers /\ r.at \in Nat /\ r.pos \in Nat /\ r.buf \in Seq(DumpCells)
      /\ Len(r.buf) \in Nat /\ r.pos + Len(r.buf) = r.at
      /\ \A i \in 1..Len(r.buf) : r.pos + i <= FileSize /\ r.buf[i] = task.file[r.pos + i]
  BY DEF ReaderInv, Readers
<1>2. CASE Len(r.buf) >= n
  <2>. DEFINE rest == Drop(r.buf, n)
              after == [r EXCEPT !.buf = rest, !.pos = r.pos + n]
  <2>1. Skip(r, n) = after
    BY <1>2 DEF Skip
  <2>2. /\ rest \in Seq(DumpCells) /\ Len(rest) = Len(r.buf) - n
        /\ \A i \in 1..(Len(r.buf) - n) : rest[i] = r.buf[n + i]
    BY <1>1, <1>2, DropAndTake
  <2>. HIDE DEF rest
  <2>3. /\ after \in Readers /\ after.buf = rest /\ after.pos = r.pos + n
        /\ after.at = r.at /\ after.incomplete = r.incomplete
    <3>1. r.pos + n \in Nat
      BY <1>1
    <3>. QED
      BY <1>1, <2>2, <3>1 DEF Readers
  <2>. HIDE DEF after
  <2>4. after.pos + Len(after.buf) = after.at
    BY <1>1, <1>2, <2>2, <2>3
  <2>5. ASSUME NEW i \in 1..Len(after.buf)
        PROVE  after.pos + i <= FileSize /\ after.buf[i] = task.file[after.pos + i]
    <3>1. n + i \in 1..Len(r.buf) /\ after.buf[i] = r.buf[n + i]
      BY <1>1, <1>2, <2>2, <2>3
    <3>2. r.pos + (n + i) = after.pos + i
      BY <1>1, <2>3
    <3>3. r.pos + (n + i) <= FileSize /\ r.buf[n + i] = task.file[r.pos + (n + i)]
      BY <1>1, <3>1
    <3>. QED
      BY <3>1, <3>2, <3>3
  <2>. QED
    BY <2>1, <2>3, <2>4, <2>5 DEF ReaderInv, Readers
<1>3. CASE ~(Len(r.buf) >= n)
  <2>. DEFINE after == [r EXCEPT !.buf = <<>>, !.pos = r.pos + n, !.at = r.at + (n - Len(r.buf))]
  <2>1. Skip(r, n) = after
    BY <1>3 DEF Skip
  <2>2. r.pos + n \in Nat /\ r.at + (n - Len(r.buf)) \in Nat /\ r.pos + n = r.at + (n - Len(r.buf))
    BY <1>1, <1>3
  <2>3. <<>> \in Seq(DumpCells) /\ Len(<<>>) = 0
    OBVIOUS
  <2>4. /\ after \in Readers /\ after.buf = <<>> /\ after.pos = r.pos + n
        /\ after.at = r.at + (n - Len(r.buf)) /\ after.incomplete = r.incomplete
    BY <1>1, <2>2, <2>3 DEF Readers
  <2>. HIDE DEF after
  <2>5. Len(after.buf) = 0
    BY <2>3, <2>4
  <2>. QED
    BY <2>1, <2>2, <2>4, <2>5 DEF ReaderInv, Readers
<1>. QED
  BY <1>2, <1>3

-----------------------------------------------------------------------------
(* The walk of a segment.                                                  *)

Segments == [remaining : Nat, buf : Seq(DumpCells), subs : Nat]
Walks == [reader : Readers, segment : Segments]

(* The walk of a segment, and where it stands. *)
Walking(w, last) == w \in Walks /\ last \in Nat /\ WalkInv(w, last)

(* What a walk is made of. *)
LEMMA WalkParts ==
    ASSUME NEW w, NEW last, Walking(w, last)
    PROVE  /\ last \in Nat /\ last <= FileSize
           /\ w.reader \in Readers /\ ReaderInv(w.reader) /\ w.reader.pos \in Nat
           /\ w.segment \in Segments /\ w.segment.remaining \in Nat /\ w.segment.subs \in Nat
           /\ w.segment.buf \in Seq(DumpCells) /\ Len(w.segment.buf) \in Nat
           /\ w.reader.pos + w.segment.remaining = last
           /\ Len(w.segment.buf) <= w.reader.pos
           /\ Passed(w) = w.reader.pos - Len(w.segment.buf) /\ Passed(w) \in Nat
           /\ Passed(w) <= last
           /\ \A i \in 1..Len(w.segment.buf) : w.segment.buf[i] = task.file[Passed(w) + i]
<1>1. /\ w.reader \in Readers /\ w.segment \in Segments
  BY DEF Walking, Walks
<1>2. /\ w.reader.pos \in Nat /\ w.segment.remaining \in Nat /\ w.segment.subs \in Nat
      /\ w.segment.buf \in Seq(DumpCells) /\ Len(w.segment.buf) \in Nat
  BY <1>1 DEF Readers, Segments
<1>. QED
  BY <1>1, <1>2 DEF Walking, WalkInv, Passed

(* A walk with this reader and this segment. *)
LEMMA WalkMade ==
    ASSUME NEW r, NEW s, NEW last \in Nat,
           r \in Readers, s \in Segments, ReaderInv(r), r.pos + s.remaining = last,
           last <= FileSize, Len(s.buf) <= r.pos,
           \A i \in 1..Len(s.buf) : s.buf[i] = task.file[(r.pos - Len(s.buf)) + i]
    PROVE  /\ Walking([reader |-> r, segment |-> s], last)
           /\ Passed([reader |-> r, segment |-> s]) = r.pos - Len(s.buf)
  BY DEF Walking, Walks, WalkInv, Passed, Segments

(* A walk that is refilled has the cells it needs, or the whole segment. *)
LEMMA RefillKeeps ==
    ASSUME task \in Scans, NEW w, NEW last, Walking(w, last), NEW need \in Nat
    PROVE  LET full == Refill(w, need)
           IN  /\ Walking(full, last) /\ Passed(full) = Passed(w)
               /\ full.reader.incomplete = w.reader.incomplete
               /\ full.segment.subs = w.segment.subs
               /\ \/ Len(full.segment.buf) >= Len(w.segment.buf) + need
                  \/ full.segment.remaining = 0
<1>. DEFINE full == Refill(w, need)
            take == Least(Most(task.chunk, need), w.segment.remaining)
            chunk == DataOf(w.reader, take)
            r == Read(w.reader, take)
            s == [w.segment EXCEPT !.remaining = w.segment.remaining - Len(chunk),
                                   !.buf = w.segment.buf \o chunk]
<1>1. /\ last \in Nat /\ last <= FileSize
      /\ w.reader \in Readers /\ ReaderInv(w.reader) /\ w.reader.pos \in Nat
      /\ w.segment \in Segments /\ w.segment.remaining \in Nat /\ w.segment.subs \in Nat
      /\ w.segment.buf \in Seq(DumpCells) /\ Len(w.segment.buf) \in Nat
      /\ w.reader.pos + w.segment.remaining = last
      /\ Len(w.segment.buf) <= w.reader.pos
      /\ Passed(w) = w.reader.pos - Len(w.segment.buf) /\ Passed(w) \in Nat
      /\ \A i \in 1..Len(w.segment.buf) : w.segment.buf[i] = task.file[Passed(w) + i]
  BY WalkParts
<1>2. CASE w.segment.remaining = 0
  BY <1>2 DEF Refill
<1>3. CASE w.segment.remaining # 0
  <2>1. full = [reader |-> r, segment |-> s]
    BY <1>3 DEF Refill
  <2>2. task.chunk \in Nat /\ FileSize \in Nat
    BY ScanTypes
  <2>3. take \in Nat /\ take <= w.segment.remaining /\ (take >= need \/ take = w.segment.remaining)
    BY <1>1, <2>2 DEF Least, Most
  <2>. HIDE DEF take
  <2>4. /\ ReaderInv(r) /\ r.incomplete = w.reader.incomplete
        /\ r.pos = w.reader.pos + Len(chunk)
        /\ chunk \in Seq(DumpCells) /\ Len(chunk) <= take
        /\ \A i \in 1..Len(chunk) : chunk[i] = task.file[w.reader.pos + i]
        /\ Len(chunk) = take \/ w.reader.pos + Len(chunk) >= FileSize
    BY <1>1, <2>3, ReadKeeps
  <2>. HIDE DEF chunk, r
  <2>5. Len(chunk) = take
    BY <1>1, <2>2, <2>3, <2>4
  <2>. DEFINE had == w.segment.buf
  <2>6. had \in Seq(DumpCells) /\ Len(had) = Len(w.segment.buf)
    BY <1>1
  <2>. DEFINE buf == had \o chunk
  <2>. HIDE DEF had
  <2>7. /\ buf \in Seq(DumpCells) /\ Len(buf) = Len(had) + take
        /\ \A i \in 1..Len(had) : buf[i] = had[i]
        /\ \A i \in 1..Len(chunk) : buf[Len(had) + i] = chunk[i]
    <3>1. had \in Seq(DumpCells) /\ chunk \in Seq(DumpCells)
      BY <2>4, <2>6
    <3>2. /\ had \o chunk \in Seq(DumpCells) /\ Len(had \o chunk) = Len(had) + Len(chunk)
          /\ \A i \in 1..Len(had) : (had \o chunk)[i] = had[i]
          /\ \A i \in 1..Len(chunk) : (had \o chunk)[Len(had) + i] = chunk[i]
      BY <3>1, Extended
    <3>. QED
      BY <2>5, <3>2
  <2>8. s = [w.segment EXCEPT !.remaining = w.segment.remaining - take, !.buf = buf]
    BY <2>5 DEF had
  <2>. HIDE DEF buf, s
  <2>9. /\ s \in Segments /\ s.buf = buf /\ s.subs = w.segment.subs
        /\ s.remaining = w.segment.remaining - take /\ s.remaining \in Nat
    <3>1. w.segment.remaining - take \in Nat
      BY <1>1, <2>3
    <3>. QED
      BY <1>1, <2>7, <2>8, <3>1 DEF Segments
  <2>10. r \in Readers /\ r.pos \in Nat
    BY <2>4 DEF ReaderInv, Readers
  <2>. DEFINE pos == w.reader.pos
              left == w.segment.remaining
              size == Len(had)
  <2>11. /\ pos \in Nat /\ left \in Nat /\ size \in Nat /\ take \in Nat /\ need \in Nat
         /\ take <= left /\ pos + left = last /\ size <= pos
         /\ Passed(w) = pos - size /\ Passed(w) \in Nat
         /\ r.pos = pos + take /\ s.remaining = left - take /\ Len(s.buf) = size + take
         /\ (take >= need \/ take = left) /\ size = Len(w.segment.buf)
    BY <1>1, <2>3, <2>4, <2>5, <2>6, <2>7, <2>9
  <2>. HIDE DEF pos, left, size
  <2>12. /\ r.pos + s.remaining = last /\ Len(s.buf) <= r.pos
         /\ r.pos - Len(s.buf) = Passed(w)
    BY <2>11
  <2>13. ASSUME NEW i \in 1..Len(s.buf)
         PROVE  s.buf[i] = task.file[Passed(w) + i]
    <3>1. i \in Nat /\ i >= 1 /\ i <= Len(had) + take /\ Len(had) \in Nat
      BY <2>11 DEF size
    <3>2. CASE i <= Len(had)
      <4>1. i \in 1..Len(had)
        BY <3>1, <3>2
      <4>. QED
        BY <1>1, <2>6, <2>7, <2>9, <4>1 DEF had
    <3>3. CASE ~(i <= Len(had))
      <4>1. PICK k \in 1..Len(chunk) : i = Len(had) + k
        <5>1. i - Len(had) \in 1..Len(chunk) /\ i = Len(had) + (i - Len(had))
          BY <2>3, <2>5, <3>1, <3>3
        <5>. QED
          BY <5>1
      <4>2. s.buf[i] = task.file[w.reader.pos + k]
        BY <2>4, <2>7, <2>9, <4>1
      <4>3. pos + k = Passed(w) + i
        <5>1. i = size + k /\ k \in Nat
          BY <2>3, <2>5, <4>1 DEF size
        <5>. QED
          <6>1. /\ pos \in Nat /\ size \in Nat /\ Passed(w) = pos - size
            BY <2>11
          <6>. QED
            BY <5>1, <6>1
      <4>. QED
        BY <4>2, <4>3 DEF pos
    <3>. QED
      BY <3>2, <3>3
  <2>14. Walking(full, last) /\ Passed(full) = Passed(w)
    <3>1. \A i \in 1..Len(s.buf) : s.buf[i] = task.file[(r.pos - Len(s.buf)) + i]
      BY <2>12, <2>13
    <3>2. /\ Walking([reader |-> r, segment |-> s], last)
          /\ Passed([reader |-> r, segment |-> s]) = r.pos - Len(s.buf)
      BY <1>1, <2>4, <2>9, <2>10, <2>12, <3>1, WalkMade
    <3>. QED
      BY <2>1, <2>12, <3>2
  <2>15. full.reader = r /\ full.segment = s
    BY <2>1
  <2>16. Len(s.buf) >= Len(w.segment.buf) + need \/ s.remaining = 0
    <3>1. s.remaining = 0 \/ Len(s.buf) >= size + need
      BY <2>11
    <3>. QED
      BY <2>11, <3>1
  <2>. QED
    BY <2>4, <2>9, <2>14, <2>15, <2>16
<1>. QED
  BY <1>2, <1>3

(* A walk that is made sure of n cells of the segment has them. *)
LEMMA EnsureKeeps ==
    ASSUME task \in Scans, NEW w, NEW last, Walking(w, last), NEW n \in Nat
    PROVE  LET full == Ensure(w, n)
           IN  /\ Walking(full, last) /\ Passed(full) = Passed(w)
               /\ full.reader.incomplete = w.reader.incomplete
               /\ full.segment.subs = w.segment.subs
               /\ Passed(w) + n <= last => Buffered(full, n)
<1>. DEFINE full == Ensure(w, n)
<1>1. /\ last \in Nat /\ w.reader.pos \in Nat /\ w.segment.remaining \in Nat
      /\ Len(w.segment.buf) \in Nat
      /\ w.reader.pos + w.segment.remaining = last
      /\ Passed(w) = w.reader.pos - Len(w.segment.buf) /\ Passed(w) \in Nat
  BY WalkParts
<1>2. CASE Len(w.segment.buf) >= n
  BY <1>1, <1>2 DEF Ensure, Buffered
<1>3. CASE ~(Len(w.segment.buf) >= n)
  <2>. DEFINE need == n - Len(w.segment.buf)
  <2>1. need \in Nat /\ full = Refill(w, need)
    BY <1>1, <1>3 DEF Ensure
  <2>2. /\ Walking(full, last) /\ Passed(full) = Passed(w)
        /\ full.reader.incomplete = w.reader.incomplete
        /\ full.segment.subs = w.segment.subs
        /\ \/ Len(full.segment.buf) >= Len(w.segment.buf) + need
           \/ full.segment.remaining = 0
    <3>. HIDE DEF need
    <3>. QED
      BY <2>1, RefillKeeps
  <2>. HIDE DEF full
  <2>3. /\ full.reader.pos \in Nat /\ full.segment.remaining \in Nat
        /\ Len(full.segment.buf) \in Nat
        /\ full.reader.pos + full.segment.remaining = last
        /\ Passed(full) = full.reader.pos - Len(full.segment.buf)
    BY <2>2, WalkParts
  <2>4. Passed(w) + n <= last => Len(full.segment.buf) >= n
    <3>. DEFINE had == Len(w.segment.buf)
                has == Len(full.segment.buf)
    <3>1. /\ had \in Nat /\ has \in Nat /\ Passed(w) \in Nat /\ full.reader.pos \in Nat
          /\ n = had + need /\ Passed(w) = full.reader.pos - has
          /\ (has >= had + need \/ full.reader.pos = last)
      BY <1>1, <1>3, <2>2, <2>3
    <3>. HIDE DEF had, has, need
    <3>2. Passed(w) + n <= last => has >= n
      BY <1>1, <3>1
    <3>. QED
      BY <3>2 DEF has
  <2>. QED
    BY <2>2, <2>4 DEF Buffered, full
<1>. QED
  BY <1>2, <1>3

(* A walk passes what it has buffered. *)
LEMMA PassKeeps ==
    ASSUME task \in Scans, NEW w, NEW last, Walking(w, last), NEW n \in Nat, Buffered(w, n)
    PROVE  LET after == Pass(w, n)
           IN  /\ Walking(after, last) /\ Passed(after) = Passed(w) + n
               /\ after.reader.incomplete = w.reader.incomplete
               /\ after.segment.subs = w.segment.subs
<1>. DEFINE had == w.segment.buf
            rest == Drop(had, n)
            s == [w.segment EXCEPT !.buf = rest]
<1>1. /\ last \in Nat /\ last <= FileSize
      /\ w.reader \in Readers /\ ReaderInv(w.reader) /\ w.reader.pos \in Nat
      /\ w.segment \in Segments /\ w.segment.remaining \in Nat /\ w.segment.subs \in Nat
      /\ had \in Seq(DumpCells) /\ Len(had) \in Nat
      /\ w.reader.pos + w.segment.remaining = last
      /\ Len(had) <= w.reader.pos
      /\ Passed(w) = w.reader.pos - Len(had) /\ Passed(w) \in Nat
      /\ \A i \in 1..Len(had) : had[i] = task.file[Passed(w) + i]
  BY WalkParts
<1>2. Len(had) >= n /\ Least(n, Len(had)) = n
  BY <1>1 DEF Buffered, Least
<1>3. Pass(w, n) = [reader |-> w.reader, segment |-> s]
  <2>1. Pass(w, n) = [w EXCEPT !.segment.buf = rest]
    BY <1>2 DEF Pass
  <2>2. w \in Walks
    BY DEF Walking
  <2>. HIDE DEF rest
  <2>. QED
    BY <2>1, <2>2 DEF Walks
<1>. HIDE DEF had
<1>4. /\ rest \in Seq(DumpCells) /\ Len(rest) = Len(had) - n
      /\ \A i \in 1..(Len(had) - n) : rest[i] = had[n + i]
  BY <1>1, <1>2, DropAndTake
<1>. HIDE DEF rest
<1>5. /\ s \in Segments /\ s.buf = rest /\ s.subs = w.segment.subs
      /\ s.remaining = w.segment.remaining
  BY <1>1, <1>4 DEF Segments
<1>. HIDE DEF s
<1>6. Len(s.buf) <= w.reader.pos /\ w.reader.pos - Len(s.buf) = Passed(w) + n
  <2>. DEFINE pos == w.reader.pos
              size == Len(had)
  <2>1. /\ pos \in Nat /\ size \in Nat /\ size <= pos /\ n <= size
        /\ Passed(w) = pos - size /\ Len(s.buf) = size - n
    BY <1>1, <1>2, <1>4, <1>5
  <2>. HIDE DEF pos, size
  <2>2. Len(s.buf) <= pos /\ pos - Len(s.buf) = Passed(w) + n
    BY <2>1
  <2>. QED
    BY <2>2 DEF pos
<1>7. ASSUME NEW i \in 1..Len(s.buf)
      PROVE  s.buf[i] = task.file[(Passed(w) + n) + i]
  <2>1. n + i \in 1..Len(had) /\ s.buf[i] = had[n + i]
    BY <1>1, <1>2, <1>4, <1>5
  <2>2. Passed(w) + (n + i) = (Passed(w) + n) + i
    BY <1>1
  <2>. QED
    BY <1>1, <2>1, <2>2
<1>. DEFINE r == w.reader
<1>8. /\ Walking([reader |-> r, segment |-> s], last)
      /\ Passed([reader |-> r, segment |-> s]) = r.pos - Len(s.buf)
  <2>1. r \in Readers /\ ReaderInv(r) /\ r.pos + s.remaining = last /\ Len(s.buf) <= r.pos
    BY <1>1, <1>5, <1>6
  <2>2. \A i \in 1..Len(s.buf) : s.buf[i] = task.file[(r.pos - Len(s.buf)) + i]
    BY <1>6, <1>7
  <2>. HIDE DEF r
  <2>. QED
    BY <1>1, <1>5, <2>1, <2>2, WalkMade
<1>. QED
  BY <1>3, <1>5, <1>6, <1>8

(* A payload that is in the segment is skipped as a whole. *)
LEMMA SkipPayloadKeeps ==
    ASSUME task \in Scans, NEW w, NEW last, Walking(w, last), NEW n \in Nat,
           Passed(w) + n <= last
    PROVE  LET after == SkipPayload(w, n)
           IN  /\ Walking(after, last) /\ Passed(after) = Passed(w) + n
               /\ after.reader.incomplete = w.reader.incomplete
               /\ after.segment.subs = w.segment.subs
<1>. DEFINE rest == n - Least(n, Len(w.segment.buf))
            take == Least(rest, w.segment.remaining)
            r == Skip(w.reader, take)
            s == [w.segment EXCEPT !.buf = <<>>, !.remaining = w.segment.remaining - take]
<1>1. /\ last \in Nat /\ last <= FileSize
      /\ w.reader \in Readers /\ ReaderInv(w.reader) /\ w.reader.pos \in Nat
      /\ w.segment \in Segments /\ w.segment.remaining \in Nat /\ w.segment.subs \in Nat
      /\ Len(w.segment.buf) \in Nat
      /\ w.reader.pos + w.segment.remaining = last
      /\ Passed(w) = w.reader.pos - Len(w.segment.buf) /\ Passed(w) \in Nat
  BY WalkParts
<1>2. CASE rest = 0
  <2>1. Buffered(w, n) /\ SkipPayload(w, n) = Pass(w, n)
    BY <1>1, <1>2 DEF Buffered, Least, SkipPayload
  <2>. QED
    BY <2>1, PassKeeps
<1>3. CASE rest # 0
  <2>1. SkipPayload(w, n) = [reader |-> r, segment |-> s]
    BY <1>3 DEF SkipPayload
  <2>2. rest \in Nat /\ rest = n - Len(w.segment.buf) /\ rest <= w.segment.remaining
    <3>. DEFINE pos == w.reader.pos
                left == w.segment.remaining
                size == Len(w.segment.buf)
                passed == Passed(w)
    <3>1. /\ pos \in Nat /\ left \in Nat /\ size \in Nat /\ passed \in Nat
          /\ pos + left = last /\ passed = pos - size /\ passed + n <= last
      BY <1>1
    <3>2. rest = n - Least(n, size) /\ rest # 0
      BY <1>3
    <3>. HIDE DEF pos, left, size, passed, rest
    <3>3. size <= n /\ rest = n - size
      BY <3>1, <3>2 DEF Least
    <3>4. rest \in Nat /\ rest <= left
      BY <3>1, <3>3
    <3>. QED
      BY <3>3, <3>4 DEF left, size
  <2>3. take = rest /\ take \in Nat /\ take <= w.segment.remaining
    BY <1>1, <2>2 DEF Least
  <2>. HIDE DEF take, rest
  <2>4. ReaderInv(r) /\ r.pos = w.reader.pos + take /\ r.incomplete = w.reader.incomplete
    BY <1>1, <2>3, SkipKeeps
  <2>. HIDE DEF r
  <2>5. r \in Readers
    BY <2>4 DEF ReaderInv, Readers
  <2>6. <<>> \in Seq(DumpCells) /\ Len(<<>>) = 0
    OBVIOUS
  <2>7. /\ s \in Segments /\ s.buf = <<>> /\ s.subs = w.segment.subs
        /\ s.remaining = w.segment.remaining - take
    <3>1. w.segment.remaining - take \in Nat
      BY <1>1, <2>3
    <3>. QED
      BY <1>1, <2>6, <3>1 DEF Segments
  <2>. HIDE DEF s
  <2>8. Len(s.buf) = 0
    BY <2>6, <2>7
  <2>9. /\ r.pos + s.remaining = last /\ Len(s.buf) <= r.pos
        /\ r.pos - Len(s.buf) = Passed(w) + n
    <3>. DEFINE pos == w.reader.pos
                left == w.segment.remaining
                size == Len(w.segment.buf)
    <3>1. /\ pos \in Nat /\ left \in Nat /\ size \in Nat /\ take \in Nat /\ take <= left
          /\ pos + left = last /\ take = n - size /\ Passed(w) = pos - size
          /\ r.pos = pos + take /\ s.remaining = left - take
      BY <1>1, <2>2, <2>3, <2>4, <2>7
    <3>. HIDE DEF pos, left, size
    <3>. QED
      BY <2>8, <3>1
  <2>10. \A i \in 1..Len(s.buf) : s.buf[i] = task.file[(r.pos - Len(s.buf)) + i]
    BY <2>8
  <2>11. /\ Walking([reader |-> r, segment |-> s], last)
         /\ Passed([reader |-> r, segment |-> s]) = r.pos - Len(s.buf)
    BY <1>1, <2>4, <2>5, <2>7, <2>9, <2>10, WalkMade
  <2>. QED
    BY <2>1, <2>4, <2>7, <2>9, <2>11
<1>. QED
  BY <1>2, <1>3

(* A walk that is made sure of n cells that are in the segment passes them. *)
LEMMA EnsureAndPass ==
    ASSUME task \in Scans, NEW w, NEW last, Walking(w, last), NEW n \in Nat,
           Passed(w) + n <= last
    PROVE  LET after == Pass(Ensure(w, n), n)
           IN  /\ Walking(after, last) /\ Passed(after) = Passed(w) + n
               /\ after.reader.incomplete = w.reader.incomplete
               /\ after.segment.subs = w.segment.subs
<1>. DEFINE full == Ensure(w, n)
<1>1. /\ Walking(full, last) /\ Passed(full) = Passed(w)
      /\ full.reader.incomplete = w.reader.incomplete
      /\ full.segment.subs = w.segment.subs /\ Buffered(full, n)
  BY EnsureKeeps
<1>. HIDE DEF full
<1>2. /\ Walking(Pass(full, n), last) /\ Passed(Pass(full, n)) = Passed(full) + n
      /\ Pass(full, n).reader.incomplete = full.reader.incomplete
      /\ Pass(full, n).segment.subs = full.segment.subs
  BY <1>1, PassKeeps
<1>. QED
  BY <1>1, <1>2 DEF full

(* The walks past one part after the other exist: their definition has a   *)
(* solution.                                                               *)
LEMMA PassPartsDef ==
    ASSUME NEW w, NEW parts \in Seq(Nat)
    PROVE  \E passed : /\ PassParts(w, parts) = passed[Len(parts)]
                       /\ \A k \in 0..Len(parts) :
                             passed[k] = IF k = 0 THEN w
                                         ELSE Pass(Ensure(passed[k - 1], parts[k]), parts[k])
<1>. DEFINE Upto(k) == \E f : \A n \in 0..k :
                          f[n] = IF n = 0 THEN w ELSE Pass(Ensure(f[n - 1], parts[n]), parts[n])
            S == {k \in Nat : k <= Len(parts) => Upto(k)}
<1>1. 0 \in S
  <2>. DEFINE f == [n \in 0..0 |-> w]
  <2>1. \A n \in 0..0 : n = 0 /\ f[n] = w
    OBVIOUS
  <2>. HIDE DEF f
  <2>2. Upto(0)
    BY <2>1
  <2>. QED
    BY <2>2
<1>2. ASSUME NEW k \in S PROVE k + 1 \in S
  <2>. HIDE DEF Upto
  <2>1. k \in Nat /\ Len(parts) \in Nat
    BY <1>2
  <2>. SUFFICES ASSUME k + 1 <= Len(parts) PROVE Upto(k + 1)
    BY <2>1
  <2>2. Upto(k)
    BY <1>2, <2>1
  <2>. USE DEF Upto
  <2>3. PICK f : \A n \in 0..k :
           f[n] = IF n = 0 THEN w ELSE Pass(Ensure(f[n - 1], parts[n]), parts[n])
    BY <2>2
  <2>. DEFINE further == Pass(Ensure(f[k], parts[k + 1]), parts[k + 1])
              g == [n \in 0..(k + 1) |-> IF n = k + 1 THEN further ELSE f[n]]
  <2>4. /\ g[k + 1] = further /\ \A n \in 0..k : g[n] = f[n]
    BY <2>1
  <2>. HIDE DEF g
  <2>5. ASSUME NEW n \in 0..(k + 1)
        PROVE  g[n] = IF n = 0 THEN w ELSE Pass(Ensure(g[n - 1], parts[n]), parts[n])
    <3>1. CASE n = k + 1
      <4>1. n # 0 /\ n - 1 = k /\ k \in 0..k
        BY <2>1, <3>1
      <4>. QED
        BY <2>4, <3>1, <4>1
    <3>2. CASE n \in 0..k
      <4>1. n # 0 => n - 1 \in 0..k
        BY <2>1, <3>2
      <4>. QED
        BY <2>3, <2>4, <3>2, <4>1
    <3>. QED
      BY <2>1, <3>1, <3>2
  <2>. QED
    BY <2>5
<1>3. S = Nat
  <2>1. S \in SUBSET Nat
    OBVIOUS
  <2>. HIDE DEF S
  <2>. QED
    BY <1>1, <1>2, <2>1, Induction
<1>. HIDE DEF S
<1>4. Upto(Len(parts))
  <2>. HIDE DEF Upto
  <2>1. Len(parts) \in S /\ Len(parts) \in Nat
    BY <1>3
  <2>. QED
    BY <2>1 DEF S
<1>5. PICK f : \A n \in 0..Len(parts) :
         f[n] = IF n = 0 THEN w ELSE Pass(Ensure(f[n - 1], parts[n]), parts[n])
  BY <1>4
<1>. DEFINE h == [n \in 0..Len(parts) |-> f[n]]
<1>6. h = [n \in 0..Len(parts) |->
             IF n = 0 THEN w ELSE Pass(Ensure(h[n - 1], parts[n]), parts[n])]
  <2>1. ASSUME NEW n \in 0..Len(parts)
        PROVE  f[n] = IF n = 0 THEN w ELSE Pass(Ensure(h[n - 1], parts[n]), parts[n])
    <3>1. n # 0 => n - 1 \in 0..Len(parts)
      OBVIOUS
    <3>2. n # 0 => h[n - 1] = f[n - 1]
      BY <3>1
    <3>. HIDE DEF h
    <3>. QED
      BY <1>5, <3>2
  <2>. QED
    BY <2>1
<1>. DEFINE passed == CHOOSE g : g = [n \in 0..Len(parts) |->
               IF n = 0 THEN w ELSE Pass(Ensure(g[n - 1], parts[n]), parts[n])]
<1>7. PassParts(w, parts) = passed[Len(parts)]
  BY DEF PassParts
<1>8. passed = [n \in 0..Len(parts) |->
                  IF n = 0 THEN w ELSE Pass(Ensure(passed[n - 1], parts[n]), parts[n])]
  <2>. HIDE DEF h
  <2>. QED
    BY <1>6
<1>. HIDE DEF passed
<1>9. \A k \in 0..Len(parts) :
         passed[k] = IF k = 0 THEN w ELSE Pass(Ensure(passed[k - 1], parts[k]), parts[k])
  BY <1>8
<1>. QED
  BY <1>7, <1>9

(* A class is passed as a whole. *)
LEMMA PassPartsKeeps ==
    ASSUME task \in Scans, NEW w, NEW last, Walking(w, last), NEW parts \in Seq(Nat),
           Passed(w) + SumOf(parts) <= last
    PROVE  LET after == PassParts(w, parts)
           IN  /\ Walking(after, last) /\ Passed(after) = Passed(w) + SumOf(parts)
               /\ after.reader.incomplete = w.reader.incomplete
               /\ after.segment.subs = w.segment.subs
<1>1. PICK passed : /\ PassParts(w, parts) = passed[Len(parts)]
                    /\ \A k \in 0..Len(parts) :
                          passed[k] = IF k = 0 THEN w
                                      ELSE Pass(Ensure(passed[k - 1], parts[k]), parts[k])
  BY PassPartsDef
<1>. DEFINE sum == PartialSums(parts)
            Good(k) == /\ Walking(passed[k], last) /\ Passed(passed[k]) = Passed(w) + sum[k]
                       /\ passed[k].reader.incomplete = w.reader.incomplete
                       /\ passed[k].segment.subs = w.segment.subs
            S == {k \in Nat : k <= Len(parts) => Good(k)}
<1>2. Passed(w) \in Nat /\ last \in Nat /\ SumOf(parts) \in Nat
  BY WalkParts, SumsAreNumbers DEF SumOf
<1>3. 0 \in S
  <2>1. 0 \in 0..Len(parts)
    OBVIOUS
  <2>2. sum[0] = 0 /\ passed[0] = w
    BY <1>1, <2>1, PartialSumsDef
  <2>. HIDE DEF sum
  <2>3. Passed(w) + sum[0] = Passed(w)
    BY <1>2, <2>2
  <2>. QED
    BY <2>2, <2>3
<1>4. ASSUME NEW k \in S PROVE k + 1 \in S
  <2>. HIDE DEF Good
  <2>. SUFFICES ASSUME k + 1 <= Len(parts) PROVE Good(k + 1)
    OBVIOUS
  <2>1. Good(k)
    BY <1>4
  <2>2. /\ k \in 0..Len(parts) /\ k + 1 \in 0..Len(parts) /\ k + 1 \in 1..Len(parts)
        /\ k + 1 # 0 /\ (k + 1) - 1 = k
    OBVIOUS
  <2>. DEFINE n == parts[k + 1]
              before == passed[k]
  <2>3. n \in Nat
    BY <2>2, Members
  <2>4. passed[k + 1] = Pass(Ensure(before, n), n)
    BY <1>1, <2>2
  <2>5. sum[k + 1] = sum[k] + n /\ sum[k] \in Nat /\ sum[k + 1] <= SumOf(parts)
    BY <2>2, PartialSumsDef, SumsAreNumbers, SumsAreWithin
  <2>6. /\ Walking(before, last) /\ Passed(before) = Passed(w) + sum[k]
        /\ before.reader.incomplete = w.reader.incomplete
        /\ before.segment.subs = w.segment.subs
    BY <2>1 DEF Good
  <2>. HIDE DEF n, before, sum
  <2>7. Passed(before) + n <= last /\ Passed(before) + n = Passed(w) + sum[k + 1]
    <3>. DEFINE here == sum[k]
                there == sum[k + 1]
                total == SumOf(parts)
                at == Passed(w)
    <3>1. /\ here \in Nat /\ total \in Nat /\ at \in Nat /\ there = here + n
          /\ there <= total /\ at + total <= last /\ Passed(before) = at + here
      BY <1>2, <2>5, <2>6
    <3>. HIDE DEF here, there, total, at
    <3>2. Passed(before) + n <= last /\ Passed(before) + n = at + there
      BY <1>2, <2>3, <3>1
    <3>. QED
      BY <3>2 DEF at, there
  <2>8. /\ Walking(Pass(Ensure(before, n), n), last)
        /\ Passed(Pass(Ensure(before, n), n)) = Passed(before) + n
        /\ Pass(Ensure(before, n), n).reader.incomplete = before.reader.incomplete
        /\ Pass(Ensure(before, n), n).segment.subs = before.segment.subs
    BY <2>3, <2>6, <2>7, EnsureAndPass
  <2>. QED
    BY <2>4, <2>6, <2>7, <2>8 DEF Good
<1>5. S = Nat
  <2>1. S \in SUBSET Nat
    OBVIOUS
  <2>. HIDE DEF S
  <2>. QED
    BY <1>3, <1>4, <2>1, Induction
<1>6. Good(Len(parts))
  <2>. HIDE DEF Good
  <2>1. Len(parts) \in S /\ Len(parts) \in Nat
    BY <1>5
  <2>. QED
    BY <2>1
<1>. QED
  BY <1>1, <1>6 DEF SumOf

-----------------------------------------------------------------------------
(* Records of a dump.                                                      *)

(* The cells of a dump. *)
LEMMA Cells ==
    ASSUME task \in Scans, NEW i \in 1..FileSize
    PROVE  /\ task.file[i] \in DumpCells /\ task.file[i].id = i
           /\ task.file[i].parts \in Seq(Nat) /\ task.file[i].payload \in Nat
           /\ task.file[i].kept \in BOOLEAN /\ task.file[i].length \in Nat
<1>1. task.file[i] \in DumpCells /\ task.file[i].id = i
  BY ScanTypes, Members DEF IsDump, FileSize
<1>. QED
  BY <1>1 DEF DumpCells

(* What is behind the cell of a top-level record. *)
LEMMA TopRecords ==
    ASSUME task \in Scans, NEW i \in 1..FileSize, task.file[i].kind \in TopKinds
    PROVE  LET file == task.file
               body == i + TopHeader
               end == TopEnd(task.file, i)
           IN  /\ TopHeader \in Nat /\ TopHeader >= 1
               /\ body \in Nat /\ end \in Nat /\ end = body + file[i].length
               /\ \A k \in i + 1 .. FileSize : k < body => file[k].kind = "data"
               /\ file[i].kind # "segment" =>
                      \A k \in i + 1 .. FileSize : k < end => file[k].kind = "data"
               /\ end <= FileSize => file[end].kind \in TopKinds
               /\ (file[i].kind = "segment" /\ end - 1 <= FileSize /\ body < end) =>
                      file[body].kind \in HeapKinds \cup {"unknown"}
<1>. DEFINE file == task.file
            body == i + TopHeader
            end == TopEnd(file, i)
<1>1. IsTopRecord(file, i) /\ i \in Nat /\ i >= 1 /\ FileSize \in Nat /\ Len(file) = FileSize
  BY ScanTypes DEF IsDump, FileSize
<1>2. file[i].length \in Nat /\ TopHeader \in Nat /\ TopHeader >= 1
  BY Cells, TopHeaderAssumption
<1>3. body \in Nat /\ end \in Nat /\ end = body + file[i].length /\ body <= end
  BY <1>1, <1>2 DEF TopEnd
<1>4. DataBetween(file, i, IF file[i].kind = "segment" THEN body ELSE end)
  BY <1>1 DEF IsTopRecord
<1>5. DOMAIN file = 1..FileSize
  BY ScanTypes DEF FileSize
<1>6. end <= FileSize => file[end].kind \in TopKinds
  <2>1. i + TopHeader >= 1
    BY <1>1, <1>2
  <2>2. end \in DOMAIN file => file[end].kind \in TopKinds
    BY <1>1 DEF IsTopRecord
  <2>. HIDE DEF file, end
  <2>3. end >= 1
    BY <1>1, <1>2, <1>3
  <2>. QED
    BY <1>1, <1>3, <1>5, <2>2, <2>3
<1>7. (file[i].kind = "segment" /\ end - 1 <= FileSize /\ body < end) =>
         file[body].kind \in HeapKinds \cup {"unknown"}
  BY <1>1 DEF IsTopRecord
<1>. HIDE DEF file, body, end
<1>8. ASSUME NEW k \in i + 1 .. FileSize, k < body
      PROVE  file[k].kind = "data"
  <2>1. CASE file[i].kind = "segment"
    BY <1>1, <1>3, <1>4, <1>8, <2>1 DEF DataBetween, Least
  <2>2. CASE file[i].kind # "segment"
    BY <1>1, <1>3, <1>4, <1>8, <2>2 DEF DataBetween, Least
  <2>. QED
    BY <2>1, <2>2
<1>9. ASSUME NEW k \in i + 1 .. FileSize, k < end, file[i].kind # "segment"
      PROVE  file[k].kind = "data"
  BY <1>1, <1>3, <1>4, <1>9 DEF DataBetween, Least
<1>. QED
  BY <1>2, <1>3, <1>6, <1>7, <1>8, <1>9 DEF file, body, end

(* What is behind the cell of a heap record. *)
LEMMA HeapRecords ==
    ASSUME task \in Scans, NEW s \in 1..FileSize, task.file[s].kind = "segment",
           TopEnd(task.file, s) - 1 <= FileSize,
           NEW i \in Nat, s + TopHeader <= i, i < TopEnd(task.file, s),
           task.file[i].kind \in HeapKinds
    PROVE  LET file == task.file
               cell == task.file[i]
               behind == HeapEnd(task.file, i)
           IN  /\ i \in 1..FileSize /\ SumOf(cell.parts) \in Nat /\ cell.payload \in Nat
               /\ behind \in Nat /\ behind = i + 1 + SumOf(cell.parts) + cell.payload
               /\ behind <= TopEnd(file, s)
               /\ cell.kind # "class" => cell.parts[1] \in Nat /\ SumOf(cell.parts) = cell.parts[1]
               /\ cell.kind \notin {"instance", "array"} => cell.payload = 0
               /\ \A k \in i + 1 .. behind - 1 : file[k].kind = "data"
               /\ behind < TopEnd(file, s) => file[behind].kind \in HeapKinds \cup {"unknown"}
<1>. DEFINE file == task.file
            cell == task.file[i]
            behind == HeapEnd(task.file, i)
            end == TopEnd(task.file, s)
<1>1. /\ IsTopRecord(file, s) /\ FileSize \in Nat /\ Len(file) = FileSize
      /\ DOMAIN file = 1..FileSize
  BY ScanTypes DEF IsDump, FileSize, TopKinds
<1>2. end \in Nat /\ TopHeader \in Nat /\ s \in Nat /\ s >= 1
  <2>1. task.file[s].length \in Nat /\ TopHeader \in Nat
    BY Cells, TopHeaderAssumption
  <2>. QED
    BY <2>1 DEF TopEnd
<1>3. i \in 1..FileSize
  <2>. HIDE DEF end
  <2>1. end - 1 <= FileSize /\ i < end /\ s + TopHeader <= i
    BY DEF end
  <2>. QED
    BY <1>1, <1>2, <2>1
<1>4. IsHeapRecord(file, i, end)
  <2>1. /\ end - 1 <= Len(file) /\ i \in s + TopHeader .. end - 1
    <3>. HIDE DEF end, file
    <3>1. end - 1 <= FileSize /\ i < end /\ s + TopHeader <= i
      BY DEF end
    <3>. QED
      BY <1>1, <1>2, <3>1
  <2>2. \A k \in s + TopHeader .. end - 1 :
           file[k].kind \in HeapKinds => IsHeapRecord(file, k, end)
    BY <1>1, <2>1 DEF IsTopRecord
  <2>. HIDE DEF end
  <2>. QED
    BY <2>1, <2>2
<1>5. cell.parts \in Seq(Nat) /\ cell.payload \in Nat
  BY <1>3, Cells
<1>6. SumOf(cell.parts) \in Nat
  <2>. DEFINE parts == cell.parts
  <2>1. parts \in Seq(Nat)
    BY <1>5
  <2>. HIDE DEF parts
  <2>2. SumOf(parts) \in Nat
    BY <2>1, SumsAreNumbers DEF SumOf
  <2>. QED
    BY <2>2 DEF parts
<1>7. cell.kind # "class" => cell.parts[1] \in Nat /\ SumOf(cell.parts) = cell.parts[1]
  <2>. DEFINE parts == cell.parts
  <2>1. parts \in Seq(Nat) /\ (cell.kind # "class" => Len(parts) = 1)
    BY <1>4, <1>5 DEF IsHeapRecord
  <2>. HIDE DEF parts, cell
  <2>2. cell.kind # "class" => SumOf(parts) = parts[1]
    BY <2>1, SumOfOne
  <2>3. SumOf(parts) \in Nat
    BY <1>6 DEF parts
  <2>. QED
    BY <2>2, <2>3 DEF parts
<1>8. cell.kind \notin {"instance", "array"} => cell.payload = 0
  BY <1>4 DEF IsHeapRecord
<1>9. behind = i + 1 + SumOf(cell.parts) + cell.payload /\ behind <= end
      /\ DataBetween(file, i, behind)
      /\ (behind < end => file[behind].kind \in HeapKinds \cup {"unknown"})
  BY <1>4 DEF IsHeapRecord, HeapEnd
<1>10. behind \in Nat
  <2>. HIDE DEF cell, behind
  <2>. QED
    BY <1>5, <1>6, <1>9
<1>11. \A k \in i + 1 .. behind - 1 : file[k].kind = "data"
  <2>1. end - 1 <= FileSize
    OBVIOUS
  <2>. HIDE DEF file, cell, behind, end
  <2>2. Least(behind - 1, Len(file)) = behind - 1
    BY <1>1, <1>2, <1>9, <1>10, <2>1 DEF Least
  <2>. QED
    BY <1>9, <2>2 DEF DataBetween
<1>. QED
  BY <1>3, <1>5, <1>6, <1>7, <1>8, <1>9, <1>10, <1>11

-----------------------------------------------------------------------------
(* Counting.                                                               *)

(* CountedUpTo, of a given file and count. *)
ExactUpTo(file, count, n) ==
    /\ ToSet(count) = {i \in 1..n : file[i].kind \in Counting}
    /\ \A i, j \in 1..Len(count) : i < j => count[i] < count[j]

(* Where nothing is to be counted, nothing is missed. *)
LEMMA CountNothing ==
    ASSUME NEW file, NEW count, NEW a \in Nat, NEW b \in Nat, a <= b,
           ExactUpTo(file, count, a), \A k \in a + 1 .. b : file[k].kind \notin Counting
    PROVE  ExactUpTo(file, count, b)
<1>1. {i \in 1..a : file[i].kind \in Counting} = {i \in 1..b : file[i].kind \in Counting}
  <2>1. ASSUME NEW i \in 1..b, file[i].kind \in Counting PROVE i \in 1..a
    BY <2>1
  <2>2. \A i \in 1..a : i \in 1..b
    OBVIOUS
  <2>. QED
    BY <2>1, <2>2
<1>. QED
  BY <1>1 DEF ExactUpTo

(* The next record is counted behind the others. *)
LEMMA CountOne ==
    ASSUME NEW file, NEW count \in Seq(Nat), NEW a \in Nat, NEW b \in Nat, a + 1 <= b,
           ExactUpTo(file, count, a), file[a + 1].kind \in Counting,
           \A k \in a + 2 .. b : file[k].kind \notin Counting
    PROVE  /\ Append(count, a + 1) \in Seq(Nat)
           /\ ExactUpTo(file, Append(count, a + 1), b)
<1>. DEFINE longer == Append(count, a + 1)
            size == Len(count)
<1>1. /\ longer \in Seq(Nat) /\ Len(longer) = size + 1 /\ longer[size + 1] = a + 1
      /\ \A i \in 1..size : longer[i] = count[i]
      /\ size \in Nat /\ DOMAIN count = 1..size /\ DOMAIN longer = 1..(size + 1)
  <2>1. a + 1 \in Nat
    OBVIOUS
  <2>. DEFINE x == a + 1
  <2>. HIDE DEF x
  <2>2. /\ Append(count, x) \in Seq(Nat) /\ Len(Append(count, x)) = Len(count) + 1
        /\ Append(count, x)[Len(count) + 1] = x
        /\ \A i \in 1..Len(count) : Append(count, x)[i] = count[i]
    BY <2>1, Appended DEF x
  <2>. QED
    BY <2>2 DEF x
<1>. HIDE DEF longer, size
<1>2. \A i \in 1..size : count[i] \in ToSet(count)
  BY <1>1 DEF ToSet
<1>3. \A i \in 1..size : count[i] \in 1..a
  BY <1>2 DEF ExactUpTo
<1>4. ToSet(longer) = ToSet(count) \cup {a + 1}
  <2>1. ToSet(longer) = {longer[i] : i \in 1..(size + 1)} /\ ToSet(count) = {count[i] : i \in 1..size}
    BY <1>1 DEF ToSet
  <2>2. ASSUME NEW i \in 1..(size + 1) PROVE longer[i] \in ToSet(count) \cup {a + 1}
    <3>1. CASE i \in 1..size
      BY <1>1, <1>2, <3>1
    <3>2. CASE i = size + 1
      BY <1>1, <3>2
    <3>. QED
      BY <1>1, <3>1, <3>2
  <2>3. ASSUME NEW x \in ToSet(count) \cup {a + 1} PROVE \E i \in 1..(size + 1) : x = longer[i]
    <3>1. CASE x = a + 1
      <4>1. size + 1 \in 1..(size + 1)
        BY <1>1
      <4>. QED
        BY <1>1, <3>1, <4>1
    <3>2. CASE x \in ToSet(count)
      <4>1. PICK i \in 1..size : x = count[i]
        BY <2>1, <3>2
      <4>2. i \in 1..(size + 1) /\ x = longer[i]
        BY <1>1, <4>1
      <4>. QED
        BY <4>2
    <3>. QED
      BY <3>1, <3>2
  <2>4. ToSet(longer) \subseteq ToSet(count) \cup {a + 1}
    BY <2>1, <2>2
  <2>5. ToSet(count) \cup {a + 1} \subseteq ToSet(longer)
    BY <2>1, <2>3
  <2>. QED
    BY <2>4, <2>5
<1>5. {i \in 1..a : file[i].kind \in Counting} \cup {a + 1}
          = {i \in 1..b : file[i].kind \in Counting}
  <2>1. ASSUME NEW i \in 1..b, file[i].kind \in Counting PROVE i \in 1..a \/ i = a + 1
    BY <2>1
  <2>2. a + 1 \in 1..b /\ \A i \in 1..a : i \in 1..b
    OBVIOUS
  <2>. QED
    BY <2>1, <2>2
<1>6. ASSUME NEW i \in 1..Len(longer), NEW j \in 1..Len(longer), i < j
      PROVE  longer[i] < longer[j]
  <2>1. i \in 1..size /\ longer[i] = count[i] /\ count[i] \in 1..a
    BY <1>1, <1>3, <1>6
  <2>2. CASE j \in 1..size
    BY <1>1, <1>6, <2>1, <2>2 DEF ExactUpTo, size
  <2>3. CASE j = size + 1
    BY <1>1, <2>1, <2>3
  <2>. QED
    BY <1>1, <2>2, <2>3
<1>. QED
  BY <1>1, <1>4, <1>5, <1>6 DEF ExactUpTo, longer

-----------------------------------------------------------------------------
(* The steps in a segment.                                                 *)

(* A walk in the segment that starts at s. *)
SegmentAt(w, s) ==
    LET last == TopEnd(task.file, s) - 1
    IN  /\ s \in 1..FileSize /\ task.file[s].kind = "segment"
        /\ Walking(w, last) /\ s + TopHeader <= Passed(w) + 1
        /\ Passed(w) < last => task.file[Passed(w) + 1].kind \in HeapKinds \cup {"unknown"}

(* What was counted up to n is right, or the dump was not understood. *)
CountIsRight(count, incomplete, n) ==
    /\ count \in Seq(Nat)
    /\ IF incomplete THEN ~Understood ELSE ExactUpTo(task.file, count, n)

(* The end of a segment. *)
LEMMA SegmentEnds ==
    ASSUME task \in Scans, NEW s \in 1..FileSize, task.file[s].kind = "segment"
    PROVE  TopEnd(task.file, s) \in Nat /\ TopEnd(task.file, s) - 1 \in Nat
<1>1. task.file[s].kind \in TopKinds
  BY DEF TopKinds
<1>2. s \in Nat /\ s >= 1 /\ TopHeader \in Nat /\ TopHeader >= 1 /\ task.file[s].length \in Nat
  BY Cells, TopHeaderAssumption, ScanTypes
<1>. QED
  BY <1>2 DEF TopEnd

(* In a segment the invariant says where the walk is. *)
LEMMA SegmentWalk ==
    ASSUME task \in Scans, InSegment
    PROVE  /\ \E s : SegmentAt(Walk, s)
           /\ CountIsRight(counted, reader.incomplete, Passed(Walk)) /\ stopped = 0
<1>1. PICK s \in 1..FileSize :
         LET last == TopEnd(task.file, s) - 1
         IN  /\ task.file[s].kind = "segment" /\ WalkInv(Walk, last)
             /\ s + TopHeader <= Passed(Walk) + 1 /\ CountingInv(Passed(Walk))
             /\ Passed(Walk) < last =>
                    task.file[Passed(Walk) + 1].kind \in HeapKinds \cup {"unknown"}
  BY DEF InSegment
<1>2. Walk \in Walks
  <2>1. Walk.reader = reader /\ Walk.segment = segment
    BY DEF Walk
  <2>2. Walk.reader \in Readers /\ Walk.segment \in Segments
    BY <1>1 DEF WalkInv, ReaderInv, Readers, Segments
  <2>. QED
    BY <2>1, <2>2 DEF Walks, Walk
<1>3. TopEnd(task.file, s) - 1 \in Nat
  BY <1>1, SegmentEnds
<1>4. SegmentAt(Walk, s)
  BY <1>1, <1>2, <1>3 DEF SegmentAt, Walking
<1>. QED
  BY <1>1, <1>4 DEF CountIsRight, CountingInv, CountedUpTo, ExactUpTo

(* A step that leaves the walk in a segment keeps the invariant. *)
LEMMA SegmentMade ==
    ASSUME task \in Scans, NEW w, NEW s, SegmentAt(w, s), reader' = w.reader,
           segment' = w.segment, task' = task, stopped' = 0,
           CountIsRight(counted', w.reader.incomplete, Passed(w))
    PROVE  InSegment'
<1>. DEFINE last == TopEnd(task.file, s) - 1
<1>1. /\ s \in 1..FileSize /\ task.file[s].kind = "segment" /\ WalkInv(w, last)
      /\ s + TopHeader <= Passed(w) + 1
      /\ Passed(w) < last => task.file[Passed(w) + 1].kind \in HeapKinds \cup {"unknown"}
  BY DEF SegmentAt, Walking
<1>2. /\ Walk'.reader = w.reader /\ Walk'.segment = w.segment
  BY DEF Walk
<1>3. Passed(Walk)' = Passed(w)
  BY <1>2 DEF Passed
<1>4. FileSize' = FileSize /\ TopEnd(task.file, s)' = TopEnd(task.file, s)
  BY DEF FileSize, TopEnd
<1>5. WalkInv(Walk, TopEnd(task.file, s) - 1)'
  BY <1>1, <1>2, <1>3, <1>4 DEF WalkInv, ReaderInv
<1>6. CountingInv(Passed(Walk))'
  BY <1>2, <1>3, <1>4 DEF CountIsRight, CountingInv, CountedUpTo, ExactUpTo, Understood
<1>. QED
  BY <1>1, <1>3, <1>4, <1>5, <1>6 DEF InSegment

(* The walk with at least one cell, unless the segment is over. *)
LEMMA LoadedKeeps ==
    ASSUME task \in Scans, NEW s, SegmentAt(Walk, s)
    PROVE  /\ SegmentAt(Loaded, s) /\ Passed(Loaded) = Passed(Walk) /\ Consumed = Passed(Walk)
           /\ Loaded.reader.incomplete = reader.incomplete
           /\ Buffered(Loaded, 1) <=> Passed(Walk) < TopEnd(task.file, s) - 1
           /\ Buffered(Loaded, 1) =>
                  /\ Cell = task.file[Passed(Walk) + 1]
                  /\ Passed(Walk) + 1 \in 1..FileSize
<1>. DEFINE last == TopEnd(task.file, s) - 1
            w == Walk
            v == Ensure(Walk, 1)
<1>1. Walking(w, last) /\ last \in Nat
  BY SegmentEnds DEF SegmentAt
<1>. HIDE DEF last, w
<1>2. Len(w.segment.buf) \in Nat /\ Passed(w) \in Nat
  BY <1>1, WalkParts
<1>3. Loaded = Ensure(w, 1)
  <2>1. Len(w.segment.buf) < 1 => 1 - Len(w.segment.buf) = 1
    BY <1>2
  <2>. QED
    BY <1>2, <2>1 DEF Loaded, Ensure, Buffered, w
<1>4. /\ Walking(Ensure(w, 1), last) /\ Passed(Ensure(w, 1)) = Passed(w)
      /\ Ensure(w, 1).reader.incomplete = w.reader.incomplete
      /\ Passed(w) + 1 <= last => Buffered(Ensure(w, 1), 1)
  BY <1>1, EnsureKeeps
<1>. DEFINE buf == Loaded.segment.buf
<1>5. /\ Loaded.reader.pos \in Nat /\ buf \in Seq(DumpCells)
      /\ Len(buf) \in Nat /\ Loaded.segment.remaining \in Nat
      /\ Loaded.reader.pos + Loaded.segment.remaining = last
      /\ Passed(Loaded) = Loaded.reader.pos - Len(buf)
      /\ last <= FileSize
      /\ \A i \in 1..Len(buf) : buf[i] = task.file[Passed(Loaded) + i]
  BY <1>3, <1>4, WalkParts
<1>6. Buffered(Loaded, 1) => Passed(w) < last
  <2>1. Buffered(Loaded, 1) => Len(buf) >= 1
    BY DEF Buffered
  <2>. DEFINE pos == Loaded.reader.pos
              left == Loaded.segment.remaining
              size == Len(buf)
  <2>2. /\ pos \in Nat /\ left \in Nat /\ size \in Nat /\ pos + left = last
        /\ Passed(w) = pos - size
    BY <1>3, <1>4, <1>5
  <2>. HIDE DEF pos, left, size
  <2>3. size >= 1 => Passed(w) < last
    BY <2>2
  <2>. QED
    BY <2>1, <2>3 DEF size
<1>7. Buffered(Loaded, 1) <=> Passed(w) < last
  BY <1>1, <1>2, <1>3, <1>4, <1>6
<1>8. Buffered(Loaded, 1) =>
         Cell = task.file[Passed(w) + 1] /\ Passed(w) + 1 \in 1..FileSize
  <2>. SUFFICES ASSUME Buffered(Loaded, 1)
                PROVE  Cell = task.file[Passed(w) + 1] /\ Passed(w) + 1 \in 1..FileSize
    OBVIOUS
  <2>1. 1 \in 1..Len(buf)
    BY <1>5 DEF Buffered
  <2>2. FileSize \in Nat /\ Passed(w) < last
    BY <1>6, ScanTypes
  <2>3. Passed(w) + 1 \in 1..FileSize
    BY <1>1, <1>2, <1>5, <2>2
  <2>. QED
    BY <1>3, <1>4, <1>5, <2>1, <2>3 DEF Cell
<1>9. Consumed = Passed(w)
  BY <1>3, <1>4, <1>5 DEF Consumed
<1>10. SegmentAt(Loaded, s)
  BY <1>3, <1>4 DEF SegmentAt, last, w
<1>. QED
  BY <1>3, <1>4, <1>7, <1>8, <1>9, <1>10 DEF w, last, Walk

(* The walk behind the cell it has loaded. *)
LEMMA AfterTagKeeps ==
    ASSUME task \in Scans, NEW last, Walking(Loaded, last), Buffered(Loaded, 1)
    PROVE  /\ Walking(AfterTag, last) /\ Passed(AfterTag) = Passed(Loaded) + 1
           /\ AfterTag.reader.incomplete = Loaded.reader.incomplete
<1>. DEFINE w == Pass(Loaded, 1)
            r == w.reader
            c == w.segment
            d == [c EXCEPT !.subs = c.subs + 1]
<1>1. /\ Walking(w, last) /\ Passed(w) = Passed(Loaded) + 1
      /\ w.reader.incomplete = Loaded.reader.incomplete
  BY PassKeeps
<1>2. AfterTag = [w EXCEPT !.segment.subs = c.subs + 1]
  BY DEF AfterTag
<1>. HIDE DEF w
<1>3. w \in Walks
  BY <1>1 DEF Walking
<1>4. AfterTag = [reader |-> r, segment |-> d]
  BY <1>2, <1>3 DEF Walks
<1>5. /\ last \in Nat /\ last <= FileSize
      /\ r \in Readers /\ ReaderInv(r) /\ c \in Segments /\ c.subs \in Nat
      /\ r.pos + c.remaining = last /\ Len(c.buf) <= r.pos
      /\ Passed(w) = r.pos - Len(c.buf)
      /\ \A i \in 1..Len(c.buf) : c.buf[i] = task.file[Passed(w) + i]
  BY <1>1, WalkParts
<1>. HIDE DEF r, c
<1>6. d \in Segments /\ d.buf = c.buf /\ d.remaining = c.remaining
  BY <1>5 DEF Segments
<1>. HIDE DEF d
<1>7. /\ r.pos + d.remaining = last /\ Len(d.buf) <= r.pos
      /\ \A i \in 1..Len(d.buf) : d.buf[i] = task.file[(r.pos - Len(d.buf)) + i]
  BY <1>5, <1>6
<1>8. /\ Walking([reader |-> r, segment |-> d], last)
      /\ Passed([reader |-> r, segment |-> d]) = r.pos - Len(d.buf)
  BY <1>5, <1>6, <1>7, WalkMade
<1>. QED
  BY <1>1, <1>4, <1>5, <1>6, <1>8 DEF r

(* What is known where the cell of a heap record has been loaded. *)
LEMMA AtRecord ==
    ASSUME task \in Scans, InSegment, Buffered(Loaded, 1), Cell.kind \in HeapKinds
    PROVE  \E s : LET here == Passed(Walk) + 1
                      last == TopEnd(task.file, s) - 1
                      after == here + SumOf(Cell.parts) + Cell.payload
                  IN  /\ here \in Nat /\ last \in Nat /\ after \in Nat /\ after <= last
                      /\ Cell.id = here /\ Cell.parts \in Seq(Nat)
                      /\ SumOf(Cell.parts) \in Nat /\ Cell.payload \in Nat
                      /\ Cell.kind # "class" =>
                             Cell.parts[1] \in Nat /\ SumOf(Cell.parts) = Cell.parts[1]
                      /\ Cell.kind \notin {"instance", "array"} => Cell.payload = 0
                      /\ Walking(AfterTag, last) /\ Passed(AfterTag) = here
                      /\ AfterTag.reader.incomplete = reader.incomplete
                      /\ \A w : Walking(w, last) /\ Passed(w) = after => SegmentAt(w, s)
                      /\ CountIsRight(IF Cell.kind \in Counting THEN Append(counted, here)
                                      ELSE counted, reader.incomplete, after)
                      /\ stopped = 0
<1>1. PICK s : SegmentAt(Walk, s)
  BY SegmentWalk
<1>2. CountIsRight(counted, reader.incomplete, Passed(Walk)) /\ stopped = 0
  BY SegmentWalk
<1>. DEFINE last == TopEnd(task.file, s) - 1
            at == Passed(Walk)
            here == at + 1
            file == task.file
            behind == HeapEnd(task.file, here)
            after == here + SumOf(Cell.parts) + Cell.payload
<1>3. /\ SegmentAt(Loaded, s) /\ Passed(Loaded) = at
      /\ Loaded.reader.incomplete = reader.incomplete /\ at < last
      /\ Cell = file[here] /\ here \in 1..FileSize
  BY <1>1, LoadedKeeps
<1>4. /\ s \in 1..FileSize /\ file[s].kind = "segment" /\ Walking(Walk, last)
      /\ Walking(Loaded, last) /\ s + TopHeader <= here
  BY <1>1, <1>3 DEF SegmentAt
<1>5. at \in Nat /\ last \in Nat /\ last <= FileSize /\ FileSize \in Nat
      /\ TopEnd(task.file, s) \in Nat
  BY <1>4, WalkParts, ScanTypes, SegmentEnds
<1>6. /\ Walking(AfterTag, last) /\ Passed(AfterTag) = here
      /\ AfterTag.reader.incomplete = reader.incomplete
  BY <1>3, <1>4, AfterTagKeeps
<1>7. Cell.id = here /\ Cell.parts \in Seq(Nat)
  BY <1>3, Cells
<1>8. /\ SumOf(Cell.parts) \in Nat /\ Cell.payload \in Nat
      /\ behind \in Nat /\ behind = here + 1 + SumOf(Cell.parts) + Cell.payload
      /\ behind <= TopEnd(task.file, s)
      /\ Cell.kind # "class" => Cell.parts[1] \in Nat /\ SumOf(Cell.parts) = Cell.parts[1]
      /\ Cell.kind \notin {"instance", "array"} => Cell.payload = 0
      /\ \A k \in here + 1 .. behind - 1 : file[k].kind = "data"
      /\ behind < TopEnd(task.file, s) => file[behind].kind \in HeapKinds \cup {"unknown"}
  <2>1. here \in Nat /\ here < TopEnd(task.file, s)
    BY <1>3, <1>5
  <2>. HIDE DEF here
  <2>. QED
    BY <1>3, <1>4, <1>5, <2>1, HeapRecords
<1>9. after \in Nat /\ after <= last /\ behind = after + 1 /\ behind - 1 = after
  <2>. DEFINE sum == SumOf(Cell.parts)
              payload == Cell.payload
  <2>1. sum \in Nat /\ payload \in Nat /\ behind = here + 1 + sum + payload
        /\ behind <= last + 1
    BY <1>5, <1>8
  <2>. HIDE DEF sum, payload, last, behind
  <2>2. here + sum + payload \in Nat /\ behind = (here + sum + payload) + 1
    BY <1>5, <2>1
  <2>. QED
    BY <1>5, <2>1, <2>2 DEF sum, payload
<1>10. ASSUME NEW w, Walking(w, last), Passed(w) = after
       PROVE  SegmentAt(w, s)
  <2>1. s + TopHeader <= Passed(w) + 1
    <3>1. s \in Nat /\ TopHeader \in Nat /\ here <= after
      BY <1>4, <1>5, <1>8, TopHeaderAssumption
    <3>. HIDE DEF here, after
    <3>2. here \in Nat /\ after \in Nat
      BY <1>5, <1>9 DEF here
    <3>. QED
      BY <1>4, <1>10, <3>1, <3>2
  <2>2. Passed(w) < last => task.file[Passed(w) + 1].kind \in HeapKinds \cup {"unknown"}
    <3>. HIDE DEF after, behind
    <3>. QED
      BY <1>5, <1>8, <1>9, <1>10
  <2>. QED
    BY <1>4, <1>10, <2>1, <2>2 DEF SegmentAt
<1>11. CountIsRight(IF Cell.kind \in Counting THEN Append(counted, here) ELSE counted,
                    reader.incomplete, after)
  <2>1. /\ counted \in Seq(Nat)
        /\ IF reader.incomplete THEN ~Understood ELSE ExactUpTo(file, counted, at)
    BY <1>2 DEF CountIsRight
  <2>2. Append(counted, here) \in Seq(Nat)
    BY <1>5, <2>1
  <2>3. \A k \in here + 1 .. after : file[k].kind \notin Counting
    BY <1>8, <1>9 DEF Counting
  <2>4. here <= after /\ here = at + 1
    BY <1>5, <1>8
  <2>. HIDE DEF here, after, at, file
  <2>5. CASE reader.incomplete
    BY <2>1, <2>2, <2>5 DEF CountIsRight
  <2>6. CASE ~reader.incomplete /\ Cell.kind \in Counting
    <3>1. \A k \in at + 2 .. after : file[k].kind \notin Counting
      BY <1>5, <2>3, <2>4
    <3>2. ExactUpTo(file, Append(counted, at + 1), after)
      BY <1>3, <1>5, <1>9, <2>1, <2>4, <2>6, <3>1, CountOne
    <3>. QED
      BY <2>2, <2>4, <2>6, <3>2 DEF CountIsRight, file
  <2>7. CASE ~reader.incomplete /\ Cell.kind \notin Counting
    <3>1. \A k \in at + 1 .. after : file[k].kind \notin Counting
      BY <1>3, <1>5, <2>3, <2>4, <2>7
    <3>2. at <= after
      BY <1>5, <1>9, <2>4
    <3>3. ExactUpTo(file, counted, after)
      BY <1>5, <1>9, <2>1, <2>7, <3>1, <3>2, CountNothing
    <3>. QED
      BY <2>1, <2>7, <3>3 DEF CountIsRight, file
  <2>. QED
    BY <2>5, <2>6, <2>7
<1>. HIDE DEF last, here, after
<1>12. here \in Nat
  BY <1>5 DEF here
<1>. QED
  BY <1>2, <1>5, <1>6, <1>7, <1>8, <1>9, <1>10, <1>11, <1>12 DEF last, here, after

(* A step that stays in the segment keeps the invariant. *)
LEMMA StaysInSegment ==
    ASSUME ScanInv, task \in Scans, state' = "segment", task' = task, InSegment'
    PROVE  ScanInv'
  BY DEF ScanInv, ScanIsExact

(* Counting an instance or an array keeps the invariant. *)
LEMMA CountObjectKeeps ==
    ASSUME ScanInv, CountObject
    PROVE  ScanInv'
<1>1. /\ state = "segment" /\ task \in Scans /\ InSegment /\ Buffered(Loaded, 1)
      /\ Cell.kind \in {"instance", "array"} /\ task' = task /\ stopped' = stopped
  BY DEF ScanInv, CountObject, Ready
<1>. DEFINE head == Cell.parts[1]
            payload == Cell.payload
            headed == Ensure(AfterTag, head)
            body == Pass(headed, head)
            filled == Ensure(body, payload)
<1>2. /\ Cell.kind \in HeapKinds /\ Cell.kind \in Counting /\ Cell.kind # "class"
  BY <1>1 DEF HeapKinds, Counting
<1>3. PICK s : LET here == Passed(Walk) + 1
                   last == TopEnd(task.file, s) - 1
                   after == here + SumOf(Cell.parts) + Cell.payload
               IN  /\ here \in Nat /\ last \in Nat /\ after \in Nat /\ after <= last
                   /\ Cell.id = here /\ Cell.parts \in Seq(Nat)
                   /\ SumOf(Cell.parts) \in Nat /\ Cell.payload \in Nat
                   /\ Cell.parts[1] \in Nat /\ SumOf(Cell.parts) = Cell.parts[1]
                   /\ Walking(AfterTag, last) /\ Passed(AfterTag) = here
                   /\ AfterTag.reader.incomplete = reader.incomplete
                   /\ \A w : Walking(w, last) /\ Passed(w) = after => SegmentAt(w, s)
                   /\ CountIsRight(Append(counted, here), reader.incomplete, after)
                   /\ stopped = 0
  BY <1>1, <1>2, AtRecord
<1>. DEFINE here == Passed(Walk) + 1
            last == TopEnd(task.file, s) - 1
            after == here + SumOf(Cell.parts) + Cell.payload
<1>4. /\ here \in Nat /\ last \in Nat /\ after \in Nat /\ after <= last
      /\ head \in Nat /\ payload \in Nat /\ after = here + head + payload
      /\ Walking(AfterTag, last) /\ Passed(AfterTag) = here
      /\ AfterTag.reader.incomplete = reader.incomplete
  BY <1>3
<1>. HIDE DEF head, payload, here, last, after
<1>5. here + head <= last /\ (here + head) + payload = after
  BY <1>4
<1>6. /\ Walking(headed, last) /\ Passed(headed) = here
      /\ headed.reader.incomplete = reader.incomplete /\ Buffered(headed, head)
  BY <1>1, <1>4, <1>5, EnsureKeeps
<1>. HIDE DEF headed
<1>7. /\ Walking(body, last) /\ Passed(body) = here + head
      /\ body.reader.incomplete = reader.incomplete
  BY <1>1, <1>4, <1>6, PassKeeps
<1>. HIDE DEF body
<1>8. /\ Walking(filled, last) /\ Passed(filled) = here + head
      /\ filled.reader.incomplete = reader.incomplete /\ Buffered(filled, payload)
  BY <1>1, <1>4, <1>5, <1>7, EnsureKeeps
<1>. HIDE DEF filled
<1>9. /\ counted' = Append(counted, here) /\ state' = state
      /\ reader' = (IF Cell.kept THEN Pass(filled, payload) ELSE SkipPayload(body, payload)).reader
      /\ segment' = (IF Cell.kept THEN Pass(filled, payload) ELSE SkipPayload(body, payload)).segment
  <2>1. Cell.id = here
    BY <1>3 DEF here
  <2>2. /\ counted' = Append(counted, Cell.id) /\ state' = state
        /\ IF Cell.kept /\ Buffered(filled, payload) THEN To(Pass(filled, payload))
           ELSE IF Cell.kept THEN To(SkipPayload(filled, payload))
           ELSE To(SkipPayload(body, payload))
    BY <1>6 DEF CountObject, headed, body, filled, head, payload
  <2>. QED
    BY <1>8, <2>1, <2>2 DEF To
<1>10. PICK w : /\ reader' = w.reader /\ segment' = w.segment
                /\ Walking(w, last) /\ Passed(w) = after
                /\ w.reader.incomplete = reader.incomplete
  <2>1. CASE Cell.kept
    <3>1. /\ Walking(Pass(filled, payload), last)
          /\ Passed(Pass(filled, payload)) = (here + head) + payload
          /\ Pass(filled, payload).reader.incomplete = filled.reader.incomplete
      BY <1>1, <1>4, <1>8, PassKeeps
    <3>. QED
      BY <1>5, <1>8, <1>9, <2>1, <3>1
  <2>2. CASE ~Cell.kept
    <3>1. /\ Walking(SkipPayload(body, payload), last)
          /\ Passed(SkipPayload(body, payload)) = (here + head) + payload
          /\ SkipPayload(body, payload).reader.incomplete = body.reader.incomplete
      BY <1>1, <1>4, <1>5, <1>7, SkipPayloadKeeps
    <3>. QED
      BY <1>5, <1>7, <1>9, <2>2, <3>1
  <2>. QED
    BY <2>1, <2>2
<1>11. SegmentAt(w, s)
  BY <1>3, <1>10 DEF last, after, here
<1>12. CountIsRight(counted', w.reader.incomplete, Passed(w))
  BY <1>3, <1>9, <1>10 DEF after, here
<1>13. stopped' = 0
  BY <1>1, <1>3
<1>14. InSegment'
  BY <1>1, <1>10, <1>11, <1>12, <1>13, SegmentMade
<1>. QED
  BY <1>1, <1>9, <1>14, StaysInSegment

(* Noting a root keeps the invariant. *)
LEMMA NoteRootKeeps ==
    ASSUME ScanInv, NoteRoot
    PROVE  ScanInv'
<1>1. /\ state = "segment" /\ task \in Scans /\ InSegment /\ Buffered(Loaded, 1)
      /\ Cell.kind = "root" /\ task' = task /\ stopped' = stopped
  BY DEF ScanInv, NoteRoot, Ready
<1>. DEFINE head == Cell.parts[1]
            headed == Ensure(AfterTag, head)
            w == Pass(headed, head)
<1>2. /\ Cell.kind \in HeapKinds /\ Cell.kind \in Counting /\ Cell.kind # "class"
      /\ Cell.kind \notin {"instance", "array"}
  BY <1>1 DEF HeapKinds, Counting
<1>3. PICK s : LET here == Passed(Walk) + 1
                   last == TopEnd(task.file, s) - 1
                   after == here + SumOf(Cell.parts) + Cell.payload
               IN  /\ here \in Nat /\ last \in Nat /\ after \in Nat /\ after <= last
                   /\ Cell.id = here
                   /\ Cell.parts[1] \in Nat /\ SumOf(Cell.parts) = Cell.parts[1]
                   /\ Cell.payload = 0
                   /\ Walking(AfterTag, last) /\ Passed(AfterTag) = here
                   /\ AfterTag.reader.incomplete = reader.incomplete
                   /\ \A v : Walking(v, last) /\ Passed(v) = after => SegmentAt(v, s)
                   /\ CountIsRight(Append(counted, here), reader.incomplete, after)
                   /\ stopped = 0
  BY <1>1, <1>2, AtRecord
<1>. DEFINE here == Passed(Walk) + 1
            last == TopEnd(task.file, s) - 1
            after == here + SumOf(Cell.parts) + Cell.payload
<1>4. /\ here \in Nat /\ last \in Nat /\ after <= last
      /\ head \in Nat /\ after = here + head + 0
      /\ Walking(AfterTag, last) /\ Passed(AfterTag) = here
      /\ AfterTag.reader.incomplete = reader.incomplete
  BY <1>3
<1>. HIDE DEF head, here, last, after
<1>5. here + head <= last /\ here + head = after
  BY <1>4
<1>6. /\ Walking(headed, last) /\ Passed(headed) = here
      /\ headed.reader.incomplete = reader.incomplete /\ Buffered(headed, head)
  BY <1>1, <1>4, <1>5, EnsureKeeps
<1>. HIDE DEF headed
<1>7. /\ Walking(w, last) /\ Passed(w) = here + head
      /\ w.reader.incomplete = reader.incomplete
  BY <1>1, <1>4, <1>6, PassKeeps
<1>8. /\ counted' = Append(counted, here) /\ state' = state
      /\ reader' = w.reader /\ segment' = w.segment
  <2>1. Cell.id = here
    BY <1>3 DEF here
  <2>2. /\ counted' = Append(counted, Cell.id) /\ state' = state /\ To(w)
    BY <1>6 DEF NoteRoot, headed, head
  <2>. QED
    BY <2>1, <2>2 DEF To
<1>. HIDE DEF w
<1>9. SegmentAt(w, s)
  BY <1>3, <1>5, <1>7 DEF last, after, here
<1>10. CountIsRight(counted', w.reader.incomplete, Passed(w))
  BY <1>3, <1>5, <1>7, <1>8 DEF after, here
<1>11. stopped' = 0
  BY <1>1, <1>3
<1>12. InSegment'
  BY <1>1, <1>8, <1>9, <1>10, <1>11, SegmentMade
<1>. QED
  BY <1>1, <1>8, <1>12, StaysInSegment

(* Noting a class keeps the invariant. *)
LEMMA NoteClassKeeps ==
    ASSUME ScanInv, NoteClass
    PROVE  ScanInv'
<1>1. /\ state = "segment" /\ task \in Scans /\ InSegment /\ Buffered(Loaded, 1)
      /\ Cell.kind = "class" /\ task' = task /\ stopped' = stopped /\ state' = state
      /\ counted' = Append(counted, Cell.id)
  BY DEF ScanInv, NoteClass, Ready
<1>. DEFINE parts == Cell.parts
            w == PassParts(AfterTag, parts)
<1>2. /\ Cell.kind \in HeapKinds /\ Cell.kind \in Counting
      /\ Cell.kind \notin {"instance", "array"}
  BY <1>1 DEF HeapKinds, Counting
<1>3. PICK s : LET here == Passed(Walk) + 1
                   last == TopEnd(task.file, s) - 1
                   after == here + SumOf(Cell.parts) + Cell.payload
               IN  /\ here \in Nat /\ last \in Nat /\ after \in Nat /\ after <= last
                   /\ Cell.id = here /\ Cell.parts \in Seq(Nat) /\ SumOf(Cell.parts) \in Nat
                   /\ Cell.payload = 0
                   /\ Walking(AfterTag, last) /\ Passed(AfterTag) = here
                   /\ AfterTag.reader.incomplete = reader.incomplete
                   /\ \A v : Walking(v, last) /\ Passed(v) = after => SegmentAt(v, s)
                   /\ CountIsRight(Append(counted, here), reader.incomplete, after)
                   /\ stopped = 0
  BY <1>1, <1>2, AtRecord
<1>. DEFINE here == Passed(Walk) + 1
            last == TopEnd(task.file, s) - 1
            after == here + SumOf(Cell.parts) + Cell.payload
            sum == SumOf(parts)
<1>4. /\ here \in Nat /\ last \in Nat /\ after <= last
      /\ parts \in Seq(Nat) /\ sum \in Nat /\ after = here + sum + 0
      /\ Walking(AfterTag, last) /\ Passed(AfterTag) = here
      /\ AfterTag.reader.incomplete = reader.incomplete
  BY <1>3
<1>. HIDE DEF parts, here, last, after, sum
<1>5. here + sum <= last /\ here + sum = after
  BY <1>4
<1>6. /\ Walking(w, last) /\ Passed(w) = here + sum
      /\ w.reader.incomplete = reader.incomplete
  BY <1>1, <1>4, <1>5, PassPartsKeeps DEF sum
<1>7. reader' = w.reader /\ segment' = w.segment /\ counted' = Append(counted, here)
  BY <1>1, <1>3 DEF NoteClass, To, parts, here
<1>. HIDE DEF w
<1>8. SegmentAt(w, s)
  BY <1>3, <1>5, <1>6 DEF last, after, here
<1>9. CountIsRight(counted', w.reader.incomplete, Passed(w))
  BY <1>3, <1>5, <1>6, <1>7 DEF after, here
<1>10. stopped' = 0
  BY <1>1, <1>3
<1>11. InSegment'
  BY <1>1, <1>7, <1>8, <1>9, <1>10, SegmentMade
<1>. QED
  BY <1>1, <1>11, StaysInSegment

(* Passing a record that is not counted keeps the invariant. *)
LEMMA SkipInfoKeeps ==
    ASSUME ScanInv, SkipInfo
    PROVE  ScanInv'
<1>1. /\ state = "segment" /\ task \in Scans /\ InSegment /\ Buffered(Loaded, 1)
      /\ Cell.kind = "info" /\ task' = task /\ stopped' = stopped /\ state' = state
      /\ counted' = counted
  BY DEF ScanInv, SkipInfo, Ready
<1>. DEFINE head == Cell.parts[1]
            w == Pass(Ensure(AfterTag, head), head)
<1>2. /\ Cell.kind \in HeapKinds /\ Cell.kind \notin Counting /\ Cell.kind # "class"
      /\ Cell.kind \notin {"instance", "array"}
  BY <1>1 DEF HeapKinds, Counting
<1>3. PICK s : LET here == Passed(Walk) + 1
                   last == TopEnd(task.file, s) - 1
                   after == here + SumOf(Cell.parts) + Cell.payload
               IN  /\ here \in Nat /\ last \in Nat /\ after \in Nat /\ after <= last
                   /\ Cell.parts[1] \in Nat /\ SumOf(Cell.parts) = Cell.parts[1]
                   /\ Cell.payload = 0
                   /\ Walking(AfterTag, last) /\ Passed(AfterTag) = here
                   /\ AfterTag.reader.incomplete = reader.incomplete
                   /\ \A v : Walking(v, last) /\ Passed(v) = after => SegmentAt(v, s)
                   /\ CountIsRight(counted, reader.incomplete, after)
                   /\ stopped = 0
  BY <1>1, <1>2, AtRecord
<1>. DEFINE here == Passed(Walk) + 1
            last == TopEnd(task.file, s) - 1
            after == here + SumOf(Cell.parts) + Cell.payload
<1>4. /\ here \in Nat /\ last \in Nat /\ after <= last
      /\ head \in Nat /\ after = here + head + 0
      /\ Walking(AfterTag, last) /\ Passed(AfterTag) = here
      /\ AfterTag.reader.incomplete = reader.incomplete
  BY <1>3
<1>. HIDE DEF head, here, last, after
<1>5. here + head <= last /\ here + head = after
  BY <1>4
<1>6. /\ Walking(w, last) /\ Passed(w) = here + head
      /\ w.reader.incomplete = reader.incomplete
  BY <1>1, <1>4, <1>5, EnsureAndPass
<1>7. reader' = w.reader /\ segment' = w.segment
  BY DEF SkipInfo, To, head
<1>. HIDE DEF w
<1>8. SegmentAt(w, s)
  BY <1>3, <1>5, <1>6 DEF last, after, here
<1>9. CountIsRight(counted', w.reader.incomplete, Passed(w))
  BY <1>1, <1>3, <1>5, <1>6 DEF after, here
<1>10. stopped' = 0
  BY <1>1, <1>3
<1>11. InSegment'
  BY <1>1, <1>7, <1>8, <1>9, <1>10, SegmentMade
<1>. QED
  BY <1>1, <1>11, StaysInSegment

(* A step that leaves the reader at a top-level record keeps the invariant. *)
LEMMA TopMade ==
    ASSUME ScanInv, task \in Scans, NEW r, ReaderInv(r), r.pos <= FileSize,
           r.pos < FileSize => task.file[r.pos + 1].kind \in TopKinds,
           CountIsRight(counted', r.incomplete, r.pos),
           reader' = r, task' = task, stopped' = 0, state' = "top"
    PROVE  ScanInv'
<1>1. FileSize' = FileSize
  BY DEF FileSize
<1>2. ReaderInv(reader)'
  BY <1>1 DEF ReaderInv
<1>3. CountingInv(reader.pos)'
  BY <1>1 DEF CountIsRight, CountingInv, CountedUpTo, ExactUpTo, Understood
<1>4. AtTopRecord'
  BY <1>1, <1>2, <1>3 DEF AtTopRecord
<1>. QED
  BY <1>4 DEF ScanInv, ScanIsExact

(* A step that ends the scan where it says keeps the invariant. *)
LEMMA DoneMade ==
    ASSUME ScanInv, task \in Scans, task' = task, state' = "done", NEW limit,
           (IF stopped' # 0 THEN stopped' ELSE Least(reader'.pos, FileSize)) = limit,
           Understood => ExactUpTo(task.file, counted', limit),
           ~Truncated' => ExactUpTo(task.file, counted', FileSize),
           Understood /\ task.budget = 0 /\ ~reader'.incomplete => ~Truncated'
    PROVE  ScanInv'
<1>1. FileSize' = FileSize
  BY DEF FileSize
<1>2. Understood' = Understood
  BY <1>1 DEF Understood
<1>3. ScanIsExact'
  BY <1>1, <1>2 DEF ScanIsExact, CountedUpTo, ExactUpTo
<1>. QED
  BY <1>3 DEF ScanInv

(* Behind a segment comes a top-level record, or nothing. *)
LEMMA BehindSegment ==
    ASSUME task \in Scans, NEW w, NEW s, SegmentAt(w, s)
    PROVE  LET last == TopEnd(task.file, s) - 1
           IN  /\ last \in Nat /\ last <= FileSize
               /\ last < FileSize => task.file[last + 1].kind \in TopKinds
<1>. DEFINE end == TopEnd(task.file, s)
<1>1. s \in 1..FileSize /\ task.file[s].kind = "segment" /\ Walking(w, end - 1)
  BY DEF SegmentAt
<1>2. end \in Nat /\ end - 1 \in Nat /\ end - 1 <= FileSize /\ FileSize \in Nat
  BY <1>1, SegmentEnds, WalkParts, ScanTypes
<1>3. end <= FileSize => task.file[end].kind \in TopKinds
  BY <1>1, TopRecords DEF TopKinds
<1>. HIDE DEF end
<1>4. (end - 1) + 1 = end /\ (end - 1 < FileSize => end <= FileSize)
  BY <1>2
<1>. QED
  BY <1>2, <1>3, <1>4 DEF end

(* The end of a segment keeps the invariant. *)
LEMMA EndSegmentKeeps ==
    ASSUME ScanInv, EndSegment
    PROVE  ScanInv'
<1>1. /\ task \in Scans /\ InSegment /\ ~Buffered(Loaded, 1)
      /\ task' = task /\ stopped' = stopped /\ state' = "top" /\ counted' = counted
      /\ reader' = Loaded.reader
  BY DEF ScanInv, EndSegment, To
<1>2. PICK s : SegmentAt(Walk, s)
  BY <1>1, SegmentWalk
<1>. DEFINE last == TopEnd(task.file, s) - 1
            r == Loaded.reader
            at == Passed(Walk)
            size == Len(Loaded.segment.buf)
<1>3. CountIsRight(counted, reader.incomplete, at) /\ stopped = 0
  BY <1>1, SegmentWalk
<1>4. /\ SegmentAt(Loaded, s) /\ Passed(Loaded) = at
      /\ r.incomplete = reader.incomplete /\ ~(at < last)
  BY <1>1, <1>2, LoadedKeeps
<1>5. /\ last \in Nat /\ last <= FileSize
      /\ last < FileSize => task.file[last + 1].kind \in TopKinds
  BY <1>1, <1>2, BehindSegment
<1>6. Walking(Loaded, last)
  BY <1>4 DEF SegmentAt
<1>7. /\ ReaderInv(r) /\ r.pos \in Nat /\ size \in Nat /\ at = r.pos - size
      /\ at \in Nat /\ at <= last
  BY <1>4, <1>6, WalkParts
<1>8. size = 0
  <2>1. ~(size >= 1)
    BY <1>1 DEF Buffered
  <2>. HIDE DEF size
  <2>. QED
    BY <1>7, <2>1
<1>. HIDE DEF last, at, size
<1>9. at = last /\ r.pos = last
  BY <1>4, <1>5, <1>7, <1>8
<1>. HIDE DEF r
<1>10. CountIsRight(counted', r.incomplete, r.pos)
  BY <1>1, <1>3, <1>4, <1>9
<1>11. reader' = r
  BY <1>1 DEF r
<1>. QED
  BY <1>1, <1>3, <1>5, <1>7, <1>9, <1>10, <1>11, TopMade

(* Giving up a segment that is not understood keeps the invariant. *)
LEMMA AbandonSegmentKeeps ==
    ASSUME ScanInv, AbandonSegment
    PROVE  ScanInv'
<1>1. /\ task \in Scans /\ InSegment /\ Buffered(Loaded, 1)
      /\ Cell.kind \in {"unknown", "data", "segment", "END", "other"}
      /\ task' = task /\ stopped' = stopped /\ state' = "top" /\ counted' = counted
      /\ reader' = [Skip(Loaded.reader, Loaded.segment.remaining) EXCEPT !.incomplete = TRUE]
  BY DEF ScanInv, AbandonSegment, Ready
<1>2. PICK s : SegmentAt(Walk, s)
  BY <1>1, SegmentWalk
<1>. DEFINE last == TopEnd(task.file, s) - 1
            left == Loaded.segment.remaining
            q == Loaded.reader
            r == Skip(q, left)
            given == [r EXCEPT !.incomplete = TRUE]
<1>3. counted \in Seq(Nat) /\ stopped = 0
  BY <1>1, SegmentWalk DEF CountIsRight
<1>4. /\ SegmentAt(Loaded, s) /\ Passed(Walk) < last
      /\ Cell = task.file[Passed(Walk) + 1] /\ Passed(Walk) + 1 \in 1..FileSize
  BY <1>1, <1>2, LoadedKeeps
<1>5. /\ last \in Nat /\ last <= FileSize
      /\ last < FileSize => task.file[last + 1].kind \in TopKinds
  BY <1>1, <1>2, BehindSegment
<1>6. Walking(Loaded, last)
  BY <1>4 DEF SegmentAt
<1>7. ~Understood
  <2>1. Cell.kind \in HeapKinds \cup {"unknown"}
    BY <1>2, <1>4 DEF SegmentAt
  <2>2. Cell.kind = "unknown"
    BY <1>1, <2>1 DEF HeapKinds
  <2>. QED
    BY <1>4, <2>2 DEF Understood
<1>8. ReaderInv(q) /\ left \in Nat /\ q.pos + left = last
  BY <1>6, WalkParts
<1>. HIDE DEF last, left, q
<1>9. ReaderInv(r) /\ r.pos = last
  BY <1>1, <1>8, SkipKeeps
<1>10. reader' = given
  BY <1>1 DEF q, left
<1>. HIDE DEF r
<1>11. ReaderInv(given) /\ given.pos = last /\ given.incomplete = TRUE
  <2>1. /\ r \in Readers /\ r.pos + Len(r.buf) = r.at
        /\ \A i \in 1..Len(r.buf) : r.pos + i <= FileSize /\ r.buf[i] = task.file[r.pos + i]
    BY <1>9 DEF ReaderInv, Readers
  <2>2. /\ given \in Readers /\ given.pos = r.pos /\ given.buf = r.buf /\ given.at = r.at
        /\ given.incomplete = TRUE
    BY <2>1 DEF Readers
  <2>. HIDE DEF given
  <2>. QED
    BY <1>9, <2>1, <2>2 DEF ReaderInv, Readers
<1>. HIDE DEF given
<1>12. CountIsRight(counted', given.incomplete, given.pos)
  BY <1>1, <1>3, <1>7, <1>11 DEF CountIsRight
<1>. QED
  BY <1>1, <1>3, <1>5, <1>10, <1>11, <1>12, TopMade

(* Stopping in a segment, in quick mode, keeps the invariant. *)
LEMMA StopEarlyKeeps ==
    ASSUME ScanInv, StopEarly
    PROVE  ScanInv'
<1>1. /\ task \in Scans /\ InSegment /\ Buffered(Loaded, 1) /\ OutOfBudget(Consumed)
      /\ task' = task /\ stopped' = Consumed /\ state' = "done" /\ counted' = counted
      /\ reader' = Skip(Loaded.reader, Loaded.segment.remaining)
  BY DEF ScanInv, StopEarly
<1>2. PICK s : SegmentAt(Walk, s)
  BY <1>1, SegmentWalk
<1>. DEFINE last == TopEnd(task.file, s) - 1
            left == Loaded.segment.remaining
            q == Loaded.reader
            at == Passed(Walk)
<1>3. CountIsRight(counted, reader.incomplete, at)
  BY <1>1, SegmentWalk
<1>4. /\ SegmentAt(Loaded, s) /\ Consumed = at /\ at < last
      /\ q.incomplete = reader.incomplete /\ s + TopHeader <= at + 1
  BY <1>1, <1>2, LoadedKeeps DEF SegmentAt
<1>5. last \in Nat /\ last <= FileSize /\ FileSize \in Nat
  BY <1>1, <1>2, BehindSegment, ScanTypes
<1>6. Walking(Loaded, last) /\ Walking(Walk, last) /\ s \in 1..FileSize
  BY <1>2, <1>4 DEF SegmentAt
<1>7. ReaderInv(q) /\ left \in Nat /\ at \in Nat
  BY <1>6, WalkParts
<1>. HIDE DEF last, left, q, at
<1>8. at # 0 /\ at < FileSize
  <2>1. s \in Nat /\ s >= 1 /\ TopHeader \in Nat /\ TopHeader >= 1
    BY <1>5, <1>6, TopHeaderAssumption
  <2>. QED
    BY <1>4, <1>5, <1>7, <2>1
<1>9. reader'.incomplete = reader.incomplete
  BY <1>1, <1>4, <1>7, SkipKeeps DEF q, left
<1>10. FileSize' = FileSize /\ stopped' = at
  BY <1>1, <1>4 DEF FileSize
<1>11. Truncated' /\ task.budget # 0
  BY <1>1, <1>8, <1>10 DEF Truncated, OutOfBudget
<1>12. Understood => ExactUpTo(task.file, counted', at)
  BY <1>1, <1>3 DEF CountIsRight
<1>. QED
  BY <1>1, <1>8, <1>10, <1>11, <1>12, DoneMade

-----------------------------------------------------------------------------
(* The steps between segments.                                             *)

(* What is known where the header of a top-level record has been read. *)
LEMMA AtHeader ==
    ASSUME ScanInv, state = "top"
    PROVE  LET at == reader.pos
               size == Len(Header)
           IN  /\ task \in Scans /\ ReaderInv(Behind) /\ Behind.incomplete = reader.incomplete
               /\ at \in Nat /\ size \in Nat /\ FileSize \in Nat
               /\ TopHeader \in Nat /\ TopHeader >= 1
               /\ Behind.pos = at + size /\ at <= FileSize
               /\ size = TopHeader \/ at + size >= FileSize
               /\ size # 0 => /\ at + size <= FileSize /\ at + 1 \in 1..FileSize
                              /\ Header[1] = task.file[at + 1]
                              /\ task.file[at + 1].kind \in TopKinds
               /\ Header # <<>> <=> size # 0
               /\ CountIsRight(counted, reader.incomplete, at) /\ stopped = 0
<1>. DEFINE at == reader.pos
            data == Header
            size == Len(data)
<1>1. task \in Scans /\ AtTopRecord
  BY DEF ScanInv
<1>2. /\ ReaderInv(reader) /\ at <= FileSize /\ CountingInv(at)
      /\ at < FileSize => task.file[at + 1].kind \in TopKinds
  BY <1>1 DEF AtTopRecord
<1>3. at \in Nat /\ FileSize \in Nat /\ TopHeader \in Nat /\ TopHeader >= 1
  BY <1>1, <1>2, ScanTypes, TopHeaderAssumption DEF ReaderInv
<1>4. /\ ReaderInv(Behind) /\ Behind.incomplete = reader.incomplete
      /\ Behind.pos = at + size
      /\ data \in Seq(DumpCells) /\ size <= TopHeader
      /\ \A i \in 1..size : at + i <= FileSize /\ data[i] = task.file[at + i]
      /\ size = TopHeader \/ at + size >= FileSize
  BY <1>1, <1>2, <1>3, ReadKeeps DEF Header, Behind
<1>. HIDE DEF data
<1>5. size \in Nat /\ (data # <<>> <=> size # 0)
  BY <1>4
<1>6. ASSUME size # 0
      PROVE  /\ at + size <= FileSize /\ at + 1 \in 1..FileSize /\ data[1] = task.file[at + 1]
             /\ task.file[at + 1].kind \in TopKinds
  <2>1. 1 \in 1..size /\ size \in 1..size
    BY <1>5, <1>6
  <2>2. at + 1 <= FileSize /\ at + size <= FileSize /\ data[1] = task.file[at + 1]
    BY <1>4, <2>1
  <2>. HIDE DEF at, size
  <2>. QED
    BY <1>2, <1>3, <2>2
<1>7. CountIsRight(counted, reader.incomplete, at) /\ stopped = 0
  BY <1>2 DEF CountIsRight, CountingInv, CountedUpTo, ExactUpTo
<1>. QED
  BY <1>1, <1>2, <1>3, <1>4, <1>5, <1>6, <1>7 DEF data

(* Data is not counted. *)
LEMMA CountOverData ==
    ASSUME NEW count, NEW incomplete, NEW a \in Nat, NEW b \in Nat, a <= b,
           CountIsRight(count, incomplete, a),
           \A k \in a + 1 .. b : task.file[k].kind \notin Counting
    PROVE  CountIsRight(count, incomplete, b)
  BY CountNothing DEF CountIsRight

(* Where a top-level record starts, its header and the rest of a record    *)
(* that is not a segment are not counted.                                  *)
LEMMA TopIsNotCounted ==
    ASSUME task \in Scans, NEW i \in 1..FileSize, task.file[i].kind \in TopKinds
    PROVE  /\ \A k \in i .. FileSize :
                 k < i + TopHeader => task.file[k].kind \notin Counting
           /\ task.file[i].kind # "segment" =>
                 \A k \in i .. FileSize :
                    k < TopEnd(task.file, i) => task.file[k].kind \notin Counting
<1>. DEFINE file == task.file
            body == i + TopHeader
            end == TopEnd(task.file, i)
<1>1. /\ \A k \in i + 1 .. FileSize : k < body => file[k].kind = "data"
      /\ file[i].kind # "segment" =>
             \A k \in i + 1 .. FileSize : k < end => file[k].kind = "data"
  BY TopRecords
<1>2. file[i].kind \notin Counting /\ i \in Nat /\ FileSize \in Nat
  BY ScanTypes DEF TopKinds, Counting
<1>. HIDE DEF file, body, end
<1>3. \A k \in i .. FileSize : k = i \/ k \in i + 1 .. FileSize
  BY <1>2
<1>4. "data" \notin Counting
  BY DEF Counting
<1>. QED
  BY <1>1, <1>2, <1>3, <1>4 DEF file, body, end

(* The end of the file keeps the invariant. *)
LEMMA EndOfFileKeeps ==
    ASSUME ScanInv, EndOfFile
    PROVE  ScanInv'
<1>. DEFINE at == reader.pos
            size == Len(Header)
<1>1. /\ state = "top" /\ size < TopHeader /\ task' = task /\ stopped' = stopped
      /\ counted' = counted /\ state' = "done"
      /\ reader' = [Behind EXCEPT !.incomplete = Behind.incomplete \/ Header # <<>>]
  BY DEF EndOfFile
<1>2. /\ task \in Scans /\ ReaderInv(Behind) /\ Behind.incomplete = reader.incomplete
      /\ at \in Nat /\ size \in Nat /\ FileSize \in Nat /\ TopHeader \in Nat /\ TopHeader >= 1
      /\ Behind.pos = at + size /\ at <= FileSize
      /\ size = TopHeader \/ at + size >= FileSize
      /\ size # 0 => /\ at + size <= FileSize /\ at + 1 \in 1..FileSize
                     /\ task.file[at + 1].kind \in TopKinds
      /\ Header # <<>> <=> size # 0
      /\ CountIsRight(counted, reader.incomplete, at) /\ stopped = 0
  BY <1>1, AtHeader
<1>3. at + size = FileSize
  <2>. HIDE DEF at, size
  <2>. QED
    BY <1>1, <1>2
<1>4. CountIsRight(counted, reader.incomplete, FileSize)
  <2>1. CASE size = 0
    BY <1>2, <1>3, <2>1
  <2>2. CASE size # 0
    <3>1. \A k \in at + 1 .. FileSize :
             k < (at + 1) + TopHeader => task.file[k].kind \notin Counting
      <4>. DEFINE i == at + 1
      <4>1. i \in 1..FileSize /\ task.file[i].kind \in TopKinds
        BY <1>2, <2>2
      <4>. HIDE DEF i
      <4>2. \A k \in i .. FileSize : k < i + TopHeader => task.file[k].kind \notin Counting
        BY <1>2, <4>1, TopIsNotCounted
      <4>. QED
        BY <4>2 DEF i
    <3>2. \A k \in at + 1 .. FileSize : k < (at + 1) + TopHeader
      <4>. HIDE DEF at, size
      <4>1. at \in Nat /\ size \in Nat /\ TopHeader \in Nat /\ size < TopHeader /\ FileSize \in Nat
        BY <1>1, <1>2
      <4>. QED
        BY <1>3, <4>1
    <3>3. \A k \in at + 1 .. FileSize : task.file[k].kind \notin Counting
      BY <3>1, <3>2
    <3>. HIDE DEF at
    <3>. QED
      BY <1>2, <3>3, CountOverData
  <2>. QED
    BY <2>1, <2>2
<1>5. Behind \in Readers
  BY <1>2 DEF ReaderInv, Readers
<1>6. reader'.pos = FileSize /\ reader'.incomplete = (reader.incomplete \/ size # 0)
  <2>. DEFINE r == Behind
  <2>. HIDE DEF r
  <2>1. r \in Readers /\ reader' = [r EXCEPT !.incomplete = r.incomplete \/ Header # <<>>]
    BY <1>1, <1>5 DEF r
  <2>2. reader'.pos = r.pos /\ reader'.incomplete = (r.incomplete \/ Header # <<>>)
    BY <2>1 DEF Readers
  <2>. QED
    BY <1>2, <1>3, <2>2 DEF r
<1>7. FileSize' = FileSize /\ stopped' = 0
  BY <1>1, <1>2 DEF FileSize
<1>8. Truncated' <=> reader'.incomplete
  BY <1>2, <1>6, <1>7 DEF Truncated
<1>9. (IF stopped' # 0 THEN stopped' ELSE Least(reader'.pos, FileSize)) = FileSize
  BY <1>2, <1>6, <1>7 DEF Least
<1>10. reader.incomplete \/ ExactUpTo(task.file, counted', FileSize)
  BY <1>1, <1>4 DEF CountIsRight
<1>11. Understood => ~reader.incomplete
  BY <1>4 DEF CountIsRight
<1>12. ~Truncated' => ~reader.incomplete
  BY <1>6, <1>8
<1>. HIDE DEF size
<1>. QED
  BY <1>1, <1>2, <1>8, <1>9, <1>10, <1>11, <1>12, DoneMade

(* A record that is cut off fails the analysis. *)
LEMMA CutRecordKeeps ==
    ASSUME ScanInv, CutRecord
    PROVE  ScanInv'
  BY DEF ScanInv, ScanIsExact, CutRecord

(* A top-level record keeps the invariant. *)
LEMMA TopRecordKeeps ==
    ASSUME ScanInv, TopRecord
    PROVE  ScanInv'
<1>. DEFINE at == reader.pos
            size == Len(Header)
            i == at + 1
            file == task.file
            length == Header[1].length
            kind == Header[1].kind
            end == TopEnd(task.file, i)
            last == end - 1
<1>1. /\ state = "top" /\ size = TopHeader /\ task' = task /\ stopped' = stopped
      /\ counted' = counted /\ Behind.pos + length <= FileSize
      /\ CASE OutOfBudget(Behind.pos) ->
                reader' = Behind /\ state' = "done" /\ segment' = segment
           [] ~OutOfBudget(Behind.pos) /\ kind = "segment" ->
                /\ reader' = Behind /\ state' = "segment"
                /\ segment' = [NoSegment EXCEPT !.remaining = length]
           [] OTHER ->
                reader' = Skip(Behind, length) /\ segment' = segment /\ state' = state
  BY DEF TopRecord
<1>2. /\ task \in Scans /\ ReaderInv(Behind) /\ Behind.incomplete = reader.incomplete
      /\ at \in Nat /\ FileSize \in Nat /\ TopHeader \in Nat /\ TopHeader >= 1
      /\ Behind.pos = at + TopHeader
      /\ i \in 1..FileSize /\ Header[1] = file[i] /\ file[i].kind \in TopKinds
      /\ CountIsRight(counted, reader.incomplete, at) /\ stopped = 0
  <2>1. size # 0
    <3>. HIDE DEF size
    <3>1. TopHeader \in Nat /\ TopHeader >= 1
      BY <1>1, AtHeader
    <3>. QED
      BY <1>1, <3>1
  <2>. QED
    BY <1>1, <2>1, AtHeader
<1>3. /\ length \in Nat /\ end \in Nat /\ end = (i + TopHeader) + length
      /\ end <= FileSize => file[end].kind \in TopKinds
      /\ (kind = "segment" /\ end - 1 <= FileSize /\ i + TopHeader < end) =>
             file[i + TopHeader].kind \in HeapKinds \cup {"unknown"}
  <2>1. length = file[i].length /\ length \in Nat
    BY <1>2, Cells
  <2>2. /\ end \in Nat /\ end = (i + TopHeader) + file[i].length
        /\ end <= FileSize => file[end].kind \in TopKinds
        /\ (file[i].kind = "segment" /\ end - 1 <= FileSize /\ i + TopHeader < end) =>
               file[i + TopHeader].kind \in HeapKinds \cup {"unknown"}
    <3>. HIDE DEF i
    <3>. QED
      BY <1>2, TopRecords
  <2>. QED
    BY <1>2, <2>1, <2>2
<1>4. /\ \A k \in i .. FileSize : k < i + TopHeader => file[k].kind \notin Counting
      /\ kind # "segment" => \A k \in i .. FileSize : k < end => file[k].kind \notin Counting
  <2>1. kind = file[i].kind
    BY <1>2
  <2>. HIDE DEF i, kind
  <2>. QED
    BY <1>2, <2>1, TopIsNotCounted
<1>. DEFINE body == at + TopHeader
<1>5. /\ body \in Nat /\ body <= FileSize /\ last = body + length /\ last \in Nat
      /\ last <= FileSize /\ body <= last /\ at <= body /\ i + TopHeader = body + 1
      /\ last + 1 = end /\ Behind.pos = body
  <2>. HIDE DEF length, end
  <2>1. Behind.pos + length <= FileSize
    BY <1>1
  <2>2. Behind.pos = body
    BY <1>2
  <2>3. /\ end = (at + 1 + TopHeader) + length /\ at + TopHeader + length <= FileSize
    BY <1>2, <1>3, <2>1
  <2>. QED
    BY <1>2, <1>3, <2>2, <2>3
<1>6. CountIsRight(counted', Behind.incomplete, body)
  <2>1. \A k \in at + 1 .. body : file[k].kind \notin Counting
    <3>1. \A k \in at + 1 .. body : k \in i .. FileSize /\ k < i + TopHeader
      <4>. HIDE DEF length, end, last
      <4>. QED
        BY <1>2, <1>5
    <3>. QED
      BY <1>4, <3>1
  <2>. HIDE DEF body, at
  <2>2. at \in Nat
    BY <1>2
  <2>3. CountIsRight(counted, reader.incomplete, body)
    BY <1>2, <1>5, <2>1, <2>2, CountOverData
  <2>. QED
    BY <1>1, <1>2, <2>3
<1>. DEFINE r == Behind
<1>7. CASE OutOfBudget(Behind.pos)
  <2>1. reader' = Behind /\ state' = "done" /\ stopped' = 0
    BY <1>1, <1>2, <1>7
  <2>2. FileSize' = FileSize /\ task.budget # 0
    BY <1>1, <1>7 DEF FileSize, OutOfBudget
  <2>3. (IF stopped' # 0 THEN stopped' ELSE Least(reader'.pos, FileSize)) = body
    BY <1>5, <2>1 DEF Least
  <2>4. Understood => ExactUpTo(task.file, counted', body)
    BY <1>6 DEF CountIsRight
  <2>5. ~Truncated' => ExactUpTo(task.file, counted', FileSize)
    <3>. SUFFICES ASSUME ~Truncated' PROVE ExactUpTo(task.file, counted', FileSize)
      OBVIOUS
    <3>1. ~Behind.incomplete /\ ~(body < FileSize)
      BY <1>5, <2>1, <2>2 DEF Truncated
    <3>. HIDE DEF body, last, length
    <3>2. body = FileSize
      BY <1>2, <1>5, <3>1
    <3>. QED
      BY <1>6, <3>1, <3>2 DEF CountIsRight
  <2>. HIDE DEF body
  <2>. QED
    BY <1>1, <1>2, <2>1, <2>2, <2>3, <2>4, <2>5, DoneMade
<1>8. CASE ~OutOfBudget(Behind.pos) /\ kind = "segment"
  <2>. DEFINE s == [NoSegment EXCEPT !.remaining = length]
              w == [reader |-> r, segment |-> s]
  <2>1. reader' = r /\ segment' = s /\ state' = "segment" /\ stopped' = 0
    BY <1>1, <1>2, <1>8
  <2>2. s \in Segments /\ s.remaining = length /\ s.buf = <<>> /\ Len(s.buf) = 0
    <3>1. <<>> \in Seq(DumpCells) /\ Len(<<>>) = 0
      OBVIOUS
    <3>. HIDE DEF length
    <3>. QED
      BY <1>3, <3>1 DEF NoSegment, Segments
  <2>3. r \in Readers /\ ReaderInv(r)
    BY <1>2 DEF ReaderInv, Readers
  <2>. HIDE DEF s, r, last, length, body, end
  <2>4. /\ r.pos + s.remaining = last /\ Len(s.buf) <= r.pos /\ r.pos - Len(s.buf) = body
    BY <1>3, <1>5, <2>2 DEF r
  <2>5. \A k \in 1..Len(s.buf) : s.buf[k] = file[(r.pos - Len(s.buf)) + k]
    BY <2>2
  <2>6. Walking(w, last) /\ Passed(w) = body
    BY <1>5, <2>2, <2>3, <2>4, <2>5, WalkMade
  <2>7. SegmentAt(w, i)
    <3>1. kind = file[i].kind
      BY <1>2
    <3>2. i + TopHeader <= Passed(w) + 1
      BY <1>5, <2>6
    <3>3. Passed(w) < last => file[Passed(w) + 1].kind \in HeapKinds \cup {"unknown"}
      <4>1. body < last => i + TopHeader < end /\ end - 1 <= FileSize
        BY <1>3, <1>5 DEF last
      <4>. QED
        BY <1>3, <1>5, <1>8, <2>6, <4>1
    <3>. HIDE DEF i, w
    <3>. QED
      BY <1>2, <1>8, <2>6, <3>1, <3>2, <3>3 DEF SegmentAt, last, end
  <2>8. CountIsRight(counted', w.reader.incomplete, Passed(w))
    BY <1>6, <2>6 DEF r
  <2>9. reader' = w.reader /\ segment' = w.segment
    BY <2>1
  <2>. HIDE DEF w, i
  <2>10. InSegment'
    BY <1>1, <1>2, <2>1, <2>7, <2>8, <2>9, SegmentMade
  <2>. QED
    BY <1>1, <1>2, <2>1, <2>10, StaysInSegment
<1>9. CASE ~OutOfBudget(Behind.pos) /\ kind # "segment"
  <2>. DEFINE q == Skip(r, length)
  <2>1. reader' = q /\ state' = "top" /\ stopped' = 0
    BY <1>1, <1>2, <1>9
  <2>. HIDE DEF r
  <2>2. ReaderInv(q) /\ q.pos = last /\ q.incomplete = Behind.incomplete
    <3>1. ReaderInv(r) /\ r.pos = body /\ r.incomplete = Behind.incomplete
      BY <1>2, <1>5 DEF r
    <3>. HIDE DEF length, last, body
    <3>2. length \in Nat
      BY <1>3
    <3>3. ReaderInv(q) /\ q.pos = r.pos + length /\ q.incomplete = r.incomplete
      BY <1>2, <3>1, <3>2, SkipKeeps
    <3>. QED
      BY <1>5, <3>1, <3>3
  <2>. HIDE DEF q
  <2>3. q.pos < FileSize => file[q.pos + 1].kind \in TopKinds
    <3>. HIDE DEF last, end, length, body
    <3>. QED
      BY <1>2, <1>3, <1>5, <2>2
  <2>4. CountIsRight(counted', q.incomplete, q.pos)
    <3>1. \A k \in at + 1 .. last : file[k].kind \notin Counting
      <4>1. \A k \in at + 1 .. last : k \in i .. FileSize /\ k < end
        <5>. HIDE DEF last, end, length, body
        <5>. QED
          BY <1>2, <1>3, <1>5
      <4>. QED
        BY <1>4, <1>9, <4>1
    <3>. HIDE DEF last, length, body, at, end
    <3>2. at \in Nat /\ at <= last
      BY <1>2, <1>5 DEF at
    <3>3. CountIsRight(counted, reader.incomplete, last)
      BY <1>2, <1>5, <3>1, <3>2, CountOverData
    <3>. QED
      BY <1>1, <1>2, <2>2, <3>3
  <2>. HIDE DEF last
  <2>. QED
    BY <1>1, <1>2, <1>5, <2>1, <2>2, <2>3, <2>4, TopMade
<1>. QED
  BY <1>7, <1>8, <1>9

-----------------------------------------------------------------------------
(* The scan is one of the analyses of Reports.                             *)

(* A scan that has read nothing yet is at the first top-level record. *)
LEMMA ScanStarts == ScanInit \/ ScanIdle => ScanInv
<1>1. ASSUME ScanIdle PROVE ScanInv
  BY <1>1 DEF ScanIdle, ScanInv, ScanIsExact
<1>2. ASSUME ScanInit PROVE ScanInv
  <2>1. /\ task \in Scans /\ reader = NoReader /\ counted = <<>> /\ stopped = 0 /\ state = "top"
    BY <1>2 DEF ScanInit
  <2>2. FileSize \in Nat /\ Len(task.file) = FileSize /\ IsDump(task.file)
        /\ task.file \in Seq(DumpCells)
    BY <2>1, ScanTypes DEF FileSize
  <2>3. <<>> \in Seq(DumpCells) /\ Len(<<>>) = 0 /\ <<>> \in Seq(Nat)
    OBVIOUS
  <2>4. ReaderInv(reader)
    BY <2>1, <2>3 DEF ReaderInv, NoReader
  <2>5. reader.pos = 0 /\ reader.incomplete = FALSE /\ 0 <= FileSize
    BY <2>1, <2>2 DEF NoReader
  <2>6. CountedUpTo(0)
    <3>1. ToSet(counted) = {}
      BY <2>1 DEF ToSet
    <3>2. {i \in 1..0 : task.file[i].kind \in Counting} = {}
      OBVIOUS
    <3>. QED
      BY <2>1, <2>3, <3>1, <3>2 DEF CountedUpTo
  <2>7. 0 < FileSize => task.file[0 + 1].kind \in TopKinds
    <3>1. 0 < FileSize => task.file # <<>>
      BY <2>2, <2>3
    <3>2. 0 + 1 = 1
      OBVIOUS
    <3>. QED
      BY <2>2, <3>1, <3>2 DEF IsDump
  <2>8. AtTopRecord
    BY <2>1, <2>3, <2>4, <2>5, <2>6, <2>7 DEF AtTopRecord, CountingInv
  <2>. QED
    BY <2>1, <2>8 DEF ScanInv, ScanIsExact
<1>. QED
  BY <1>1, <1>2

(* Nothing but the scan of a dump changes what it keeps. *)
LEMMA OthersLeaveScan ==
    ASSUME [ReportsNext]_reportVars
    PROVE  UNCHANGED scanVars \/ ScanNext
  BY DEF ReportsNext, reportVars

(* The invariant is about what the scan keeps. *)
LEMMA ScanKept ==
    ASSUME ScanInv, UNCHANGED scanVars
    PROVE  ScanInv'
<1>1. /\ task' = task /\ reader' = reader /\ segment' = segment /\ counted' = counted
      /\ stopped' = stopped /\ state' = state
  BY DEF scanVars
<1>2. FileSize' = FileSize /\ Walk' = Walk
  BY <1>1 DEF FileSize, Walk
<1>3. Understood' = Understood
  BY <1>1, <1>2 DEF Understood
<1>4. ASSUME AtTopRecord PROVE AtTopRecord'
  <2>1. ReaderInv(reader)'
    BY <1>1, <1>2, <1>4 DEF AtTopRecord, ReaderInv
  <2>2. CountingInv(reader.pos)'
    BY <1>1, <1>2, <1>3, <1>4 DEF AtTopRecord, CountingInv, CountedUpTo
  <2>. QED
    BY <1>1, <1>2, <1>4, <2>1, <2>2 DEF AtTopRecord
<1>5. ASSUME task \in Scans, InSegment PROVE InSegment'
  <2>1. PICK s : SegmentAt(Walk, s)
    BY <1>5, SegmentWalk
  <2>2. CountIsRight(counted, reader.incomplete, Passed(Walk)) /\ stopped = 0
    BY <1>5, SegmentWalk
  <2>3. Walk.reader = reader /\ Walk.segment = segment
    BY DEF Walk
  <2>. QED
    BY <1>1, <1>5, <2>1, <2>2, <2>3, SegmentMade
<1>6. ScanIsExact'
  <2>1. ScanIsExact
    BY DEF ScanInv
  <2>. QED
    BY <1>1, <1>2, <1>3, <2>1 DEF ScanIsExact, CountedUpTo, Truncated
<1>. QED
  BY <1>1, <1>4, <1>5, <1>6 DEF ScanInv

(* ScanInv is inductive. *)
LEMMA ScanInductive ==
    /\ ReportsInit => ScanInv
    /\ ScanInv /\ [ReportsNext]_reportVars => ScanInv'
<1>1. ReportsInit => ScanInv
  BY ScanStarts DEF ReportsInit
<1>2. ASSUME ScanInv, [ReportsNext]_reportVars PROVE ScanInv'
  <2>1. CASE EndOfFile
    BY <1>2, <2>1, EndOfFileKeeps
  <2>2. CASE CutRecord
    BY <1>2, <2>2, CutRecordKeeps
  <2>3. CASE TopRecord
    BY <1>2, <2>3, TopRecordKeeps
  <2>4. CASE EndSegment
    BY <1>2, <2>4, EndSegmentKeeps
  <2>5. CASE StopEarly
    BY <1>2, <2>5, StopEarlyKeeps
  <2>6. CASE CountObject
    BY <1>2, <2>6, CountObjectKeeps
  <2>7. CASE NoteRoot
    BY <1>2, <2>7, NoteRootKeeps
  <2>8. CASE NoteClass
    BY <1>2, <2>8, NoteClassKeeps
  <2>9. CASE SkipInfo
    BY <1>2, <2>9, SkipInfoKeeps
  <2>10. CASE AbandonSegment
    BY <1>2, <2>10, AbandonSegmentKeeps
  <2>11. CASE UNCHANGED scanVars
    BY <1>2, <2>11, ScanKept
  <2>12. UNCHANGED scanVars \/ ScanNext
    BY <1>2, OthersLeaveScan
  <2>. QED
    BY <2>1, <2>2, <2>3, <2>4, <2>5, <2>6, <2>7, <2>8, <2>9, <2>10, <2>11, <2>12 DEF ScanNext
<1>. QED
  BY <1>1, <1>2

(* However a dump falls into chunks and buffers, and wherever the scan of  *)
(* it stops: what was counted is exactly what is there up to that place,   *)
(* in order, each record once, and a report that is not marked truncated   *)
(* has counted every record of the file.                                   *)
THEOREM ScansAreExact == ReportsSpec => []ScanIsExact
<1>1. ScanInv => ScanIsExact
  BY DEF ScanInv
<1>. QED
  BY <1>1, ScanInductive, PTL DEF ReportsSpec
=============================================================================

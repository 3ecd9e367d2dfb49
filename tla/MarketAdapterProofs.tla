------------------------- MODULE MarketAdapterProofs -------------------------
(***************************************************************************)
(* The market layer, for every broker, every set of symbols, prices,       *)
(* limits and parts of a line an append can leave behind, and journals and *)
(* venues of any length:                                                   *)
(*   - the journal loses at most two committed executions before it        *)
(*     becomes unreadable, however often appends are torn, rejected or cut *)
(*     short and the process restarted;                                    *)
(*   - positions, mirror and portfolio agree, and no stream a broker       *)
(*     returns breaks them;                                                *)
(*   - what is committed stays within what was approved;                   *)
(*   - as long as nothing is suspect, the process and the venue agree;     *)
(*   - the account does not drift from its fills but by rounding, and its  *)
(*     drawdowns are those of the whole series, across restarts;           *)
(*   - the mark an order is sized on is never quietly stale, however the   *)
(*     polls that fetch it overlap;                                        *)
(*   - the proposals of a tick do not depend on the order its decisions    *)
(*     came in, and are owned by a strategy that asked for them.           *)
(***************************************************************************)
EXTENDS MarketAdapter, QuoteTransport, AccountLedger, Allocation, CommonProofs

\* The journal f holds the committed executions c, one more or one less; l of them
\* were lost before.
Complete(f, c, l) ==
  /\ Intact(f) /\ l = 0
  /\ Len(c) = Len(f) \/ Len(c) = Len(f) - 1
  /\ \A i \in 1 .. Len(c) : c[i] = f[i].parsed[1]

\* The journal has lost its last line: one execution less was lost while another
\* append can still be glued to it.
Short(f, c, l) ==
  /\ TornLast(f) /\ Len(f) - 1 <= Len(c)
  /\ \A i \in 1 .. Len(f) - 1 : c[i] = f[i].parsed[1]
  /\ l + Len(c) - (Len(f) - 1) <= 2
  /\ Unterminated(f) => l + Len(c) - (Len(f) - 1) <= 1

Ledger(f, c, l) ==
  /\ IsSequence(f) /\ IsSequence(c) /\ l \in Nat
  /\ Broken(f) \/ Complete(f, c, l) \/ Short(f, c, l)

\* A running process numbers its next record by what it has committed, and an intact
\* line it has not committed was left without its newline.
InStep(f, c, seq) ==
  Intact(f) => seq = Len(c) /\ (Len(c) # Len(f) => Unterminated(f))

JournalInv ==
  /\ Ledger(file, committed, lost)
  /\ pc \notin {"down", "unarmed"} => InStep(file, committed, nextSeq)

-----------------------------------------------------------------------------
\* A committed line: journal and commits move together.
LEMMA CommitKeeps ==
  ASSUME NEW f, NEW c, NEW l, NEW rec, NEW new,
         Ledger(f, c, l), InStep(f, c, rec.seq), new = appendFile(f, rec, "line")
  PROVE  Ledger(new, Append(c, rec), l) /\ InStep(new, Append(c, rec), rec.seq + 1)
<1> DEFINE d == Append(c, rec)
<1>1. IsSequence(f) /\ IsSequence(c) /\ l \in Nat
  BY DEF Ledger
<1>2. /\ IsSequence(d) /\ Len(c) \in Nat /\ Len(d) = Len(c) + 1
      /\ \A i \in 1 .. Len(c) : d[i] = c[i]
      /\ d[Len(c) + 1] = rec
  BY <1>1, AppendEntry
<1> HIDE DEF d
<1>3. /\ IsSequence(new)
      /\ Glued(f, "line", new) \/ Grown(f, rec, "line", new)
  BY <1>1, AppendShape DEF Parts
<1>4. Len(f) \in Nat
  BY <1>1, LenProperties DEF IsSequence
<1> SUFFICES Ledger(new, d, l) /\ InStep(new, d, rec.seq + 1)
  BY DEF d
<1>5. CASE Broken(f)
  <2>1. Broken(new)
    BY <1>1, <1>5, BrokenStays DEF Parts
  <2> QED
    BY <1>1, <1>2, <1>3, <2>1, NotIntact DEF Ledger, InStep
<1>6. CASE Complete(f, c, l) /\ Glued(f, "line", new)
  <2>1. /\ TornLast(new) /\ Len(new) = Len(f) /\ ~Unterminated(new)
        /\ \A i \in 1 .. Len(f) - 1 : new[i] = f[i]
    BY <1>1, <1>6, GluedIsTorn DEF Complete
  <2>2. l = 0 /\ (Len(c) = Len(f) \/ Len(c) = Len(f) - 1)
    BY <1>6 DEF Complete
  <2>3. \A i \in 1 .. Len(f) - 1 : i \in 1 .. Len(c)
    BY <1>4, <2>2
  <2>4. \A i \in 1 .. Len(f) - 1 : d[i] = f[i].parsed[1]
    BY <1>2, <1>6, <2>3 DEF Complete
  <2>5. Len(f) - 1 <= Len(d) /\ l + Len(d) - (Len(f) - 1) <= 2
    BY <1>2, <1>4, <2>2
  <2>6. Short(new, d, l)
    BY <2>1, <2>4, <2>5 DEF Short
  <2> QED
    BY <1>1, <1>2, <1>3, <2>1, <2>6, NotIntact DEF Ledger, InStep
<1>7. CASE Complete(f, c, l) /\ Grown(f, rec, "line", new)
  <2>1. Intact(f) /\ ~Unterminated(f) /\ l = 0
    BY <1>7 DEF Complete, Grown
  <2>2. Len(c) = Len(f) /\ rec.seq = Len(f)
    BY <2>1 DEF InStep
  <2>3. /\ Len(new) = Len(f) + 1 /\ Intact(new)
        /\ new[Len(new)].parsed[1] = rec
        /\ \A i \in 1 .. Len(f) : new[i] = f[i]
    BY <1>1, <1>7, <2>1, <2>2, GrownIs
  <2>4. \A i \in 1 .. Len(d) : i \in 1 .. Len(c) \/ i = Len(c) + 1
    BY <1>2
  <2>5. \A i \in 1 .. Len(c) : d[i] = new[i].parsed[1]
    BY <1>2, <1>7, <2>2, <2>3 DEF Complete
  <2>6. d[Len(c) + 1] = new[Len(c) + 1].parsed[1]
    BY <1>2, <2>2, <2>3
  <2>7. \A i \in 1 .. Len(d) : d[i] = new[i].parsed[1]
    BY <2>4, <2>5, <2>6
  <2>8. Len(d) = Len(new) /\ rec.seq + 1 = Len(d)
    BY <1>2, <2>2, <2>3
  <2>9. Complete(new, d, l)
    BY <2>1, <2>3, <2>7, <2>8 DEF Complete
  <2> QED
    BY <1>1, <1>2, <1>3, <2>8, <2>9 DEF Ledger, InStep
<1>8. CASE Short(f, c, l) /\ Glued(f, "line", new)
  <2>1. /\ TornLast(new) /\ Len(new) = Len(f) /\ ~Unterminated(new)
        /\ \A i \in 1 .. Len(f) - 1 : new[i] = f[i]
    BY <1>1, <1>8, GluedIsTorn DEF Short
  <2>2. Len(f) - 1 <= Len(c) /\ l + Len(c) - (Len(f) - 1) <= 1
    BY <1>8 DEF Short, Glued
  <2>3. \A i \in 1 .. Len(f) - 1 : i \in 1 .. Len(c)
    BY <1>2, <1>4, <2>2
  <2>4. \A i \in 1 .. Len(f) - 1 : d[i] = f[i].parsed[1]
    BY <1>2, <1>8, <2>3 DEF Short
  <2>5. Len(f) - 1 <= Len(d) /\ l + Len(d) - (Len(f) - 1) <= 2
    BY <1>1, <1>2, <1>4, <2>2
  <2>6. Short(new, d, l)
    BY <2>1, <2>4, <2>5 DEF Short
  <2> QED
    BY <1>1, <1>2, <1>3, <2>1, <2>6, NotIntact DEF Ledger, InStep
<1>9. CASE Short(f, c, l) /\ Grown(f, rec, "line", new)
  <2>1. Broken(new)
    BY <1>1, <1>9, GrownIs DEF Short
  <2> QED
    BY <1>1, <1>2, <1>3, <2>1, NotIntact DEF Ledger, InStep
<1> QED
  BY <1>3, <1>5, <1>6, <1>7, <1>8, <1>9 DEF Ledger

\* What an append leaves that is not committed: any part of the line if the process
\* dies with it, all but the newline if it lives on.
LEMMA LeftoverKeeps ==
  ASSUME NEW f, NEW c, NEW l, NEW rec, NEW part \in Parts, NEW new,
         Ledger(f, c, l), InStep(f, c, rec.seq), new = appendFile(f, rec, part)
  PROVE  /\ Ledger(new, c, l)
         /\ part # "line" => InStep(new, c, rec.seq)
<1>1. IsSequence(f) /\ IsSequence(c) /\ l \in Nat
  BY DEF Ledger
<1>2. Len(f) \in Nat /\ Len(c) \in Nat
  BY <1>1, LenProperties DEF IsSequence
<1>3. /\ IsSequence(new)
      /\ new = f \/ Glued(f, part, new) \/ Grown(f, rec, part, new)
  BY <1>1, AppendShape
<1>4. CASE new = f
  BY <1>4
<1>5. CASE Broken(f)
  <2>1. Broken(new)
    BY <1>1, <1>5, BrokenStays
  <2> QED
    BY <1>1, <1>3, <2>1, NotIntact DEF Ledger, InStep
<1>6. CASE Complete(f, c, l) /\ Glued(f, part, new)
  <2>1. /\ TornLast(new) /\ Len(new) = Len(f)
        /\ \A i \in 1 .. Len(f) - 1 : new[i] = f[i]
    BY <1>1, <1>6, GluedIsTorn DEF Complete
  <2>2. l = 0 /\ (Len(c) = Len(f) \/ Len(c) = Len(f) - 1)
    BY <1>6 DEF Complete
  <2>3. \A i \in 1 .. Len(f) - 1 : i \in 1 .. Len(c)
    BY <1>2, <2>2
  <2>4. \A i \in 1 .. Len(f) - 1 : c[i] = f[i].parsed[1]
    BY <1>6, <2>3 DEF Complete
  <2>5. Len(f) - 1 <= Len(c) /\ l + Len(c) - (Len(f) - 1) <= 1
    BY <1>2, <2>2
  <2>6. l + Len(c) - (Len(f) - 1) <= 2
    BY <1>1, <1>2, <2>5
  <2>7. Short(new, c, l)
    BY <2>1, <2>4, <2>5, <2>6 DEF Short
  <2> QED
    BY <1>1, <1>3, <2>1, <2>7, NotIntact DEF Ledger, InStep
<1>7. CASE Complete(f, c, l) /\ Grown(f, rec, part, new)
  <2>1. Intact(f) /\ ~Unterminated(f) /\ l = 0
    BY <1>7 DEF Complete, Grown
  <2>2. Len(c) = Len(f) /\ rec.seq = Len(f)
    BY <2>1 DEF InStep
  <2>3. /\ Len(new) = Len(f) + 1
        /\ \A i \in 1 .. Len(f) : new[i] = f[i]
        /\ part = "line" \/ Unterminated(new)
        /\ IF part = "torn" THEN TornLast(new) ELSE Intact(new)
    BY <1>1, <1>7, <2>1, <2>2, GrownIs
  <2>4. Len(new) - 1 = Len(c)
    BY <1>2, <2>2, <2>3
  <2>5. \A i \in 1 .. Len(c) : c[i] = new[i].parsed[1]
    BY <1>7, <2>2, <2>3 DEF Complete
  <2>6. CASE part = "torn"
    <3>1. Len(new) - 1 <= Len(c) /\ l + Len(c) - (Len(new) - 1) <= 1
      BY <1>2, <2>1, <2>4
    <3>2. l + Len(c) - (Len(new) - 1) <= 2
      BY <1>2, <2>1, <2>4
    <3>3. Short(new, c, l)
      BY <2>3, <2>4, <2>5, <2>6, <3>1, <3>2 DEF Short
    <3> QED
      BY <1>1, <1>3, <2>3, <2>6, <3>3, NotIntact DEF Ledger, InStep
  <2>7. CASE part # "torn"
    <3>1. Complete(new, c, l)
      BY <2>1, <2>3, <2>4, <2>5, <2>7 DEF Complete
    <3>2. part # "line" => InStep(new, c, rec.seq)
      BY <2>2, <2>3 DEF InStep
    <3> QED
      BY <1>1, <1>3, <3>1, <3>2 DEF Ledger
  <2> QED
    BY <2>6, <2>7
<1>8. CASE Short(f, c, l) /\ Glued(f, part, new)
  <2>1. /\ TornLast(new) /\ Len(new) = Len(f)
        /\ \A i \in 1 .. Len(f) - 1 : new[i] = f[i]
    BY <1>1, <1>8, GluedIsTorn DEF Short
  <2>2. /\ Len(f) - 1 <= Len(c) /\ l + Len(c) - (Len(f) - 1) <= 1
        /\ l + Len(c) - (Len(f) - 1) <= 2
        /\ \A i \in 1 .. Len(f) - 1 : c[i] = f[i].parsed[1]
    BY <1>8 DEF Short, Glued
  <2>3. Short(new, c, l)
    BY <2>1, <2>2 DEF Short
  <2> QED
    BY <1>1, <1>3, <2>1, <2>3, NotIntact DEF Ledger, InStep
<1>9. CASE Short(f, c, l) /\ Grown(f, rec, part, new)
  <2>1. Broken(new)
    BY <1>1, <1>9, GrownIs DEF Short
  <2> QED
    BY <1>1, <1>3, <2>1, NotIntact DEF Ledger, InStep
<1> QED
  BY <1>3, <1>4, <1>5, <1>6, <1>7, <1>8, <1>9 DEF Ledger

\* The larger of 0 and n, as Recover counts what was lost.
LEMMA MaxWithZero ==
  ASSUME NEW n \in Int
  PROVE  Max({0, n}) = IF n > 0 THEN n ELSE 0
<1> DEFINE m == IF n > 0 THEN n ELSE 0
<1>1. m \in {0, n} /\ \A y \in {0, n} : m >= y
  OBVIOUS
<1>2. \A x \in {0, n} : (\A y \in {0, n} : x >= y) => x = m
  OBVIOUS
<1> HIDE DEF m
<1>3. Max({0, n}) = m
  BY <1>1, <1>2 DEF Max
<1> QED
  BY <1>3 DEF m

\* A restart that can read the journal goes on from what it read.
LEMMA RecoverKeeps ==
  ASSUME NEW f, NEW c, NEW l, Ledger(f, c, l), readAllSucceeds(f)
  PROVE  /\ Ledger(f, readAll(f), l + Max({0, Len(c) - Len(readAll(f))}))
         /\ InStep(f, readAll(f), Len(readAll(f)))
<1> DEFINE r == readAll(f)
           k == Max({0, Len(c) - Len(r)})
<1>1. IsSequence(f) /\ IsSequence(c) /\ l \in Nat
  BY DEF Ledger
<1>2. Len(f) \in Nat /\ Len(c) \in Nat
  BY <1>1, LenProperties DEF IsSequence
<1>3. ~Broken(f)
  BY <1>1, ReadBroken
<1>4. CASE Complete(f, c, l)
  <2>1. /\ IsSequence(r) /\ Len(r) = Len(f)
        /\ \A i \in 1 .. Len(f) : r[i] = f[i].parsed[1]
    BY <1>1, <1>4, ReadIntact DEF Complete
  <2> HIDE DEF r
  <2>2. Len(c) - Len(r) \in Int /\ ~(Len(c) - Len(r) > 0)
    BY <1>2, <1>4, <2>1 DEF Complete
  <2>3. k = 0
    BY <2>2, MaxWithZero
  <2> HIDE DEF k
  <2>4. l + k = 0 /\ l + k \in Nat
    BY <1>4, <2>3 DEF Complete
  <2>5. Complete(f, r, l + k)
    BY <1>4, <2>1, <2>4 DEF Complete
  <2>6. Ledger(f, r, l + k) /\ InStep(f, r, Len(r))
    BY <1>1, <2>1, <2>4, <2>5 DEF Ledger, InStep
  <2> QED
    BY <2>6 DEF r, k
<1>5. CASE Short(f, c, l)
  <2>1. /\ IsSequence(r) /\ Len(r) = Len(f) - 1
        /\ \A i \in 1 .. Len(f) - 1 : r[i] = f[i].parsed[1]
    BY <1>1, <1>5, ReadTorn DEF Short
  <2> HIDE DEF r
  <2>2. Len(c) - Len(r) \in Int /\ Len(c) - Len(r) >= 0 /\ Len(r) \in Int
    BY <1>2, <1>5, <2>1 DEF Short
  <2>3. k = Len(c) - Len(r)
    BY <2>2, MaxWithZero
  <2> HIDE DEF k
  <2>4. /\ l + k \in Nat
        /\ l + k + Len(r) - (Len(f) - 1) = l + Len(c) - (Len(f) - 1)
        /\ Len(f) - 1 <= Len(r)
    BY <1>1, <1>2, <2>1, <2>2, <2>3
  <2>5. Short(f, r, l + k)
    BY <1>5, <2>1, <2>4 DEF Short
  <2>6. ~Intact(f)
    BY <1>1, <1>5, NotIntact DEF Short
  <2>7. Ledger(f, r, l + k) /\ InStep(f, r, Len(r))
    BY <1>1, <2>1, <2>4, <2>5, <2>6 DEF Ledger, InStep
  <2> QED
    BY <2>7 DEF r, k
<1> QED
  BY <1>3, <1>4, <1>5 DEF Ledger

\* A shorter sequence with the same entries is a prefix.
LEMMA PrefixByEntries ==
  ASSUME NEW s, NEW t, IsSequence(s), IsSequence(t), Len(s) <= Len(t),
         \A i \in 1 .. Len(s) : s[i] = t[i]
  PROVE  IsPrefix(s, t)
<1>1. Len(s) \in Nat /\ Len(t) \in Nat
  BY LenProperties DEF IsSequence
<1>2. SubSeq(s, 1, Len(s)) = SubSeq(t, 1, Len(s))
  BY <1>1 DEF IsSequence
<1> QED
  BY <1>2 DEF IsPrefix

-----------------------------------------------------------------------------
\* The empty journal of a first start.
LEMMA InitJournal == Init => JournalInv
<1> SUFFICES ASSUME Init PROVE JournalInv
  OBVIOUS
<1>1. file = <<>> /\ committed = <<>> /\ lost = 0 /\ pc = "down"
  BY DEF Init
<1>2. IsSequence(<<>>) /\ Len(<<>>) = 0
  BY EmptySeq, SequenceOf
<1>3. Complete(file, committed, lost)
  BY <1>1, <1>2 DEF Complete, Intact
<1> QED
  BY <1>1, <1>2, <1>3 DEF JournalInv, Ledger

\* The steps that leave the journal and the commits alone.
LEMMA QuietStep ==
  ASSUME JournalInv, UNCHANGED <<file, nextSeq, committed, lost>>,
         pc' \notin {"down", "unarmed"} => pc \notin {"down", "unarmed"}
  PROVE  JournalInv'
BY DEF JournalInv, Ledger, InStep, Complete, Short, Intact, TornLast, Broken, Sound,
       IsSequence, Entries, Unterminated

\* Only recovery, the two outcomes of an append and a crash touch the journal or the
\* commits.
LEMMA NextJournal == JournalInv /\ [Next]_vars => JournalInv'
<1> SUFFICES ASSUME JournalInv, [Next]_vars PROVE JournalInv'
  OBVIOUS
<1>1. Ledger(file, committed, lost)
  BY DEF JournalInv
<1>2. CASE Recover
  <2>1. readAllSucceeds(file)
    BY <1>2 DEF Recover, recoverable
  <2>2. /\ file' = file /\ committed' = readAll(file)
        /\ nextSeq' = Len(readAll(file))
        /\ lost' = lost + Max({0, Len(committed) - Len(readAll(file))})
    BY <1>2 DEF Recover
  <2>3. Ledger(file', committed', lost') /\ InStep(file', committed', nextSeq')
    BY <1>1, <2>1, <2>2, RecoverKeeps
  <2> QED
    BY <2>3 DEF JournalInv, Ledger, InStep, Complete, Short, Intact, TornLast, Broken,
              Sound, IsSequence, Entries, Unterminated
<1>3. CASE AppendCommits
  <2>1. InStep(file, committed, NextRecord.seq) /\ NextRecord.seq = nextSeq
    BY <1>3 DEF AppendCommits, JournalInv, NextRecord
  <2>2. /\ file' = appendFile(file, NextRecord, "line")
        /\ committed' = Append(committed, NextRecord)
        /\ nextSeq' = NextRecord.seq + 1 /\ lost' = lost
    BY <1>3, <2>1 DEF AppendCommits
  <2>3. Ledger(file', committed', lost') /\ InStep(file', committed', nextSeq')
    BY <1>1, <2>1, <2>2, CommitKeeps
  <2> QED
    BY <2>3 DEF JournalInv, Ledger, InStep, Complete, Short, Intact, TornLast, Broken,
              Sound, IsSequence, Entries, Unterminated
<1>4. CASE AppendRejected
  <2>1. InStep(file, committed, NextRecord.seq) /\ NextRecord.seq = nextSeq
    BY <1>4 DEF AppendRejected, JournalInv, NextRecord
  <2>2. PICK part \in FailedParts : file' = appendFile(file, NextRecord, part)
    BY <1>4 DEF AppendRejected
  <2>3. part \in Parts /\ part # "line"
    BY MarketAssumption
  <2>4. committed' = committed /\ nextSeq' = NextRecord.seq /\ lost' = lost
    BY <1>4, <2>1 DEF AppendRejected, history
  <2>5. Ledger(file', committed', lost') /\ InStep(file', committed', nextSeq')
    BY <1>1, <2>1, <2>2, <2>3, <2>4, LeftoverKeeps
  <2> QED
    BY <2>5 DEF JournalInv, Ledger, InStep, Complete, Short, Intact, TornLast, Broken,
              Sound, IsSequence, Entries, Unterminated
<1>5. CASE Crash
  <2>1. pc' = "down" /\ committed' = committed /\ lost' = lost
    BY <1>5 DEF Crash, history
  <2>2. CASE file' = file
    BY <1>1, <2>1, <2>2 DEF JournalInv, Ledger, Complete, Short, Intact, TornLast,
              Broken, Sound, IsSequence, Entries, Unterminated
  <2>3. CASE pc = "append"
             /\ \E part \in TornParts : file' = appendFile(file, NextRecord, part)
    <3>1. InStep(file, committed, NextRecord.seq)
      BY <2>3 DEF JournalInv, NextRecord
    <3>2. PICK part \in TornParts : file' = appendFile(file, NextRecord, part)
      BY <2>3
    <3>3. part \in Parts
      BY MarketAssumption
    <3>4. Ledger(file', committed', lost')
      BY <1>1, <2>1, <3>1, <3>2, <3>3, LeftoverKeeps
    <3> QED
      BY <2>1, <3>4 DEF JournalInv, Ledger, Complete, Short, Intact, TornLast, Broken,
                Sound, IsSequence, Entries, Unterminated
  <2> QED
    BY <1>5, <2>2, <2>3 DEF Crash
<1>6. CASE RecoverUnarmed
  BY <1>6, QuietStep DEF RecoverUnarmed, journal, history
<1>7. CASE Decide
  BY <1>7, QuietStep DEF Decide, journal, history
<1>8. CASE \E price \in Prices : NoOp(price)
  BY <1>8, QuietStep DEF NoOp, Approved, journal, history
<1>9. CASE \E price \in Prices : PlacePaper(price)
  BY <1>9, QuietStep DEF PlacePaper, Approved, journal, history
<1>10. CASE \E price \in Prices : PlaceSimulated(price)
  BY <1>10, QuietStep DEF PlaceSimulated, Approved, journal, history
<1>11. CASE \E price \in Prices : PlaceReal(price)
  BY <1>11, QuietStep DEF PlaceReal, Approved, journal, history
<1>12. CASE VenueAnswers
  BY <1>12, QuietStep DEF VenueAnswers, journal, history
<1>13. CASE VenueRefuses
  BY <1>13, QuietStep DEF VenueRefuses, Reject, journal, history
<1>14. CASE AmbiguousExecuted \/ AmbiguousLost \/ AmbiguousDelayed
  BY <1>14, QuietStep DEF AmbiguousExecuted, AmbiguousLost, AmbiguousDelayed,
                      journal, history
<1>15. CASE LateArrives \/ VenueFillsOpen
  BY <1>15, QuietStep DEF LateArrives, VenueFillsOpen, journal, history
<1>16. CASE LookupEmpty \/ LookupFinds \/ LookupTrades \/ LookupUnread \/ LookupFails
  BY <1>16, QuietStep DEF LookupEmpty, LookupFinds, LookupTrades, LookupUnread, LookupFails, Reject,
                      journal, history
<1>17. CASE CancelOpen \/ CancelFails
  BY <1>17, QuietStep DEF CancelOpen, CancelFails, Reject, journal, history
<1>18. CASE PlaceReturns \/ PlaceThrows
  BY <1>18, QuietStep DEF PlaceReturns, PlaceThrows, Reject, journal, history
<1>19. CASE Settle
  BY <1>19, QuietStep DEF Settle, Reject, journal, history
<1>20. CASE UNCHANGED vars
  BY <1>20, QuietStep DEF vars, journal, history
<1> QED
  BY <1>2, <1>3, <1>4, <1>5, <1>6, <1>7, <1>8, <1>9, <1>10, <1>11, <1>12, <1>13,
     <1>14, <1>15, <1>16, <1>17, <1>18, <1>19, <1>20 DEF Next

\* The invariant holds throughout.
LEMMA JournalInvariant == Spec => []JournalInv
BY InitJournal, NextJournal, PTL DEF Spec

\* The invariant bounds the loss.
LEMMA LedgerBounds == JournalInv => LosesAtMostTwo
<1> SUFFICES ASSUME JournalInv, readAllSucceeds(file)
             PROVE  LET records == readAll(file)
                    IN \/ /\ IsPrefix(records, committed)
                          /\ lost + Len(committed) - Len(records) <= 2
                       \/ /\ IsPrefix(committed, records)
                          /\ Len(records) = Len(committed) + 1 /\ lost = 0
  BY DEF LosesAtMostTwo
<1> DEFINE r == readAll(file)
<1>1. /\ IsSequence(file) /\ IsSequence(committed) /\ lost \in Nat
      /\ Complete(file, committed, lost) \/ Short(file, committed, lost)
  BY ReadBroken DEF JournalInv, Ledger
<1>2. Len(file) \in Nat /\ Len(committed) \in Nat
  BY <1>1, LenProperties DEF IsSequence
<1>3. CASE Complete(file, committed, lost)
  <2>1. /\ IsSequence(r) /\ Len(r) = Len(file)
        /\ \A i \in 1 .. Len(file) : r[i] = file[i].parsed[1]
    BY <1>1, <1>3, ReadIntact DEF Complete
  <2> HIDE DEF r
  <2>2. /\ lost = 0 /\ Len(committed) <= Len(r)
        /\ Len(committed) = Len(r) \/ Len(r) = Len(committed) + 1
    BY <1>2, <1>3, <2>1 DEF Complete
  <2>3. \A i \in 1 .. Len(committed) : i \in 1 .. Len(file)
    BY <1>2, <2>1, <2>2
  <2>4. \A i \in 1 .. Len(committed) : committed[i] = r[i]
    BY <1>3, <2>1, <2>3 DEF Complete
  <2>5. CASE Len(committed) = Len(r)
    <3>1. IsPrefix(r, committed)
      BY <1>1, <1>2, <2>1, <2>4, <2>5, PrefixByEntries
    <3>2. lost + Len(committed) - Len(r) <= 2
      BY <1>2, <2>2, <2>5
    <3> QED
      BY <3>1, <3>2 DEF r
  <2>6. CASE Len(r) = Len(committed) + 1
    <3>1. IsPrefix(committed, r)
      BY <1>1, <2>1, <2>2, <2>4, PrefixByEntries
    <3> QED
      BY <2>2, <2>6, <3>1 DEF r
  <2> QED
    BY <2>2, <2>5, <2>6
<1>4. CASE Short(file, committed, lost)
  <2>1. /\ IsSequence(r) /\ Len(r) = Len(file) - 1
        /\ \A i \in 1 .. Len(file) - 1 : r[i] = file[i].parsed[1]
    BY <1>1, <1>4, ReadTorn DEF Short
  <2> HIDE DEF r
  <2>2. /\ Len(r) <= Len(committed) /\ lost + Len(committed) - Len(r) <= 2
        /\ \A i \in 1 .. Len(r) : r[i] = committed[i]
    BY <1>4, <2>1 DEF Short
  <2>3. IsPrefix(r, committed)
    BY <1>1, <2>1, <2>2, PrefixByEntries
  <2> QED
    BY <2>2, <2>3 DEF r
<1> QED
  BY <1>1, <1>3, <1>4

\* Whatever appends leave behind and however often the process restarts, a journal
\* that can be read has lost at most two of the executions ever committed.
THEOREM LossIsBounded == Spec => []LosesAtMostTwo
BY JournalInvariant, LedgerBounds, PTL

-----------------------------------------------------------------------------
\* Order streams: what every broker returns, and what the order state machine and the
\* fills make of it.

Trade == [qty : Nat \ {0}, price : Nat]

\* The running quantity.
QtySteps(trades) == [p \in (1 .. Len(trades)) \X Nat |-> p[2] + trades[p[1]].qty]

SumsUp(g, s) == g = [t \in SUBSET (DOMAIN s) |->
                       IF t = {} THEN 0 ELSE g[t \ {Max(t)}] + s[Max(t)].qty]

\* The quantities of a list of trades are added up one trade after the other.
LEMMA QtyOfPrefix ==
  ASSUME NEW s \in Seq(Trade)
  PROVE  \E c : /\ IsRun(c, Len(s), Nat, 0, QtySteps(s))
                /\ FoldLeft(LAMBDA sum, t : sum + t.qty, 0, s) = c[Len(s)]
<1> DEFINE n == Len(s)
           T == QtySteps(s)
<1>1. n \in Nat /\ DOMAIN s = 1 .. n /\ \A i \in 1 .. n : s[i].qty \in Nat
  <2>1. n \in Nat /\ DOMAIN s = 1 .. n /\ \A i \in 1 .. n : s[i] \in Trade
    OBVIOUS
  <2>2. \A x \in Trade : x.qty \in Nat
    BY DEF Trade
  <2> QED
    BY <2>1, <2>2
<1>2. T \in [(1 .. n) \X Nat -> Nat] /\ \A i \in 1 .. n, a \in Nat : T[<<i, a>>] = a + s[i].qty
  BY <1>1 DEF QtySteps
<1> HIDE DEF n, T
<1>3. PICK it \in [SUBSET (1 .. n) -> Nat] : Folded(it, n, 0, T)
  BY <1>1, <1>2, FoldExists
<1>4. \A t \in SUBSET (1 .. n) : t # {} => Max(t) \in 1 .. n /\ t \ {Max(t)} \in SUBSET (1 .. n)
  BY <1>1, MaxOfPositions
<1>5. SumsUp(it, s)
  <2>1. \A t \in SUBSET (1 .. n) : it[t] = IF t = {} THEN 0 ELSE it[t \ {Max(t)}] + s[Max(t)].qty
    BY <1>1, <1>2, <1>3, <1>4 DEF Folded
  <2> QED
    BY <1>1, <1>3, <2>1 DEF SumsUp
<1>6. PICK g : SumsUp(g, s) /\ FoldLeft(LAMBDA sum, t : sum + t.qty, 0, s) = g[DOMAIN s]
  BY <1>5, Zenon DEF FoldLeft, MapThenFoldSet, SumsUp
<1>7. /\ g[{}] = 0
      /\ \A t \in SUBSET (1 .. n) : t # {} => g[t] = g[t \ {Max(t)}] + s[Max(t)].qty
  BY <1>1, <1>6 DEF SumsUp
<1>8. Recurses(g, n, Nat, 0, T) /\ StepsIn(Nat, n, 0, T)
  BY <1>1, <1>2, <1>4, <1>7 DEF Recurses, StepsIn
<1>9. \E c : IsRun(c, n, Nat, 0, T) /\ c[n] = g[1 .. n]
  BY <1>8, FoldRuns
<1> QED
  BY <1>1, <1>6, <1>9 DEF n, T

\* The cumulative quantity starts at zero and grows by each trade's quantity.
LEMMA CumQtyIs ==
  ASSUME NEW s \in Seq(Trade)
  PROVE  /\ \A i \in 0 .. Len(s) : CumQty(s, i) \in Nat
         /\ CumQty(s, 0) = 0
         /\ \A i \in 1 .. Len(s) : CumQty(s, i) = CumQty(s, i - 1) + s[i].qty
<1>1. PICK c : IsRun(c, Len(s), Nat, 0, QtySteps(s))
  BY QtyOfPrefix
<1>2. ASSUME NEW i \in 0 .. Len(s) PROVE CumQty(s, i) = c[i]
  <2> DEFINE t == SubSeq(s, 1, i)
  <2>1. t \in Seq(Trade) /\ Len(t) = i /\ \A k \in 1 .. i : t[k] = s[k]
    OBVIOUS
  <2> HIDE DEF t
  <2>2. PICK d : /\ IsRun(d, Len(t), Nat, 0, QtySteps(t))
                 /\ FoldLeft(LAMBDA sum, x : sum + x.qty, 0, t) = d[Len(t)]
    BY <2>1, QtyOfPrefix
  <2>3. SameSteps(QtySteps(t), QtySteps(s), Nat, i, Len(s))
    <3>1. i \in Nat /\ Len(s) \in Nat /\ i <= Len(s)
      OBVIOUS
    <3>2. \A k \in 1 .. i : \A a \in Nat : QtySteps(t)[<<k, a>>] = QtySteps(s)[<<k, a>>]
      BY <2>1 DEF QtySteps
    <3> QED
      BY <3>1, <3>2 DEF SameSteps
  <2>5. d[i] = c[i]
    <3>1. IsRun(d, i, Nat, 0, QtySteps(t))
      BY <2>1, <2>2
    <3>2. \A k \in 0 .. i : d[k] = c[k]
      BY <1>1, <3>1, <2>3, RunIsUnique
    <3> QED
      BY <3>2
  <2>6. CumQty(s, i) = d[i]
    BY <2>1, <2>2 DEF CumQty, t
  <2> QED
    BY <2>5, <2>6
<1>3. Len(s) \in Nat
  OBVIOUS
<1>4. \A i \in 1 .. Len(s) : i \in 0 .. Len(s) /\ i - 1 \in 0 .. Len(s)
  OBVIOUS
<1>5. \A i \in 1 .. Len(s) : c[i] = c[i - 1] + s[i].qty
  BY <1>1, <1>4 DEF IsRun, QtySteps
<1>6. 0 \in 0 .. Len(s) /\ c[0] = 0 /\ \A i \in 0 .. Len(s) : c[i] \in Nat
  BY <1>1, <1>3 DEF IsRun
<1>7. \A i \in 0 .. Len(s) : CumQty(s, i) = c[i]
  BY <1>2
<1> QED
  BY <1>4, <1>5, <1>6, <1>7

Kinds == {"REQUESTED", "SUBMITTED", "ACCEPTED", "PARTIALLY_FILLED", "FILLED", "CANCELLED", "REJECTED"}
OrderEvent == [kind : Kinds, qty : Nat, price : Nat, cum : Nat]
Reduced == [state : Kinds \cup {"START"}, filled : Nat, sound : BOOLEAN]

\* The fills of a stream.
FillsSteps(ev) ==
  [p \in (1 .. Len(ev)) \X Seq(OrderEvent) |-> (IF isFillEvent(ev[p[1]]) THEN Append(p[2], ev[p[1]])
                                                ELSE p[2])]
FillsRecursion(g, ev) ==
  g = [t \in SUBSET (DOMAIN ev) |->
         IF t = {} THEN <<>>
         ELSE (IF isFillEvent(ev[Max(t)]) THEN Append(g[t \ {Max(t)}], ev[Max(t)])
               ELSE g[t \ {Max(t)}])]

\* fillsFrom walks the events and keeps the fills.
LEMMA FillsRuns ==
  ASSUME NEW ev \in Seq(OrderEvent)
  PROVE  \E c : /\ IsRun(c, Len(ev), Seq(OrderEvent), <<>>, FillsSteps(ev))
                /\ fillsFrom(ev) = c[Len(ev)]
<1> DEFINE n == Len(ev)
           T == FillsSteps(ev)
<1>1. n \in Nat /\ DOMAIN ev = 1 .. n /\ \A i \in 1 .. n : ev[i] \in OrderEvent
  OBVIOUS
<1>2. \A a \in Seq(OrderEvent), e \in OrderEvent : (IF isFillEvent(e) THEN Append(a, e)
                                                    ELSE a) \in Seq(OrderEvent)
  OBVIOUS
<1>3. T \in [(1 .. n) \X Seq(OrderEvent) -> Seq(OrderEvent)] /\ \A i \in 1 .. n, a \in Seq(OrderEvent) : T[<<i, a>>] = (IF isFillEvent(ev[i]) THEN Append(a, ev[i])
                                                                                                                        ELSE a)
  BY <1>1, <1>2 DEF FillsSteps
<1>4. <<>> \in Seq(OrderEvent)
  OBVIOUS
<1> HIDE DEF n, T
<1>5. PICK it \in [SUBSET (1 .. n) -> Seq(OrderEvent)] : Folded(it, n, <<>>, T)
  BY <1>1, <1>3, <1>4, FoldExists
<1>6. \A t \in SUBSET (1 .. n) : t # {} => Max(t) \in 1 .. n /\ t \ {Max(t)} \in SUBSET (1 .. n)
  BY <1>1, MaxOfPositions
<1>7. FillsRecursion(it, ev)
  <2>1. \A t \in SUBSET (1 .. n) :
          it[t] = IF t = {} THEN <<>>
                  ELSE (IF isFillEvent(ev[Max(t)]) THEN Append(it[t \ {Max(t)}], ev[Max(t)])
                        ELSE it[t \ {Max(t)}])
    BY <1>1, <1>3, <1>5, <1>6, ZenonT(40) DEF Folded
  <2> QED
    BY <1>1, <1>5, <2>1 DEF FillsRecursion
<1>8. PICK g : FillsRecursion(g, ev) /\ fillsFrom(ev) = g[DOMAIN ev]
  BY <1>7, Zenon DEF fillsFrom, FoldLeft, MapThenFoldSet, FillsRecursion
<1>9. /\ g[{}] = <<>>
      /\ \A t \in SUBSET (1 .. n) : t # {} => g[t] = (IF isFillEvent(ev[Max(t)]) THEN Append(g[t \ {Max(t)}], ev[Max(t)])
                                                      ELSE g[t \ {Max(t)}])
  BY <1>1, <1>8 DEF FillsRecursion
<1>10. Recurses(g, n, Seq(OrderEvent), <<>>, T) /\ StepsIn(Seq(OrderEvent), n, <<>>, T)
  BY <1>1, <1>3, <1>4, <1>6, <1>9 DEF Recurses, StepsIn
<1>11. \E c : IsRun(c, n, Seq(OrderEvent), <<>>, T) /\ c[n] = g[1 .. n]
  BY <1>10, FoldRuns
<1> QED
  BY <1>1, <1>8, <1>11 DEF n, T

\* The order an event stream is reduced to.
ReduceSteps(ordered, ev) ==
  [p \in (1 .. Len(ev)) \X Reduced |-> reduceEvent(ordered, p[2], ev[p[1]])]
ReduceRecursion(g, ordered, ev) ==
  g = [t \in SUBSET (DOMAIN ev) |->
         IF t = {} THEN [state |-> "START", filled |-> 0, sound |-> ev # <<>>]
         ELSE reduceEvent(ordered, g[t \ {Max(t)}], ev[Max(t)])]

\* reduceOrder walks the events through the order state machine.
LEMMA ReduceRuns ==
  ASSUME NEW ordered \in Nat, NEW ev \in Seq(OrderEvent)
  PROVE  \E c : /\ IsRun(c, Len(ev), Reduced, [state |-> "START", filled |-> 0, sound |-> ev # <<>>], ReduceSteps(ordered, ev))
                /\ reduceOrder(ordered, ev) = c[Len(ev)]
<1> DEFINE n == Len(ev)
           T == ReduceSteps(ordered, ev)
<1>1. n \in Nat /\ DOMAIN ev = 1 .. n /\ \A i \in 1 .. n : ev[i] \in OrderEvent
  OBVIOUS
<1>2. \A a \in Reduced, e \in OrderEvent : reduceEvent(ordered, a, e) \in Reduced
  <2> TAKE a \in Reduced, e \in OrderEvent
  <2>1. e.kind \in Kinds /\ e.qty \in Nat
    BY DEF OrderEvent
  <2>2. a.filled \in Nat
    BY DEF Reduced
  <2> DEFINE k == IF isFillEvent(e) THEN a.filled + e.qty ELSE a.filled
             o == /\ a.sound
                  /\ a.state \notin TERMINAL
                  /\ a.state \in LEGAL_FROM[e.kind]
                  /\ isFillEvent(e) => SoundFill(e, a.filled, ordered)
  <2>3. k \in Nat
    BY <2>1, <2>2
  <2>4. o \in BOOLEAN
    BY Zenon
  <2>5. reduceEvent(ordered, a, e) = [state |-> e.kind, filled |-> k, sound |-> o]
    BY Zenon DEF reduceEvent
  <2> HIDE DEF k, o
  <2> QED
    BY <2>1, <2>3, <2>4, <2>5 DEF Reduced
<1>3. /\ T \in [(1 .. n) \X Reduced -> Reduced]
      /\ \A i \in 1 .. n, a \in Reduced : T[<<i, a>>] = reduceEvent(ordered, a, ev[i])
  BY <1>1, <1>2 DEF ReduceSteps
<1>4. [state |-> "START", filled |-> 0, sound |-> ev # <<>>] \in Reduced
  BY DEF Reduced
<1> HIDE DEF n, T
<1>5. PICK it \in [SUBSET (1 .. n) -> Reduced] : Folded(it, n, [state |-> "START", filled |-> 0, sound |-> ev # <<>>], T)
  BY <1>1, <1>3, <1>4, FoldExists
<1>6. \A t \in SUBSET (1 .. n) : t # {} => Max(t) \in 1 .. n /\ t \ {Max(t)} \in SUBSET (1 .. n)
  BY <1>1, MaxOfPositions
<1>7. ReduceRecursion(it, ordered, ev)
  <2>1. \A t \in SUBSET (1 .. n) :
          it[t] = IF t = {} THEN [state |-> "START", filled |-> 0, sound |-> ev # <<>>]
                  ELSE reduceEvent(ordered, it[t \ {Max(t)}], ev[Max(t)])
    BY <1>1, <1>3, <1>5, <1>6 DEF Folded
  <2> QED
    BY <1>1, <1>5, <2>1 DEF ReduceRecursion
<1>8. PICK g : ReduceRecursion(g, ordered, ev) /\ reduceOrder(ordered, ev) = g[DOMAIN ev]
  BY <1>7, Zenon DEF reduceOrder, FoldLeft, MapThenFoldSet, ReduceRecursion
<1>9. /\ g[{}] = [state |-> "START", filled |-> 0, sound |-> ev # <<>>]
      /\ \A t \in SUBSET (1 .. n) : t # {} => g[t] = reduceEvent(ordered, g[t \ {Max(t)}], ev[Max(t)])
  BY <1>1, <1>8 DEF ReduceRecursion
<1>10. /\ Recurses(g, n, Reduced, [state |-> "START", filled |-> 0, sound |-> ev # <<>>], T)
       /\ StepsIn(Reduced, n, [state |-> "START", filled |-> 0, sound |-> ev # <<>>], T)
  BY <1>1, <1>3, <1>4, <1>6, <1>9 DEF Recurses, StepsIn
<1>11. \E c : IsRun(c, n, Reduced, [state |-> "START", filled |-> 0, sound |-> ev # <<>>], T) /\ c[n] = g[1 .. n]
  BY <1>10, FoldRuns
<1> QED
  BY <1>1, <1>8, <1>11 DEF n, T

\* Every trade adds to the running quantity.
LEMMA CumQtyGrows ==
  ASSUME NEW s \in Seq(Trade), NEW i \in 0 .. Len(s), NEW j \in 0 .. Len(s), i < j
  PROVE  CumQty(s, i) < CumQty(s, j)
<1> DEFINE bad == {k \in Nat : i < k /\ k <= Len(s) /\ ~(CumQty(s, i) < CumQty(s, k))}
<1>1. bad \in SUBSET Nat
  OBVIOUS
<1>2. /\ \A k \in 0 .. Len(s) : CumQty(s, k) \in Nat
      /\ \A k \in 1 .. Len(s) : CumQty(s, k) = CumQty(s, k - 1) + s[k].qty
  BY CumQtyIs
<1>3. \A k \in 1 .. Len(s) : s[k].qty \in Nat \ {0}
  <2>1. \A k \in 1 .. Len(s) : s[k] \in Trade
    OBVIOUS
  <2>2. \A x \in Trade : x.qty \in Nat \ {0}
    BY DEF Trade
  <2> QED
    BY <2>1, <2>2
<1>4. ASSUME bad # {} PROVE FALSE
  <2>1. PICK k \in bad : \A m \in bad : k <= m
    <3> HIDE DEF bad
    <3> QED
      BY <1>1, <1>4, LeastNumber
  <2>2. k \in 1 .. Len(s) /\ k - 1 \in Nat /\ k - 1 \in 0 .. Len(s) /\ k \in 0 .. Len(s)
    BY <2>1
  <2>3. k - 1 = i \/ CumQty(s, i) < CumQty(s, k - 1)
    BY <2>1, <2>2
  <2>4. CumQty(s, k) = CumQty(s, k - 1) + s[k].qty /\ s[k].qty \in Nat \ {0}
    BY <1>2, <1>3, <2>2
  <2>5. CumQty(s, k - 1) \in Nat /\ CumQty(s, i) \in Nat
    BY <1>2, <2>2
  <2>6. CumQty(s, i) < CumQty(s, k)
    BY <2>3, <2>4, <2>5
  <2> QED
    BY <2>1, <2>6
<1> QED
  BY <1>4

-----------------------------------------------------------------------------
\* The stream of an order that was executed in these trades, and of a rejected one.
ExecutedStream(ordered, trades) ==
  Submitted \o <<Step("ACCEPTED")>> \o FillEvents(ordered, trades)
  \o (IF TotalQty(trades) = ordered THEN <<>> ELSE <<Step("CANCELLED")>>)
RefusedStream == Submitted \o <<Step("REJECTED")>>

\* One fill event per trade, with the trade's quantity and price and the quantity
\* executed so far; only the last can complete the order.
LEMMA FillEventsAre ==
  ASSUME NEW ordered \in Nat, NEW s \in Seq(Trade)
  PROVE  /\ FillEvents(ordered, s) \in Seq(OrderEvent)
         /\ Len(FillEvents(ordered, s)) = Len(s)
         /\ \A i \in 1 .. Len(s) :
              LET e == FillEvents(ordered, s)[i]
              IN /\ e \in OrderEvent /\ isFillEvent(e)
                 /\ e.kind = IF i = Len(s) /\ CumQty(s, i) = ordered
                             THEN "FILLED" ELSE "PARTIALLY_FILLED"
                 /\ e.qty = s[i].qty /\ e.price = s[i].price /\ e.cum = CumQty(s, i)
<1> DEFINE F == FillEvents(ordered, s)
           kind(i) == IF i = Len(s) /\ CumQty(s, i) = ordered THEN "FILLED" ELSE "PARTIALLY_FILLED"
<1>1. DOMAIN s = 1 .. Len(s) /\ Len(s) \in Nat
  OBVIOUS
<1>2. F = [i \in 1 .. Len(s) |-> [kind |-> kind(i), qty |-> s[i].qty, price |-> s[i].price,
                                  cum |-> CumQty(s, i)]]
  BY <1>1 DEF FillEvents
<1>3. \A i \in 1 .. Len(s) : kind(i) \in {"FILLED", "PARTIALLY_FILLED"}
  OBVIOUS
<1> HIDE DEF F, kind
<1>4. \A i \in 1 .. Len(s) : /\ s[i].qty \in Nat /\ s[i].price \in Nat /\ CumQty(s, i) \in Nat
  <2>1. \A i \in 1 .. Len(s) : s[i] \in Trade
    OBVIOUS
  <2>2. \A x \in Trade : x.qty \in Nat /\ x.price \in Nat
    BY DEF Trade
  <2>3. \A i \in 1 .. Len(s) : i \in 0 .. Len(s)
    OBVIOUS
  <2> QED
    BY <2>1, <2>2, <2>3, CumQtyIs
<1>5. ASSUME NEW i \in 1 .. Len(s)
      PROVE  /\ F[i] \in OrderEvent /\ isFillEvent(F[i]) /\ F[i].kind = kind(i)
             /\ F[i].qty = s[i].qty /\ F[i].price = s[i].price /\ F[i].cum = CumQty(s, i)
  <2>1. F[i] = [kind |-> kind(i), qty |-> s[i].qty, price |-> s[i].price, cum |-> CumQty(s, i)]
    BY <1>2
  <2> QED
    BY <1>3, <1>4, <2>1 DEF OrderEvent, Kinds, isFillEvent, FillKinds
<1>6. F \in [1 .. Len(s) -> OrderEvent]
  BY <1>2, <1>5
<1>7. F \in Seq(OrderEvent) /\ Len(F) = Len(s)
  BY <1>1, <1>6
<1> QED
  BY <1>5, <1>7 DEF F, kind

\* The events that are not fills carry their kind.
LEMMA StepsAre ==
  \A k \in Kinds : /\ Step(k) \in OrderEvent /\ Step(k).kind = k
                   /\ isFillEvent(Step(k)) <=> k \in FillKinds
BY DEF Step, OrderEvent, isFillEvent

\* A refused order's events: requested, submitted, rejected.
LEMMA RefusedIs ==
  /\ RefusedStream \in Seq(OrderEvent) /\ Len(RefusedStream) = 3
  /\ RefusedStream[1] = Step("REQUESTED") /\ RefusedStream[2] = Step("SUBMITTED")
  /\ RefusedStream[3] = Step("REJECTED")
<1>1. /\ Step("REQUESTED") \in OrderEvent /\ Step("SUBMITTED") \in OrderEvent
      /\ Step("REJECTED") \in OrderEvent
  BY StepsAre DEF Kinds
<1> QED
  BY <1>1 DEF RefusedStream, Submitted

\* An executed order's events: requested, submitted, accepted, the fills, and a
\* cancellation where the fills do not complete the order.
LEMMA ExecutedIs ==
  ASSUME NEW ordered \in Nat, NEW s \in Seq(Trade)
  PROVE  LET ev == ExecutedStream(ordered, s)
         IN /\ ev \in Seq(OrderEvent)
            /\ Len(ev) = IF TotalQty(s) = ordered THEN Len(s) + 3 ELSE Len(s) + 4
            /\ ev[1] = Step("REQUESTED") /\ ev[2] = Step("SUBMITTED") /\ ev[3] = Step("ACCEPTED")
            /\ \A i \in 1 .. Len(s) : ev[i + 3] = FillEvents(ordered, s)[i]
            /\ TotalQty(s) # ordered => ev[Len(s) + 4] = Step("CANCELLED")
<1> DEFINE F == FillEvents(ordered, s)
           R == Step("REQUESTED")
           U == Step("SUBMITTED")
           A == Step("ACCEPTED")
           C == Step("CANCELLED")
<1>1. R \in OrderEvent /\ U \in OrderEvent /\ A \in OrderEvent /\ C \in OrderEvent
  BY StepsAre DEF Kinds
<1>2. F \in Seq(OrderEvent) /\ Len(F) = Len(s) /\ Len(s) \in Nat
  BY FillEventsAre
<1>3. ExecutedStream(ordered, s) = ((<<R, U>> \o <<A>>) \o F) \o (IF TotalQty(s) = ordered THEN <<>>
                                                                  ELSE <<C>>)
  BY DEF ExecutedStream, Submitted
<1> HIDE DEF F, R, U, A, C
<1> DEFINE P == <<R, U>> \o <<A>>
<1>4. P \in Seq(OrderEvent) /\ Len(P) = 3 /\ P[1] = R /\ P[2] = U /\ P[3] = A
  BY <1>1
<1> DEFINE G == P \o F
<1> HIDE DEF P
<1>5. /\ G \in Seq(OrderEvent) /\ Len(G) = Len(s) + 3
      /\ G[1] = R /\ G[2] = U /\ G[3] = A
      /\ \A i \in 1 .. Len(s) : G[i + 3] = F[i]
  <2>1. /\ G \in Seq(OrderEvent) /\ Len(G) = 3 + Len(s)
        /\ \A i \in 1 .. 3 + Len(s) : G[i] = IF i <= 3 THEN P[i] ELSE F[i - 3]
    BY <1>2, <1>4, ConcatProperties
  <2>2. \A i \in 1 .. Len(s) : i + 3 \in 1 .. 3 + Len(s) /\ ~(i + 3 <= 3) /\ (i + 3) - 3 = i
    BY <1>2
  <2> HIDE DEF G
  <2>3. \A i \in 1 .. Len(s) : G[i + 3] = F[i]
    BY <2>1, <2>2
  <2> QED
    BY <1>2, <1>4, <2>1, <2>3
<1> HIDE DEF G
<1>6. CASE TotalQty(s) = ordered
  <2>1. ExecutedStream(ordered, s) = G
    BY <1>3, <1>4, <1>5, <1>6 DEF G, P
  <2> QED
    BY <1>5, <1>6, <2>1 DEF F, R, U, A, C
<1>7. CASE TotalQty(s) # ordered
  <2> DEFINE H == G \o <<C>>
  <2>1. ExecutedStream(ordered, s) = H
    BY <1>3, <1>7 DEF G, P
  <2>2. \A i \in 1 .. Len(s) : H[i + 3] = G[i + 3]
    BY <1>1, <1>2, <1>5
  <2>3. /\ H \in Seq(OrderEvent) /\ Len(H) = Len(s) + 4
        /\ H[1] = R /\ H[2] = U /\ H[3] = A /\ H[Len(s) + 4] = C
    BY <1>1, <1>2, <1>5
  <2> HIDE DEF H
  <2> QED
    BY <1>5, <1>7, <2>1, <2>2, <2>3 DEF F, R, U, A, C
<1> QED
  BY <1>6, <1>7

\* One step of the state machine that does not throw.
LEMMA ReduceStep ==
  ASSUME NEW ordered \in Nat, NEW a \in Reduced, NEW e \in OrderEvent,
         a.sound, a.state \notin TERMINAL, a.state \in LEGAL_FROM[e.kind],
         isFillEvent(e) => SoundFill(e, a.filled, ordered)
  PROVE  LET r == reduceEvent(ordered, a, e)
         IN /\ r.sound /\ r.state = e.kind
            /\ r.filled = IF isFillEvent(e) THEN a.filled + e.qty ELSE a.filled
BY Zenon DEF reduceEvent

\* The transitions of the order state machine the proofs use.
LEMMA LegalFrom ==
  /\ "START" \in LEGAL_FROM["REQUESTED"] /\ "REQUESTED" \in LEGAL_FROM["SUBMITTED"]
  /\ "SUBMITTED" \in LEGAL_FROM["ACCEPTED"] /\ "SUBMITTED" \in LEGAL_FROM["REJECTED"]
  /\ \A k \in FillKinds \cup {"CANCELLED"} : \A f \in {"ACCEPTED", "PARTIALLY_FILLED"} :
       f \in LEGAL_FROM[k]
  /\ \A f \in {"START", "REQUESTED", "SUBMITTED", "ACCEPTED", "PARTIALLY_FILLED"} : f \notin TERMINAL
BY DEF LEGAL_FROM, FillKinds, TERMINAL

\* Up to its third event every stream is sound.
LEMMA Opening ==
  ASSUME NEW ordered \in Nat, NEW ev \in Seq(OrderEvent), Len(ev) >= 3,
         ev[1] = Step("REQUESTED"), ev[2] = Step("SUBMITTED"),
         ev[3] = Step("ACCEPTED") \/ ev[3] = Step("REJECTED"),
         NEW c, IsRun(c, Len(ev), Reduced, [state |-> "START", filled |-> 0, sound |-> ev # <<>>],
                      ReduceSteps(ordered, ev))
  PROVE  /\ \A i \in 1 .. Len(ev) : c[i] = reduceEvent(ordered, c[i - 1], ev[i]) /\ c[i] \in Reduced
         /\ c[3].sound /\ c[3].filled = 0 /\ c[3].state = ev[3].kind
<1>1. Len(ev) \in Nat /\ ev # <<>>
  OBVIOUS
<1>2. /\ \A i \in 0 .. Len(ev) : c[i] \in Reduced
      /\ c[0] = [state |-> "START", filled |-> 0, sound |-> ev # <<>>]
      /\ \A i \in 1 .. Len(ev) : c[i] = ReduceSteps(ordered, ev)[<<i, c[i - 1]>>]
  BY DEF IsRun
<1>3. \A i \in 1 .. Len(ev) : i - 1 \in 0 .. Len(ev) /\ i \in 0 .. Len(ev)
  BY <1>1
<1>4. \A i \in 1 .. Len(ev) : c[i] = reduceEvent(ordered, c[i - 1], ev[i]) /\ c[i] \in Reduced
  BY <1>2, <1>3 DEF ReduceSteps
<1>5. /\ 1 \in 1 .. Len(ev) /\ 2 \in 1 .. Len(ev) /\ 3 \in 1 .. Len(ev)
      /\ 1 - 1 = 0 /\ 2 - 1 = 1 /\ 3 - 1 = 2 /\ 0 \in 0 .. Len(ev)
  BY <1>1
<1>6. /\ c[1] = reduceEvent(ordered, c[0], ev[1]) /\ c[2] = reduceEvent(ordered, c[1], ev[2])
      /\ c[3] = reduceEvent(ordered, c[2], ev[3])
      /\ c[0] \in Reduced /\ c[1] \in Reduced /\ c[2] \in Reduced
  BY <1>2, <1>4, <1>5
<1>7. \A k \in {"REQUESTED", "SUBMITTED", "ACCEPTED", "REJECTED"} :
        Step(k) \in OrderEvent /\ Step(k).kind = k /\ ~isFillEvent(Step(k))
  BY StepsAre DEF Kinds, FillKinds
<1>8. c[0].sound /\ c[0].state = "START" /\ c[0].filled = 0
  <2>1. (ev # <<>>) = TRUE
    BY <1>1
  <2>2. c[0] = [state |-> "START", filled |-> 0, sound |-> TRUE]
    BY <1>2, <2>1
  <2> QED
    BY <2>2
<1>9. c[1].sound /\ c[1].state = "REQUESTED" /\ c[1].filled = 0
  BY <1>6, <1>7, <1>8, ReduceStep, LegalFrom
<1>10. c[2].sound /\ c[2].state = "SUBMITTED" /\ c[2].filled = 0
  BY <1>6, <1>7, <1>9, ReduceStep, LegalFrom
<1>11. c[3].sound /\ c[3].state = ev[3].kind /\ c[3].filled = 0
  BY <1>6, <1>7, <1>10, ReduceStep, LegalFrom
<1> QED
  BY <1>4, <1>11

\* The state machine takes a refused order.
LEMMA RefusedReduces ==
  ASSUME NEW ordered \in Nat
  PROVE  reduceOrder(ordered, RefusedStream).sound /\ reduceOrder(ordered, RefusedStream).state = "REJECTED"
<1> DEFINE ev == RefusedStream
<1>1. /\ ev \in Seq(OrderEvent) /\ Len(ev) = 3
      /\ ev[1] = Step("REQUESTED") /\ ev[2] = Step("SUBMITTED") /\ ev[3] = Step("REJECTED")
  BY RefusedIs
<1> HIDE DEF ev
<1>2. PICK c : /\ IsRun(c, Len(ev), Reduced, [state |-> "START", filled |-> 0, sound |-> ev # <<>>],
                        ReduceSteps(ordered, ev))
               /\ reduceOrder(ordered, ev) = c[Len(ev)]
  BY <1>1, ReduceRuns
<1>3. Len(ev) >= 3
  BY <1>1
<1>4. c[3].sound /\ c[3].state = ev[3].kind
  BY <1>1, <1>2, <1>3, Opening, ZenonT(30)
<1>5. reduceOrder(ordered, ev).sound /\ reduceOrder(ordered, ev).state = "REJECTED"
  BY <1>1, <1>2, <1>4, StepsAre DEF Kinds
<1> QED
  BY <1>5 DEF ev

\* ... and an executed one, which ends FILLED exactly if it was executed in full.
LEMMA ExecutedReduces ==
  ASSUME NEW ordered \in Nat \ {0}, NEW s \in Seq(Trade), TotalQty(s) <= ordered
  PROVE  /\ reduceOrder(ordered, ExecutedStream(ordered, s)).sound
         /\ reduceOrder(ordered, ExecutedStream(ordered, s)).state = "FILLED" <=> TotalQty(s) = ordered
<1> DEFINE ev == ExecutedStream(ordered, s)
           F == FillEvents(ordered, s)
<1>1. /\ ev \in Seq(OrderEvent)
      /\ Len(ev) = IF TotalQty(s) = ordered THEN Len(s) + 3 ELSE Len(s) + 4
      /\ ev[1] = Step("REQUESTED") /\ ev[2] = Step("SUBMITTED") /\ ev[3] = Step("ACCEPTED")
      /\ \A i \in 1 .. Len(s) : ev[i + 3] = F[i]
      /\ TotalQty(s) # ordered => ev[Len(s) + 4] = Step("CANCELLED")
  BY ExecutedIs
<1>2. \A i \in 1 .. Len(s) :
        /\ F[i] \in OrderEvent /\ isFillEvent(F[i])
        /\ F[i].kind = IF i = Len(s) /\ CumQty(s, i) = ordered THEN "FILLED" ELSE "PARTIALLY_FILLED"
        /\ F[i].qty = s[i].qty /\ F[i].cum = CumQty(s, i)
  BY FillEventsAre
<1>3. Len(s) \in Nat /\ Len(ev) \in Nat /\ Len(ev) >= 3
  BY <1>1
<1> HIDE DEF ev, F
<1>4. PICK c : /\ IsRun(c, Len(ev), Reduced, [state |-> "START", filled |-> 0, sound |-> ev # <<>>],
                        ReduceSteps(ordered, ev))
               /\ reduceOrder(ordered, ev) = c[Len(ev)]
  BY <1>1, ReduceRuns
<1>5. /\ \A i \in 1 .. Len(ev) : c[i] = reduceEvent(ordered, c[i - 1], ev[i]) /\ c[i] \in Reduced
      /\ c[3].sound /\ c[3].filled = 0 /\ c[3].state = ev[3].kind
  BY <1>1, <1>3, <1>4, Opening, ZenonT(30)
<1> DEFINE Fine(i) == /\ c[i + 3].sound /\ c[i + 3].filled = CumQty(s, i)
                      /\ c[i + 3].state = IF i = 0 THEN "ACCEPTED" ELSE F[i].kind
           bad == {i \in Nat : i <= Len(s) /\ ~Fine(i)}
<1>6. Fine(0)
  <2>1. 0 + 3 = 3 /\ CumQty(s, 0) = 0 /\ Step("ACCEPTED").kind = "ACCEPTED"
    BY CumQtyIs, StepsAre DEF Kinds
  <2> QED
    BY <1>1, <1>5, <2>1
<1>7. ASSUME NEW i \in 1 .. Len(s), Fine(i - 1) PROVE Fine(i)
  <2> DEFINE a == c[(i - 1) + 3]
             e == F[i]
  <2>1. (i - 1) + 3 = (i + 3) - 1 /\ i + 3 \in 1 .. Len(ev) /\ (i - 1) + 3 \in 1 .. Len(ev)
    <3>1. Len(ev) = Len(s) + 3 \/ Len(ev) = Len(s) + 4
      BY <1>1, Zenon
    <3> QED
      BY <1>3, <3>1
  <2>2. c[i + 3] = reduceEvent(ordered, a, e) /\ a \in Reduced
    BY <1>1, <1>5, <2>1
  <2>3. /\ CumQty(s, i) = CumQty(s, i - 1) + s[i].qty /\ CumQty(s, i - 1) \in Nat
        /\ CumQty(s, i) \in Nat /\ s[i].qty \in Nat \ {0}
    <3>1. s[i] \in Trade /\ i \in 0 .. Len(s) /\ i - 1 \in 0 .. Len(s)
      BY <1>3
    <3> QED
      BY <3>1, CumQtyIs DEF Trade
  <2>4. e \in OrderEvent /\ isFillEvent(e) /\ e.qty = s[i].qty /\ e.cum = CumQty(s, i)
    BY <1>2
  <2>5. CumQty(s, i) <= ordered /\ (CumQty(s, i) = ordered => i = Len(s))
    <3>1. i \in 0 .. Len(s) /\ Len(s) \in 0 .. Len(s) /\ (i = Len(s) \/ i < Len(s))
      BY <1>3
    <3>2. i < Len(s) => CumQty(s, i) < TotalQty(s)
      BY <3>1, CumQtyGrows DEF TotalQty
    <3>3. TotalQty(s) \in Nat
      BY <3>1, CumQtyIs DEF TotalQty
    <3> QED
      BY <2>3, <3>1, <3>2, <3>3 DEF TotalQty
  <2>6. a.sound /\ a.filled = CumQty(s, i - 1) /\ a.state \in {"ACCEPTED", "PARTIALLY_FILLED"}
    <3>1. i - 1 \in 0 .. Len(s) /\ i - 1 # Len(s)
      BY <1>3
    <3>2. i - 1 # 0 => F[i - 1].kind = "PARTIALLY_FILLED"
      BY <1>2, <3>1
    <3> QED
      BY <1>7, <3>2
  <2>7. e.kind = "FILLED" <=> CumQty(s, i) = ordered
    BY <1>2, <2>5
  <2>8. SoundFill(e, a.filled, ordered)
    BY <2>3, <2>4, <2>5, <2>6, <2>7 DEF SoundFill
  <2>9. e.kind \in FillKinds
    BY <2>4 DEF isFillEvent
  <2>10. a.state \in LEGAL_FROM[e.kind] /\ a.state \notin TERMINAL
    BY <2>6, <2>9, LegalFrom
  <2> HIDE DEF a, e
  <2>11. /\ c[i + 3].sound /\ c[i + 3].state = e.kind /\ c[i + 3].filled = a.filled + e.qty
    BY <2>2, <2>4, <2>6, <2>8, <2>10, ReduceStep
  <2> QED
    BY <2>3, <2>4, <2>6, <2>11 DEF e
<1> HIDE DEF Fine
<1>8. bad \in SUBSET Nat
  OBVIOUS
<1>9. bad = {}
  <2> SUFFICES ASSUME bad # {} PROVE FALSE
    OBVIOUS
  <2>1. PICK m \in bad : \A k \in bad : m <= k
    <3> HIDE DEF bad
    <3> QED
      BY <1>8, LeastNumber
  <2>2. m \in 1 .. Len(s) /\ m - 1 \in Nat /\ m - 1 < m /\ m - 1 <= Len(s)
    BY <2>1, <1>3, <1>6
  <2>3. Fine(m - 1)
    BY <2>1, <2>2
  <2> QED
    BY <1>7, <2>1, <2>2, <2>3
<1>10. Fine(Len(s))
  BY <1>3, <1>9
<1>11. CASE TotalQty(s) = ordered
  <2>1. Len(s) # 0
    BY <1>11, CumQtyIs DEF TotalQty
  <2>2. F[Len(s)].kind = "FILLED"
    BY <1>2, <1>3, <1>11, <2>1 DEF TotalQty
  <2> QED
    BY <1>1, <1>4, <1>10, <1>11, <2>1, <2>2 DEF Fine, ev
<1>12. CASE TotalQty(s) # ordered
  <2> DEFINE a == c[Len(s) + 3]
             e == Step("CANCELLED")
  <2>1. Len(ev) = Len(s) + 4 /\ (Len(s) + 4) - 1 = Len(s) + 3 /\ Len(s) + 4 \in 1 .. Len(ev)
        /\ Len(s) + 3 \in 1 .. Len(ev)
    BY <1>1, <1>3, <1>12
  <2>2. c[Len(s) + 4] = reduceEvent(ordered, a, e) /\ a \in Reduced
    BY <1>1, <1>5, <1>12, <2>1
  <2>3. e \in OrderEvent /\ e.kind = "CANCELLED" /\ ~isFillEvent(e)
    BY StepsAre DEF Kinds, FillKinds
  <2>4. a.sound /\ a.state \in {"ACCEPTED", "PARTIALLY_FILLED"}
    <3>1. Len(s) # 0 => F[Len(s)].kind = "PARTIALLY_FILLED"
      BY <1>2, <1>3, <1>12 DEF TotalQty
    <3> QED
      BY <1>10, <3>1 DEF Fine
  <2>5. a.state \in LEGAL_FROM[e.kind] /\ a.state \notin TERMINAL
    BY <2>3, <2>4, LegalFrom
  <2> HIDE DEF a, e
  <2>6. c[Len(s) + 4].sound /\ c[Len(s) + 4].state = "CANCELLED"
    BY <2>2, <2>3, <2>4, <2>5, ReduceStep
  <2> QED
    BY <1>4, <1>12, <2>1, <2>6 DEF ev
<1> QED
  BY <1>11, <1>12

\* A refused order has no fills, an executed one those of its trades.
LEMMA RefusedFills == fillsFrom(RefusedStream) = <<>>
<1>1. PICK c : /\ IsRun(c, Len(RefusedStream), Seq(OrderEvent), <<>>, FillsSteps(RefusedStream))
               /\ fillsFrom(RefusedStream) = c[Len(RefusedStream)]
  BY RefusedIs, FillsRuns
<1>2. /\ c[0] = <<>> /\ Len(RefusedStream) = 3
      /\ \A i \in 1 .. 3 : c[i - 1] \in Seq(OrderEvent) /\ c[i] = FillsSteps(RefusedStream)[<<i, c[i - 1]>>]
  BY <1>1, RefusedIs DEF IsRun
<1>3. \A i \in 1 .. 3 : ~isFillEvent(RefusedStream[i])
  BY RefusedIs, StepsAre DEF Kinds, FillKinds
<1>4. \A i \in 1 .. 3 : c[i] = c[i - 1]
  BY <1>2, <1>3 DEF FillsSteps
<1>5. c[1] = c[0] /\ c[2] = c[1] /\ c[3] = c[2]
  <2>1. 1 \in 1 .. 3 /\ 2 \in 1 .. 3 /\ 3 \in 1 .. 3 /\ 1 - 1 = 0 /\ 2 - 1 = 1 /\ 3 - 1 = 2
    OBVIOUS
  <2> QED
    BY <1>4, <2>1
<1> QED
  BY <1>1, <1>2, <1>5

\* fillsFrom finds in an executed order's events exactly its fills.
LEMMA ExecutedFills ==
  ASSUME NEW ordered \in Nat, NEW s \in Seq(Trade)
  PROVE  fillsFrom(ExecutedStream(ordered, s)) = FillEvents(ordered, s)
<1> DEFINE ev == ExecutedStream(ordered, s)
           F == FillEvents(ordered, s)
<1>1. /\ ev \in Seq(OrderEvent)
      /\ Len(ev) = IF TotalQty(s) = ordered THEN Len(s) + 3 ELSE Len(s) + 4
      /\ ev[1] = Step("REQUESTED") /\ ev[2] = Step("SUBMITTED") /\ ev[3] = Step("ACCEPTED")
      /\ \A i \in 1 .. Len(s) : ev[i + 3] = F[i]
      /\ TotalQty(s) # ordered => ev[Len(s) + 4] = Step("CANCELLED")
  BY ExecutedIs
<1>2. /\ F \in Seq(OrderEvent) /\ Len(F) = Len(s) /\ \A i \in 1 .. Len(s) : isFillEvent(F[i])
  BY FillEventsAre
<1>3. Len(s) \in Nat /\ Len(ev) \in Nat
  BY <1>1
<1> HIDE DEF ev, F
<1>4. PICK c : IsRun(c, Len(ev), Seq(OrderEvent), <<>>, FillsSteps(ev)) /\ fillsFrom(ev) = c[Len(ev)]
  BY <1>1, FillsRuns
<1>5. ASSUME NEW i \in 1 .. Len(ev)
      PROVE  c[i] = IF isFillEvent(ev[i]) THEN Append(c[i - 1], ev[i]) ELSE c[i - 1]
  <2>1. i - 1 \in 0 .. Len(ev)
    BY <1>3
  <2> QED
    BY <1>4, <2>1 DEF IsRun, FillsSteps
<1>6. c[0] = <<>>
  BY <1>4 DEF IsRun
<1>7. c[3] = <<>>
  <2>1. 1 \in 1 .. Len(ev) /\ 2 \in 1 .. Len(ev) /\ 3 \in 1 .. Len(ev)
        /\ 1 - 1 = 0 /\ 2 - 1 = 1 /\ 3 - 1 = 2
    BY <1>1, <1>3
  <2>2. ~isFillEvent(ev[1]) /\ ~isFillEvent(ev[2]) /\ ~isFillEvent(ev[3])
    BY <1>1, StepsAre DEF Kinds, FillKinds
  <2> QED
    BY <1>5, <1>6, <2>1, <2>2
<1> DEFINE Done(i) == c[i + 3] = SubSeq(F, 1, i)
           bad == {i \in Nat : i <= Len(s) /\ ~Done(i)}
<1>8. bad \in SUBSET Nat
  OBVIOUS
<1>9. bad = {}
  <2> SUFFICES ASSUME bad # {} PROVE FALSE
    OBVIOUS
  <2>1. PICK m \in bad : \A k \in bad : m <= k
    <3> HIDE DEF bad
    <3> QED
      BY <1>8, LeastNumber
  <2>0. m \in Nat /\ m <= Len(s) /\ ~Done(m)
    BY <2>1
  <2>2. m # 0
    <3>1. SubSeq(F, 1, 0) = <<>> /\ 0 + 3 = 3
      BY <1>2
    <3> QED
      BY <1>7, <2>0, <3>1
  <2>3. /\ m \in 1 .. Len(s) /\ m - 1 \in Nat /\ m - 1 < m /\ m - 1 <= Len(s)
        /\ m + 3 \in 1 .. Len(ev) /\ (m + 3) - 1 = (m - 1) + 3
    <3> HIDE DEF Done
    <3>1. Len(ev) >= Len(s) + 3
      BY <1>1, <1>3
    <3> QED
      BY <1>3, <2>0, <2>2, <3>1
  <2>4. c[(m - 1) + 3] = SubSeq(F, 1, m - 1)
    <3> HIDE DEF Done
    <3>1. Done(m - 1)
      BY <2>1, <2>3
    <3> QED
      BY <3>1 DEF Done
  <2>5. c[m + 3] = Append(SubSeq(F, 1, m - 1), F[m])
    <3>1. ev[m + 3] = F[m] /\ isFillEvent(ev[m + 3])
      BY <1>1, <1>2, <2>3
    <3>2. c[m + 3] = Append(c[(m + 3) - 1], ev[m + 3])
      BY <1>5, <2>3, <3>1
    <3> QED
      BY <2>3, <2>4, <3>1, <3>2
  <2>6. Append(SubSeq(F, 1, m - 1), F[m]) = SubSeq(F, 1, m)
    BY <1>2, <2>3
  <2> QED
    BY <2>0, <2>5, <2>6
<1>10. SubSeq(F, 1, Len(s)) = F
  BY <1>2, <1>3
<1>11. c[Len(s) + 3] = F
  <2> HIDE DEF Done
  <2>1. Done(Len(s))
    BY <1>3, <1>9
  <2> QED
    BY <1>10, <2>1 DEF Done
<1>12. CASE TotalQty(s) = ordered
  BY <1>1, <1>4, <1>11, <1>12 DEF ev, F
<1>13. CASE TotalQty(s) # ordered
  <2>1. Len(ev) = Len(s) + 4 /\ Len(ev) - 1 = Len(s) + 3 /\ Len(ev) \in 1 .. Len(ev)
    BY <1>1, <1>3, <1>13
  <2>2. ~isFillEvent(ev[Len(ev)])
    BY <1>1, <1>13, <2>1, StepsAre DEF Kinds, FillKinds
  <2>3. c[Len(ev)] = F
    BY <1>5, <1>11, <2>1, <2>2
  <2> QED
    BY <1>4, <2>3 DEF ev, F
<1> QED
  BY <1>12, <1>13

-----------------------------------------------------------------------------
\* The broker reports o as executed in these trades, at most in full.
Reported(o, trades, ev) ==
  /\ trades \in Seq(Trade) /\ TotalQty(trades) <= o.qty
  /\ ev = ExecutedStream(o.qty, trades) \/ (trades = <<>> /\ ev = RefusedStream)

\* No trades add up to nothing and make no fill events.
LEMMA NoTrades ==
  /\ <<>> \in Seq(Trade) /\ TotalQty(<<>>) = 0
  /\ \A ordered \in Nat : FillEvents(ordered, <<>>) = <<>>
<1>1. <<>> \in Seq(Trade) /\ Len(<<>>) = 0
  OBVIOUS
<1>2. TotalQty(<<>>) = 0
  BY <1>1, CumQtyIs DEF TotalQty
<1>3. ASSUME NEW ordered \in Nat PROVE FillEvents(ordered, <<>>) = <<>>
  <2>1. FillEvents(ordered, <<>>) \in Seq(OrderEvent) /\ Len(FillEvents(ordered, <<>>)) = 0
    BY <1>1, FillEventsAre, ZenonT(40)
  <2> QED
    BY <2>1
<1> QED
  BY <1>1, <1>2, <1>3

\* A report of trades within the order is accepted by the order state machine, is
\* FILLED only when the trades complete the order, and holds exactly their fills.
LEMMA ReportedIs ==
  ASSUME NEW o, o.qty \in Nat \ {0}, NEW trades, NEW ev, Reported(o, trades, ev)
  PROVE  /\ ev \in Seq(OrderEvent)
         /\ reduceOrder(o.qty, ev).sound
         /\ reduceOrder(o.qty, ev).state = "FILLED" => TotalQty(trades) = o.qty
         /\ fillsFrom(ev) = FillEvents(o.qty, trades)
         /\ fillsFrom(ev) = <<>> <=> trades = <<>>
<1>1. trades \in Seq(Trade) /\ TotalQty(trades) <= o.qty /\ o.qty \in Nat
  BY DEF Reported
<1>2. /\ FillEvents(o.qty, trades) \in Seq(OrderEvent)
      /\ Len(FillEvents(o.qty, trades)) = Len(trades)
  BY <1>1, FillEventsAre
<1>3. CASE ev = ExecutedStream(o.qty, trades)
  <2>1. ev \in Seq(OrderEvent)
    BY <1>1, <1>3, ExecutedIs
  <2>2. /\ reduceOrder(o.qty, ev).sound
        /\ reduceOrder(o.qty, ev).state = "FILLED" => TotalQty(trades) = o.qty
    BY <1>1, <1>3, ExecutedReduces
  <2>3. fillsFrom(ev) = FillEvents(o.qty, trades)
    BY <1>1, <1>3, ExecutedFills
  <2>4. fillsFrom(ev) = <<>> <=> trades = <<>>
    <3>1. Len(fillsFrom(ev)) = Len(trades) /\ fillsFrom(ev) \in Seq(OrderEvent)
      BY <1>2, <2>3
    <3>2. fillsFrom(ev) = <<>> <=> Len(fillsFrom(ev)) = 0
      BY <3>1, EmptySeq
    <3>3. trades = <<>> <=> Len(trades) = 0
      BY <1>1, EmptySeq
    <3> QED
      BY <3>1, <3>2, <3>3
  <2> QED
    BY <2>1, <2>2, <2>3, <2>4
<1>4. CASE trades = <<>> /\ ev = RefusedStream
  <2>1. reduceOrder(o.qty, ev).sound /\ reduceOrder(o.qty, ev).state = "REJECTED"
    BY <1>1, <1>4, RefusedReduces
  <2>2. fillsFrom(ev) = <<>> /\ FillEvents(o.qty, trades) = <<>>
    BY <1>1, <1>4, RefusedFills, NoTrades
  <2> QED
    BY <1>4, <2>1, <2>2, RefusedIs
<1> QED
  BY <1>3, <1>4 DEF Reported

\* What the three brokers report.
LEMMA FullyExecuted ==
  ASSUME NEW q \in Nat, NEW s \in Seq(Trade), TotalQty(s) = q
  PROVE  ExecutedStream(q, s) = Submitted \o <<Step("ACCEPTED")>> \o FillEvents(q, s)
<1> DEFINE G == Submitted \o <<Step("ACCEPTED")>> \o FillEvents(q, s)
<1>1. /\ Step("REQUESTED") \in OrderEvent /\ Step("SUBMITTED") \in OrderEvent
      /\ Step("ACCEPTED") \in OrderEvent
  BY StepsAre DEF Kinds
<1>2. Submitted \in Seq(OrderEvent) /\ <<Step("ACCEPTED")>> \in Seq(OrderEvent)
  BY <1>1 DEF Submitted
<1>3. FillEvents(q, s) \in Seq(OrderEvent)
  BY FillEventsAre
<1>4. G \in Seq(OrderEvent)
  BY <1>2, <1>3, ConcatProperties
<1>5. ExecutedStream(q, s) = G \o <<>>
  BY DEF ExecutedStream
<1> HIDE DEF G
<1>6. G \o <<>> = G
  BY <1>4, ConcatEmptySeq
<1> QED
  BY <1>5, <1>6 DEF G

\* The paper broker reports one trade of the whole order.
LEMMA PaperReports ==
  ASSUME NEW o, o.qty \in Nat \ {0}, o.price \in Nat
  PROVE  \E trades : Reported(o, trades, PaperEvents(o)) /\ TotalQty(trades) = o.qty
<1> DEFINE s == <<[qty |-> o.qty, price |-> o.price]>>
<1>1. s \in Seq(Trade) /\ Len(s) = 1 /\ s[1].qty = o.qty
  BY DEF Trade
<1> HIDE DEF s
<1>2. TotalQty(s) = o.qty
  <2>1. CumQty(s, 0) = 0 /\ \A i \in 1 .. Len(s) : CumQty(s, i) = CumQty(s, i - 1) + s[i].qty
    BY <1>1, CumQtyIs
  <2>2. 1 \in 1 .. Len(s) /\ 1 - 1 = 0
    BY <1>1
  <2>3. CumQty(s, 1) = 0 + s[1].qty
    BY <2>1, <2>2
  <2> QED
    BY <1>1, <2>3 DEF TotalQty
<1>3. PaperEvents(o) = ExecutedStream(o.qty, s)
  BY <1>1, <1>2, FullyExecuted DEF PaperEvents, s
<1> QED
  BY <1>1, <1>2, <1>3 DEF Reported

\* Whatever the simulated broker draws, it reports trades within the order.
LEMMA SimulatedReports ==
  ASSUME NEW o, o.qty \in Nat \ {0}, NEW prices \in SUBSET Nat,
         NEW ev \in SimulatedStreams(o, prices)
  PROVE  \E trades : Reported(o, trades, ev)
<1>1. CASE ev = RefusedStream
  <2>1. TotalQty(<<>>) <= o.qty
    BY NoTrades
  <2> QED
    BY <1>1, <2>1, NoTrades DEF Reported
<1>2. CASE ev # RefusedStream
  <2>1. PICK parts \in 1 .. 3 : \E slipped \in [DOMAIN Chunks(o.qty, parts) -> SlippedPrices(o, prices)] :
          ev = Submitted \o <<Step("ACCEPTED")>>
               \o FillEvents(o.qty, [i \in DOMAIN Chunks(o.qty, parts) |->
                    [qty |-> Chunks(o.qty, parts)[i], price |-> slipped[i]]])
    BY <1>2, Zenon DEF SimulatedStreams, RefusedStream
  <2> DEFINE h == Chunks(o.qty, parts)
             chunk == o.qty \div parts
             n == IF chunk = 0 THEN 1 ELSE parts
  <2>2. PICK slipped \in [DOMAIN h -> SlippedPrices(o, prices)] :
          ev = Submitted \o <<Step("ACCEPTED")>>
               \o FillEvents(o.qty, [i \in DOMAIN h |-> [qty |-> h[i], price |-> slipped[i]]])
    BY <2>1
  <2>3. chunk \in Nat /\ n \in 1 .. 3 /\ parts * chunk <= o.qty /\ parts \in 1 .. 3
    BY <2>1
  <2>4. h = [i \in 1 .. n |-> IF i = n THEN o.qty - (n - 1) * chunk ELSE chunk]
    BY DEF Chunks
  <2>5. DOMAIN h = 1 .. n
    BY <2>4
  <2>12. \A i \in 1 .. n : h[i] = IF i = n THEN o.qty - (n - 1) * chunk ELSE chunk
    BY <2>4
  <2>13. n = IF chunk = 0 THEN 1 ELSE parts
    OBVIOUS
  <2> HIDE DEF h, n, chunk
  <2>6. \A i \in 1 .. n : h[i] \in Nat \ {0}
    <3>1. chunk = 0 => n = 1 /\ h[1] = o.qty
      BY <2>12, <2>13
    <3>3. chunk # 0 => n = parts /\ o.qty - (n - 1) * chunk >= chunk /\ o.qty - (n - 1) * chunk \in Int
      <4>1. CASE parts = 1
        BY <2>3, <2>13, <4>1
      <4>2. CASE parts = 2
        BY <2>3, <2>13, <4>2
      <4>3. CASE parts = 3
        BY <2>3, <2>13, <4>3
      <4> QED
        BY <2>3, <4>1, <4>2, <4>3
    <3> QED
      BY <2>3, <2>12, <3>1, <3>3
  <2> DEFINE s == [i \in 1 .. n |-> [qty |-> h[i], price |-> slipped[i]]]
  <2>7. \A i \in 1 .. n : slipped[i] \in Nat
    BY <2>2, <2>5 DEF SlippedPrices
  <2>8. s \in Seq(Trade) /\ Len(s) = n /\ \A i \in 1 .. n : s[i].qty = h[i]
    <3>1. \A i \in 1 .. n : [qty |-> h[i], price |-> slipped[i]] \in Trade
      BY <2>6, <2>7 DEF Trade
    <3> QED
      BY <2>3, <3>1
  <2>9. TotalQty(s) = o.qty
    <3> DEFINE C(i) == CumQty(s, i)
    <3>1. C(0) = 0 /\ \A i \in 1 .. n : C(i) = C(i - 1) + h[i]
      BY <2>8, CumQtyIs
    <3>2. TotalQty(s) = C(n)
      BY <2>8 DEF TotalQty
    <3> HIDE DEF C, s
    <3>3. CASE n = 1
      <4>1. h[1] = o.qty /\ C(1) = C(1 - 1) + h[1]
        BY <2>3, <2>12, <3>1, <3>3
      <4> QED
        BY <3>1, <3>2, <3>3, <4>1
    <3>4. CASE n = 2
      <4>1. h[1] = chunk /\ h[2] = o.qty - chunk /\ C(1) = C(1 - 1) + h[1] /\ C(2) = C(2 - 1) + h[2]
        BY <2>3, <2>12, <3>1, <3>4
      <4> QED
        BY <2>3, <3>1, <3>2, <3>4, <4>1
    <3>5. CASE n = 3
      <4>1. /\ h[1] = chunk /\ h[2] = chunk /\ h[3] = o.qty - 2 * chunk
            /\ C(1) = C(1 - 1) + h[1] /\ C(2) = C(2 - 1) + h[2] /\ C(3) = C(3 - 1) + h[3]
        BY <2>3, <2>12, <3>1, <3>5
      <4> QED
        BY <2>3, <3>1, <3>2, <3>5, <4>1
    <3> QED
      BY <2>3, <3>3, <3>4, <3>5
  <2>10. ev = Submitted \o <<Step("ACCEPTED")>> \o FillEvents(o.qty, s)
    BY <2>2, <2>5, Zenon
  <2> HIDE DEF s
  <2>11. ev = ExecutedStream(o.qty, s)
    BY <2>8, <2>9, <2>10, FullyExecuted
  <2> QED
    BY <2>8, <2>9, <2>11 DEF Reported
<1> QED
  BY <1>1, <1>2

\* buildEvents reports the trades the transport answered with.
LEMMA TransportReports ==
  ASSUME NEW o, NEW outcome, outcome.trades \in Seq(Trade), TotalQty(outcome.trades) <= o.qty,
         outcome.state = "rejected" => outcome.trades = <<>>
  PROVE  Reported(o, outcome.trades, buildEvents(o, outcome))
BY Zenon DEF Reported, buildEvents, ExecutedStream, RefusedStream

-----------------------------------------------------------------------------
\* The records of the journal, and the books a sequence of them leads to.

Results == [symbol : Symbols, side : {"LONG", "SHORT", "FLAT"}, notional : Nat,
            strategy : Strategies \cup {"none"}]
Records == [seq : Nat, symbol : Symbols, side : Sides, events : Seq(OrderEvent),
            result : Results, position : Position]
Lines == [parsed : {<<>>} \cup {<<r>> : r \in Records}, nl : BOOLEAN]
VenueOrders == [order : Order, state : {"rejected", "open", "done"}, trades : Seq(Trade)]
Answers == [state : {"none", "rejected", "open", "done"}, trades : Seq(Trade), at : Nat]
MarketStates == [Symbols -> Position]
PortfolioStates == [Symbols -> Exposure]

\* A fill takes a position to a position.
LEMMA FillApplies ==
  ASSUME NEW p \in Position, NEW side \in Sides, NEW f \in OrderEvent
  PROVE  applyFill(p, side, f) \in Position
<1>1. p.qty \in Int /\ f.qty \in Nat /\ f.price \in Nat
  BY DEF Position, OrderEvent
<1>2. (IF side = "BUY" THEN p.qty + f.qty ELSE p.qty - f.qty) \in Int
  BY <1>1
<1> QED
  BY <1>1, <1>2 DEF applyFill, Position

\* The position a sequence of fills leads to.
PositionSteps(begin, side, taken) ==
  [p \in (1 .. Len(taken)) \X Position |-> applyFill(p[2], side, taken[p[1]])]
PositionRecursion(g, begin, side, taken) ==
  g = [t \in SUBSET (DOMAIN taken) |->
         IF t = {} THEN begin ELSE applyFill(g[t \ {Max(t)}], side, taken[Max(t)])]

\* The fills of an order are applied one after the other.
LEMMA PositionRuns ==
  ASSUME NEW begin \in Position, NEW side \in Sides, NEW taken \in Seq(OrderEvent)
  PROVE  \E c : /\ IsRun(c, Len(taken), Position, begin, PositionSteps(begin, side, taken))
                /\ FoldLeft(LAMBDA p, f : applyFill(p, side, f), begin, taken) = c[Len(taken)]
<1> DEFINE n == Len(taken)
           T == PositionSteps(begin, side, taken)
<1>1. n \in Nat /\ DOMAIN taken = 1 .. n /\ \A i \in 1 .. n : taken[i] \in OrderEvent
  OBVIOUS
<1>2. \A a \in Position, e \in OrderEvent : applyFill(a, side, e) \in Position
  BY FillApplies
<1>3. /\ T \in [(1 .. n) \X Position -> Position]
      /\ \A i \in 1 .. n, a \in Position : T[<<i, a>>] = applyFill(a, side, taken[i])
  BY <1>1, <1>2 DEF PositionSteps
<1>4. begin \in Position
  OBVIOUS
<1> HIDE DEF n, T
<1>5. PICK it \in [SUBSET (1 .. n) -> Position] : Folded(it, n, begin, T)
  BY <1>1, <1>3, <1>4, FoldExists
<1>6. \A t \in SUBSET (1 .. n) : t # {} => Max(t) \in 1 .. n /\ t \ {Max(t)} \in SUBSET (1 .. n)
  BY <1>1, MaxOfPositions
<1>7. PositionRecursion(it, begin, side, taken)
  <2>1. \A t \in SUBSET (1 .. n) :
          it[t] = IF t = {} THEN begin ELSE applyFill(it[t \ {Max(t)}], side, taken[Max(t)])
    BY <1>1, <1>3, <1>5, <1>6 DEF Folded
  <2> QED
    BY <1>1, <1>5, <2>1 DEF PositionRecursion
<1>8. PICK g : PositionRecursion(g, begin, side, taken) /\ FoldLeft(LAMBDA p, f : applyFill(p, side, f), begin, taken) = g[DOMAIN taken]
  BY <1>7, Zenon DEF FoldLeft, MapThenFoldSet, PositionRecursion
<1>9. /\ g[{}] = begin
      /\ \A t \in SUBSET (1 .. n) : t # {} => g[t] = applyFill(g[t \ {Max(t)}], side, taken[Max(t)])
  BY <1>1, <1>8 DEF PositionRecursion
<1>10. Recurses(g, n, Position, begin, T) /\ StepsIn(Position, n, begin, T)
  BY <1>1, <1>3, <1>4, <1>6, <1>9 DEF Recurses, StepsIn
<1>11. \E c : IsRun(c, n, Position, begin, T) /\ c[n] = g[1 .. n]
  BY <1>10, FoldRuns
<1> QED
  BY <1>1, <1>8, <1>11 DEF n, T

\* The fills of a stream of events are a stream of events.
LEMMA FillsAre ==
  ASSUME NEW ev \in Seq(OrderEvent)
  PROVE  fillsFrom(ev) \in Seq(OrderEvent)
<1>1. PICK c : /\ IsRun(c, Len(ev), Seq(OrderEvent), <<>>, FillsSteps(ev))
               /\ fillsFrom(ev) = c[Len(ev)]
  BY FillsRuns
<1>2. Len(ev) \in 0 .. Len(ev)
  OBVIOUS
<1> QED
  BY <1>1, <1>2 DEF IsRun

\* Applying fills takes positions to positions.
LEMMA FillsApply ==
  ASSUME NEW ps \in MarketStates, NEW symbol \in Symbols, NEW side \in Sides,
         NEW taken \in Seq(OrderEvent)
  PROVE  applyFills(ps, symbol, side, taken) \in MarketStates
<1> DEFINE q == FoldLeft(LAMBDA p, f : applyFill(p, side, f), ps[symbol], taken)
<1>1. ps[symbol] \in Position
  BY DEF MarketStates
<1>2. PICK c : /\ IsRun(c, Len(taken), Position, ps[symbol], PositionSteps(ps[symbol], side, taken))
               /\ q = c[Len(taken)]
  BY <1>1, PositionRuns
<1>3. Len(taken) \in 0 .. Len(taken)
  OBVIOUS
<1>4. q \in Position
  BY <1>2, <1>3 DEF IsRun
<1>5. applyFills(ps, symbol, side, taken) = [ps EXCEPT ![symbol] = q]
  BY DEF applyFills
<1> HIDE DEF q
<1> QED
  BY <1>4, <1>5 DEF MarketStates

\* Applying a result takes exposures to exposures.
LEMMA ResultApplies ==
  ASSUME NEW state \in PortfolioStates, NEW r \in Results
  PROVE  applyResult(state, r) \in PortfolioStates
BY DEF applyResult, PortfolioStates, Results, Exposure

\* The market state a journal leads to.
MarketSteps(records) ==
  [p \in (1 .. Len(records)) \X MarketStates |->
     applyFills(p[2], records[p[1]].symbol, records[p[1]].side, fillsFrom(records[p[1]].events))]
MarketRecursion(g, records) ==
  g = [t \in SUBSET (DOMAIN records) |->
         IF t = {} THEN emptyMarketState
         ELSE applyFills(g[t \ {Max(t)}], records[Max(t)].symbol, records[Max(t)].side, fillsFrom(records[Max(t)].events))]

\* The positions are rebuilt one record after the other.
LEMMA MarketRuns ==
  ASSUME NEW records \in Seq(Records)
  PROVE  \E c : /\ IsRun(c, Len(records), MarketStates, emptyMarketState, MarketSteps(records))
                /\ reconstructMarketState(records) = c[Len(records)]
<1> DEFINE n == Len(records)
           T == MarketSteps(records)
<1>1. n \in Nat /\ DOMAIN records = 1 .. n /\ \A i \in 1 .. n : records[i] \in Records
  OBVIOUS
<1>2. \A a \in MarketStates, e \in Records : applyFills(a, e.symbol, e.side, fillsFrom(e.events)) \in MarketStates
  <2> TAKE a \in MarketStates, e \in Records
  <2>1. e.symbol \in Symbols /\ e.side \in Sides /\ e.events \in Seq(OrderEvent)
    BY DEF Records
  <2>2. fillsFrom(e.events) \in Seq(OrderEvent)
    BY <2>1, FillsAre
  <2> QED
    BY <2>1, <2>2, FillsApply
<1>3. /\ T \in [(1 .. n) \X MarketStates -> MarketStates]
      /\ \A i \in 1 .. n, a \in MarketStates : T[<<i, a>>] = applyFills(a, records[i].symbol, records[i].side, fillsFrom(records[i].events))
  BY <1>1, <1>2 DEF MarketSteps
<1>4. emptyMarketState \in MarketStates
  BY DEF emptyMarketState, flatPosition, MarketStates, Position
<1> HIDE DEF n, T
<1>5. PICK it \in [SUBSET (1 .. n) -> MarketStates] : Folded(it, n, emptyMarketState, T)
  BY <1>1, <1>3, <1>4, FoldExists
<1>6. \A t \in SUBSET (1 .. n) : t # {} => Max(t) \in 1 .. n /\ t \ {Max(t)} \in SUBSET (1 .. n)
  BY <1>1, MaxOfPositions
<1>7. MarketRecursion(it, records)
  <2>1. \A t \in SUBSET (1 .. n) :
          it[t] = IF t = {} THEN emptyMarketState
                  ELSE applyFills(it[t \ {Max(t)}], records[Max(t)].symbol, records[Max(t)].side, fillsFrom(records[Max(t)].events))
    BY <1>1, <1>3, <1>5, <1>6 DEF Folded
  <2> QED
    BY <1>1, <1>5, <2>1 DEF MarketRecursion
<1>8. PICK g : MarketRecursion(g, records) /\ reconstructMarketState(records) = g[DOMAIN records]
  BY <1>7, Zenon DEF reconstructMarketState, FoldLeft, MapThenFoldSet, MarketRecursion
<1>9. /\ g[{}] = emptyMarketState
      /\ \A t \in SUBSET (1 .. n) : t # {} => g[t] = applyFills(g[t \ {Max(t)}], records[Max(t)].symbol, records[Max(t)].side, fillsFrom(records[Max(t)].events))
  BY <1>1, <1>8 DEF MarketRecursion
<1>10. /\ Recurses(g, n, MarketStates, emptyMarketState, T)
       /\ StepsIn(MarketStates, n, emptyMarketState, T)
  BY <1>1, <1>3, <1>4, <1>6, <1>9 DEF Recurses, StepsIn
<1>11. \E c : IsRun(c, n, MarketStates, emptyMarketState, T) /\ c[n] = g[1 .. n]
  BY <1>10, FoldRuns
<1> QED
  BY <1>1, <1>8, <1>11 DEF n, T

\* The portfolio a journal leads to.
PortfolioSteps(records) ==
  [p \in (1 .. Len(records)) \X PortfolioStates |-> applyResult(p[2], records[p[1]].result)]
PortfolioRecursion(g, records) ==
  g = [t \in SUBSET (DOMAIN records) |->
         IF t = {} THEN emptyPortfolioState ELSE applyResult(g[t \ {Max(t)}], records[Max(t)].result)]

\* The exposures are rebuilt one record after the other.
LEMMA PortfolioRuns ==
  ASSUME NEW records \in Seq(Records)
  PROVE  \E c : /\ IsRun(c, Len(records), PortfolioStates, emptyPortfolioState, PortfolioSteps(records))
                /\ reconstructPortfolioState(records) = c[Len(records)]
<1> DEFINE n == Len(records)
           T == PortfolioSteps(records)
<1>1. n \in Nat /\ DOMAIN records = 1 .. n /\ \A i \in 1 .. n : records[i] \in Records
  OBVIOUS
<1>2. \A a \in PortfolioStates, e \in Records : applyResult(a, e.result) \in PortfolioStates
  <2>1. \A e \in Records : e.result \in Results
    BY DEF Records
  <2> QED
    BY <2>1, ResultApplies
<1>3. /\ T \in [(1 .. n) \X PortfolioStates -> PortfolioStates]
      /\ \A i \in 1 .. n, a \in PortfolioStates : T[<<i, a>>] = applyResult(a, records[i].result)
  BY <1>1, <1>2 DEF PortfolioSteps
<1>4. emptyPortfolioState \in PortfolioStates
  BY DEF emptyPortfolioState, NoExposure, PortfolioStates, Exposure
<1> HIDE DEF n, T
<1>5. PICK it \in [SUBSET (1 .. n) -> PortfolioStates] : Folded(it, n, emptyPortfolioState, T)
  BY <1>1, <1>3, <1>4, FoldExists
<1>6. \A t \in SUBSET (1 .. n) : t # {} => Max(t) \in 1 .. n /\ t \ {Max(t)} \in SUBSET (1 .. n)
  BY <1>1, MaxOfPositions
<1>7. PortfolioRecursion(it, records)
  <2>1. \A t \in SUBSET (1 .. n) :
          it[t] = IF t = {} THEN emptyPortfolioState
                  ELSE applyResult(it[t \ {Max(t)}], records[Max(t)].result)
    BY <1>1, <1>3, <1>5, <1>6 DEF Folded
  <2> QED
    BY <1>1, <1>5, <2>1 DEF PortfolioRecursion
<1>8. PICK g : PortfolioRecursion(g, records) /\ reconstructPortfolioState(records) = g[DOMAIN records]
  BY <1>7, Zenon DEF reconstructPortfolioState, FoldLeft, MapThenFoldSet, PortfolioRecursion
<1>9. /\ g[{}] = emptyPortfolioState
      /\ \A t \in SUBSET (1 .. n) : t # {} => g[t] = applyResult(g[t \ {Max(t)}], records[Max(t)].result)
  BY <1>1, <1>8 DEF PortfolioRecursion
<1>10. /\ Recurses(g, n, PortfolioStates, emptyPortfolioState, T)
       /\ StepsIn(PortfolioStates, n, emptyPortfolioState, T)
  BY <1>1, <1>3, <1>4, <1>6, <1>9 DEF Recurses, StepsIn
<1>11. \E c : IsRun(c, n, PortfolioStates, emptyPortfolioState, T) /\ c[n] = g[1 .. n]
  BY <1>10, FoldRuns
<1> QED
  BY <1>1, <1>8, <1>11 DEF n, T

\* Recovered states are states, and one more record is one more step.
LEMMA Rebuilds ==
  ASSUME NEW records \in Seq(Records)
  PROVE  /\ reconstructMarketState(records) \in MarketStates
         /\ reconstructPortfolioState(records) \in PortfolioStates
<1>1. Len(records) \in 0 .. Len(records)
  OBVIOUS
<1>2. PICK c : /\ IsRun(c, Len(records), MarketStates, emptyMarketState, MarketSteps(records))
               /\ reconstructMarketState(records) = c[Len(records)]
  BY MarketRuns
<1>3. PICK d : /\ IsRun(d, Len(records), PortfolioStates, emptyPortfolioState, PortfolioSteps(records))
               /\ reconstructPortfolioState(records) = d[Len(records)]
  BY PortfolioRuns
<1> QED
  BY <1>1, <1>2, <1>3 DEF IsRun

\* Rebuilding from one record more is applying that record's fills to what the others
\* lead to: recovery repeats what the commit did.
LEMMA RebuildsNext ==
  ASSUME NEW records \in Seq(Records), NEW r \in Records
  PROVE  reconstructMarketState(Append(records, r))
           = applyFills(reconstructMarketState(records), r.symbol, r.side, fillsFrom(r.events))
<1> DEFINE more == Append(records, r)
           n == Len(records)
<1>1. /\ more \in Seq(Records) /\ Len(more) = n + 1 /\ n \in Nat
      /\ \A i \in 1 .. n : more[i] = records[i]
      /\ more[n + 1] = r
  OBVIOUS
<1> HIDE DEF more
<1>2. PICK c : /\ IsRun(c, n, MarketStates, emptyMarketState, MarketSteps(records))
               /\ reconstructMarketState(records) = c[n]
  BY MarketRuns
<1>3. PICK d : /\ IsRun(d, Len(more), MarketStates, emptyMarketState, MarketSteps(more))
               /\ reconstructMarketState(more) = d[Len(more)]
  BY <1>1, MarketRuns
<1>4. SameSteps(MarketSteps(records), MarketSteps(more), MarketStates, n, Len(more))
  <2>1. \A i \in 1 .. n : \A a \in MarketStates : MarketSteps(records)[<<i, a>>] = MarketSteps(more)[<<i, a>>]
    BY <1>1 DEF MarketSteps
  <2> QED
    BY <1>1, <2>1 DEF SameSteps
<1>5. \A i \in 0 .. n : c[i] = d[i]
  BY <1>2, <1>3, <1>4, RunIsUnique
<1>6. n \in 0 .. n /\ n + 1 \in 1 .. n + 1 /\ (n + 1) - 1 = n /\ n \in 0 .. n + 1
  BY <1>1
<1>7. d[n + 1] = MarketSteps(more)[<<n + 1, d[n]>>] /\ d[n] \in MarketStates
  BY <1>1, <1>3, <1>6 DEF IsRun
<1>8. d[n + 1] = applyFills(d[n], r.symbol, r.side, fillsFrom(r.events))
  BY <1>1, <1>6, <1>7 DEF MarketSteps
<1> QED
  BY <1>1, <1>2, <1>3, <1>5, <1>6, <1>8 DEF more

\* The fills of an order move the position by what was traded.
LEMMA PositionAfter ==
  ASSUME NEW begin \in Position, NEW side \in Sides, NEW ordered \in Nat, NEW s \in Seq(Trade)
  PROVE  LET q == FoldLeft(LAMBDA p, f : applyFill(p, side, f), begin, FillEvents(ordered, s))
         IN q.qty = IF side = "BUY" THEN begin.qty + TotalQty(s) ELSE begin.qty - TotalQty(s)
<1> DEFINE F == FillEvents(ordered, s)
<1>0. ASSUME NEW i \in 1 .. Len(s)
      PROVE  F[i].qty = s[i].qty
  <2>1. LET e == FillEvents(ordered, s)[i] IN e.qty = s[i].qty
    BY FillEventsAre
  <2> QED
    BY <2>1
<1>1. /\ F \in Seq(OrderEvent) /\ Len(F) = Len(s) /\ Len(s) \in Nat
      /\ \A i \in 1 .. Len(s) : F[i].qty = s[i].qty
  <2>1. F \in Seq(OrderEvent) /\ Len(F) = Len(s)
    BY FillEventsAre
  <2>2. Len(s) \in Nat
    OBVIOUS
  <2> QED
    BY <1>0, <2>1, <2>2
<1> HIDE DEF F
<1>2. PICK c : /\ IsRun(c, Len(F), Position, begin, PositionSteps(begin, side, F))
               /\ FoldLeft(LAMBDA p, f : applyFill(p, side, f), begin, F) = c[Len(F)]
  BY <1>1, PositionRuns
<1>3. c[0] = begin
  BY <1>2 DEF IsRun
<1> DEFINE at(i) == IF side = "BUY" THEN begin.qty + CumQty(s, i) ELSE begin.qty - CumQty(s, i)
           bad == {i \in Nat : i <= Len(s) /\ c[i].qty # at(i)}
<1>4. ASSUME NEW i \in 1 .. Len(s)
      PROVE  c[i].qty = (IF side = "BUY" THEN c[i - 1].qty + s[i].qty ELSE c[i - 1].qty - s[i].qty)
  <2>1. i - 1 \in 0 .. Len(F) /\ i \in 1 .. Len(F)
    BY <1>1
  <2>2. c[i] = PositionSteps(begin, side, F)[<<i, c[i - 1]>>] /\ c[i - 1] \in Position
    BY <1>2, <2>1 DEF IsRun
  <2>3. c[i] = applyFill(c[i - 1], side, F[i])
    BY <2>1, <2>2 DEF PositionSteps
  <2> QED
    BY <1>1, <2>3 DEF applyFill
<1>5. /\ CumQty(s, 0) = 0 /\ \A i \in 0 .. Len(s) : CumQty(s, i) \in Nat
      /\ \A i \in 1 .. Len(s) : CumQty(s, i) = CumQty(s, i - 1) + s[i].qty
  BY CumQtyIs
<1>6. begin.qty \in Int /\ \A i \in 1 .. Len(s) : s[i].qty \in Nat
  <2>1. \A i \in 1 .. Len(s) : s[i] \in Trade
    OBVIOUS
  <2> QED
    BY <2>1 DEF Position, Trade
<1>7. bad \in SUBSET Nat
  OBVIOUS
<1>8. bad = {}
  <2> SUFFICES ASSUME bad # {} PROVE FALSE
    OBVIOUS
  <2>1. PICK m \in bad : \A k \in bad : m <= k
    <3> HIDE DEF bad
    <3> QED
      BY <1>7, LeastNumber
  <2>2. m # 0
    BY <1>3, <1>5, <1>6, <2>1
  <2>3. /\ m \in 1 .. Len(s) /\ m - 1 \in Nat /\ m - 1 < m /\ m - 1 <= Len(s)
        /\ m - 1 \in 0 .. Len(s)
    BY <1>1, <2>1, <2>2
  <2>4. c[m - 1].qty = at(m - 1)
    BY <2>1, <2>3
  <2>5. CumQty(s, m) = CumQty(s, m - 1) + s[m].qty /\ CumQty(s, m - 1) \in Nat /\ s[m].qty \in Nat
    BY <1>5, <1>6, <2>3
  <2>6. c[m].qty = at(m)
    BY <1>4, <1>6, <2>3, <2>4, <2>5
  <2> QED
    BY <2>1, <2>6
<1>9. c[Len(s)].qty = at(Len(s))
  BY <1>1, <1>8
<1> QED
  BY <1>1, <1>2, <1>9 DEF F, TotalQty

\* What the venue can make of an order: that order, with no trades when refused.
LEMMA ExecutionsAre ==
  ASSUME NEW o \in Order, NEW x \in Executions(o)
  PROVE  /\ x \in VenueOrders /\ x.order = o
         /\ x.state = "rejected" => x.trades = <<>>
<1> DEFINE amount == venueAmount(o, Lot)
           top == amount + MaxOverfill
           trades(n) == [qty : 1 .. n, price : Prices]
           taken == {<<>>} \cup {<<t>> : t \in trades(top)}
                    \cup UNION {{<<t, u>> : u \in trades(top - t.qty)} : t \in trades(top)}
<1>1. o.qty \in Nat /\ Lot \in Nat \ {0} /\ MaxOverfill \in Nat
  BY MarketAssumption DEF Order
<1>2. amount \in Nat
  BY <1>1 DEF venueAmount
<1>3. top \in Nat
  BY <1>1, <1>2
<1>4. ASSUME NEW n \in Int, NEW t \in trades(n)
      PROVE  t \in Trade /\ t.qty \in Int
  <2>1. Prices \subseteq Nat
    BY MarketAssumption
  <2>2. t \in [qty : 1 .. n, price : Prices]
    OBVIOUS
  <2>3. \A q \in 1 .. n : q \in Nat \ {0} /\ q \in Int
    OBVIOUS
  <2> HIDE DEF trades
  <2> QED
    BY <2>1, <2>2, <2>3 DEF Trade
<1> HIDE DEF trades, top, amount
<1>5. \A t \in trades(top) : top - t.qty \in Int
  BY <1>3, <1>4
<1>6. ASSUME NEW f \in taken
      PROVE  f \in Seq(Trade)
  <2>1. CASE f = <<>>
    BY <2>1
  <2>2. CASE \E t \in trades(top) : f = <<t>>
    <3>1. PICK t \in trades(top) : f = <<t>>
      BY <2>2
    <3>2. t \in Trade
      BY <1>3, <1>4
    <3> QED
      BY <3>1, <3>2
  <2>3. CASE \E t \in trades(top) : \E u \in trades(top - t.qty) : f = <<t, u>>
    <3>1. PICK t \in trades(top) : \E u \in trades(top - t.qty) : f = <<t, u>>
      BY <2>3
    <3>2. PICK u \in trades(top - t.qty) : f = <<t, u>>
      BY <3>1
    <3>3. t \in Trade /\ u \in Trade
      BY <1>3, <1>4, <1>5
    <3> QED
      BY <3>2, <3>3
  <2> QED
    BY <2>1, <2>2, <2>3
<1>7. \/ x = [order |-> o, state |-> "rejected", trades |-> <<>>]
      \/ x \in [order : {o}, state : {"done"}, trades : taken]
      \/ x \in [order : {o}, state : {"open"}, trades : taken]
  BY DEF Executions, amount, top, trades
<1> HIDE DEF taken
<1>8. CASE x = [order |-> o, state |-> "rejected", trades |-> <<>>]
  BY <1>8 DEF VenueOrders
<1>9. CASE x \in [order : {o}, state : {"done"}, trades : taken]
  BY <1>6, <1>9 DEF VenueOrders
<1>10. CASE x \in [order : {o}, state : {"open"}, trades : taken]
  BY <1>6, <1>10 DEF VenueOrders
<1> QED
  BY <1>7, <1>8, <1>9, <1>10

-----------------------------------------------------------------------------
\* The books: positions, mirror and portfolio.

Armed    == pc \notin {"down", "unarmed"}
InFlight == {"placing", "lookup", "trades", "answered", "placed", "append"}

\* What the journal, the venue, the transport and the broker may hold.
DataOK ==
  /\ file \in Seq(Lines) /\ committed \in Seq(Records)
  /\ venue \in Seq(VenueOrders) /\ answer \in Answers
  /\ \A i \in 1 .. Len(venue) : venue[i].state = "rejected" => venue[i].trades = <<>>

\* The order in flight is the one the approved intent asks for.
FlightOK ==
  pc \in InFlight =>
    /\ intent \in Intents /\ order \in Order
    /\ order = deriveOrder(order.price)
    /\ evaluateRisk(portfolio, intent)

\* A rejected order has no trades, also where they are still to be read.
AnswerOK ==
  /\ pc = "answered" => (answer.state = "rejected" => answer.trades = <<>>)
  /\ pc = "trades" =>
       /\ answer.at \in 1 .. Len(venue) /\ answer.trades = <<>>
       /\ answer.state = "rejected" => venue[answer.at].state = "rejected"

\* What place() returned reports the trades of the order.
ReportOK ==
  pc \in {"placed", "append"} =>
    \E trades : Reported(order, trades, events) /\ (broker = "real" => trades = answer.trades)

BooksInv == TypeOK /\ DataOK /\ FlightOK /\ AnswerOK /\ ReportOK /\ MirrorReconciles

-----------------------------------------------------------------------------
\* What the constants are.
LEMMA MarketFacts ==
  /\ Prices \subseteq Nat \ {0} /\ Prices \subseteq Nat /\ Notionals \subseteq Nat
  /\ MaxIntents \in Nat /\ Lot \in Nat \ {0}
  /\ FailedParts \subseteq Parts \ {"line"} /\ TornParts \subseteq Parts
BY MarketAssumption

\* The order for an intent: its target and the difference to it are integers, and
\* it is an order whenever there is a difference.
LEMMA Derives ==
  ASSUME TypeOK, intent \in Intents, NEW price \in Prices
  PROVE  /\ targetQty(intent, price) \in Int /\ delta(price) \in Int
         /\ delta(price) # 0 => deriveOrder(price) \in Order
         /\ deriveOrder(price).price = price
<1>1. price \in Nat \ {0} /\ intent.notional \in Nat /\ intent.symbol \in Symbols
      /\ intent.no \in 1 .. MaxIntents
  BY MarketFacts DEF Intents
<1>2. intent.notional \div price \in Int
  BY <1>1
<1>3. targetQty(intent, price) \in Int
  BY <1>2 DEF targetQty
<1>4. positions[intent.symbol] \in Position
  BY <1>1 DEF TypeOK
<1>5. positions[intent.symbol].qty \in Int
  BY <1>4 DEF Position
<1>6. delta(price) \in Int
  BY <1>3, <1>5 DEF delta
<1>7. ASSUME delta(price) # 0
      PROVE  Magnitude(delta(price)) \in Nat \ {0}
  BY <1>6, <1>7 DEF Magnitude
<1>8. (IF delta(price) >= 0 THEN "BUY" ELSE "SELL") \in Sides
  BY DEF Sides
<1> QED
  BY <1>1, <1>3, <1>6, <1>7, <1>8 DEF deriveOrder, Order

\* The exposure of a position is a number, and nothing for a flat one.
LEMMA Notional ==
  ASSUME NEW p \in Position
  PROVE  positionNotional(p) \in Nat /\ (p.qty = 0 => positionNotional(p) = 0)
<1>1. p.qty \in Int /\ p.mark \in Nat
  BY DEF Position
<1>2. Magnitude(p.qty) \in Nat /\ (p.qty = 0 => Magnitude(p.qty) = 0)
  BY <1>1 DEF Magnitude
<1> QED
  BY <1>1, <1>2 DEF positionNotional

\* The result of an execution carries the exposure of the position it leads to.
LEMMA ResultsAre ==
  ASSUME intent \in Intents, NEW p \in Position
  PROVE  /\ ResultFor(p) \in Results
         /\ ResultFor(p).symbol = intent.symbol
         /\ ResultFor(p).notional = positionNotional(p)
         /\ ResultFor(p).notional # 0 => ResultFor(p).side = positionSide(p)
         /\ ResultFor(p).strategy = intent.strategy
<1>1. intent.symbol \in Symbols /\ intent.side \in {"LONG", "SHORT"} /\ intent.strategy \in Strategies
  BY DEF Intents
<1>2. positionNotional(p) \in Nat /\ (p.qty = 0 => positionNotional(p) = 0)
  BY Notional
<1>3. p.qty \in Int
  BY DEF Position
<1>4. positionSide(p) \in {"LONG", "SHORT", "FLAT"} /\ (positionSide(p) = "FLAT" <=> p.qty = 0)
  BY <1>3 DEF positionSide
<1>5. ResultFor(p).side \in {"LONG", "SHORT", "FLAT"}
  BY <1>1, <1>4 DEF ResultFor
<1> QED
  BY <1>1, <1>2, <1>4, <1>5 DEF ResultFor, Results

\* The books of one symbol move together.
LEMMA ReconcilesNext ==
  ASSUME intent \in Intents, NEW ps \in MarketStates, NEW state \in PortfolioStates,
         reconcile(ps, state), NEW q \in Position
  PROVE  /\ reconcile([ps EXCEPT ![intent.symbol] = q], applyResult(state, ResultFor(q)))
         /\ applyResult(state, ResultFor(q)) \in PortfolioStates
<1>1. intent.symbol \in Symbols
  BY DEF Intents
<1> DEFINE r == ResultFor(q)
           new == applyResult(state, r)
           now == [ps EXCEPT ![intent.symbol] = q]
<1>2. /\ r \in Results /\ r.symbol = intent.symbol /\ r.notional = positionNotional(q)
      /\ r.notional # 0 => r.side = positionSide(q)
  BY ResultsAre
<1> HIDE DEF r
<1>3. \A s \in Symbols :
        /\ now[s] = IF s = intent.symbol THEN q ELSE ps[s]
        /\ s # intent.symbol => new[s] = state[s]
        /\ s = intent.symbol => new[s].notional = r.notional /\ new[s].side = r.side
  BY <1>1, <1>2 DEF applyResult, MarketStates, PortfolioStates
<1> HIDE DEF new, now
<1>4. reconcile(now, new)
  <2> SUFFICES ASSUME NEW s \in Symbols
               PROVE  /\ positionNotional(now[s]) = new[s].notional
                      /\ new[s].notional # 0 => positionSide(now[s]) = new[s].side
    BY DEF reconcile
  <2>1. CASE s = intent.symbol
    BY <1>2, <1>3, <2>1
  <2>2. CASE s # intent.symbol
    BY <1>3, <2>2 DEF reconcile
  <2> QED
    BY <2>1, <2>2
<1>5. new \in PortfolioStates
  BY <1>2, ResultApplies DEF new
<1> QED
  BY <1>4, <1>5 DEF new, now, r

\* readAll returns records.
LEMMA ReadAllIs ==
  ASSUME NEW f \in Seq(Lines), readAllSucceeds(f)
  PROVE  readAll(f) \in Seq(Records)
<1>1. /\ Len(f) \in Nat /\ DOMAIN f = 1 .. Len(f)
      /\ \A i \in 1 .. Len(f) : f[i] \in Lines
  OBVIOUS
<1>2. \A l \in Lines : l.parsed # <<>> => l.parsed[1] \in Records
  <2> SUFFICES ASSUME NEW l \in Lines, l.parsed # <<>> PROVE l.parsed[1] \in Records
    OBVIOUS
  <2>1. l.parsed \in {<<>>} \cup {<<r>> : r \in Records}
    BY DEF Lines
  <2>2. PICK r \in Records : l.parsed = <<r>>
    BY <2>1
  <2> QED
    BY <2>2
<1>3. \A i \in 1 .. Len(f) : i \notin Unparseable(f) => f[i].parsed[1] \in Records
  BY <1>1, <1>2 DEF Unparseable
<1>4. Unparseable(f) = {} \/ Unparseable(f) = {Len(f)}
  BY DEF readAllSucceeds
<1>5. Cardinality(Unparseable(f)) = IF Unparseable(f) = {} THEN 0 ELSE 1
  BY <1>4, FS_EmptySet, FS_Singleton
<1>6. Unparseable(f) # {} => Len(f) \in 1 .. Len(f)
  BY <1>1, <1>4 DEF Unparseable
<1> DEFINE n == Len(f) - Cardinality(Unparseable(f))
<1>7. n \in Nat /\ \A i \in 1 .. n : i \in 1 .. Len(f) /\ i \notin Unparseable(f)
  <2>1. CASE Unparseable(f) = {}
    <3>1. n = Len(f)
      BY <1>1, <1>5, <2>1
    <3> QED
      BY <1>1, <2>1, <3>1
  <2>2. CASE Unparseable(f) = {Len(f)}
    <3>1. n = Len(f) - 1 /\ Len(f) - 1 \in Nat
      BY <1>1, <1>5, <1>6, <2>2
    <3>2. \A m \in Nat : \A i \in 1 .. m - 1 : i \in 1 .. m /\ i # m
      OBVIOUS
    <3> HIDE DEF n
    <3> QED
      BY <1>1, <2>2, <3>1, <3>2
  <2> QED
    BY <1>4, <2>1, <2>2
<1>8. readAll(f) = [i \in 1 .. n |-> f[i].parsed[1]]
  BY DEF readAll
<1> HIDE DEF n
<1>9. readAll(f) \in [1 .. n -> Records]
  BY <1>3, <1>7, <1>8
<1> QED
  BY <1>7, <1>9

\* appendFile leaves lines of records and of garbage, whatever part is written.
LEMMA AppendFileIs ==
  ASSUME NEW f \in Seq(Lines), NEW rec \in Records, NEW part \in Parts
  PROVE  appendFile(f, rec, part) \in Seq(Lines)
<1> DEFINE text == [parsed |-> IF part = "torn" \/ Unterminated(f) THEN <<>> ELSE <<rec>>,
                    nl |-> part = "line"]
<1>1. text \in Lines
  BY DEF Lines
<1> HIDE DEF text
<1>2. Unterminated(f) => Len(f) \in 1 .. Len(f)
  BY DEF Unterminated
<1>3. Append(f, text) \in Seq(Lines)
  BY <1>1
<1>4. Unterminated(f) => [f EXCEPT ![Len(f)] = text] \in Seq(Lines)
  BY <1>1, <1>2
<1> QED
  BY <1>3, <1>4 DEF appendFile, text

-----------------------------------------------------------------------------
\* The data of a step that only returns to idle.
LEMMA RejectKeeps ==
  ASSUME BooksInv, Armed, Reject, file' \in Seq(Lines),
         UNCHANGED <<broker, nextSeq, adapter, intent, network, history>>,
         suspect' \in BOOLEAN
  PROVE  BooksInv'
<1>1. /\ pc' = "idle" /\ order' = NoOrder /\ answer' = NoAnswer /\ mine' = 0
      /\ broker' = broker /\ nextSeq' = nextSeq /\ positions' = positions /\ mirror' = mirror
      /\ portfolio' = portfolio /\ intent' = intent /\ venue' = venue /\ late' = late
      /\ committed' = committed /\ lost' = lost
  BY DEF Reject, adapter, network, history
<1>2. TypeOK'
  <2>1. 0 \in 0 .. Len(venue)
    BY DEF BooksInv, DataOK
  <2> QED
    BY <1>1, <2>1 DEF BooksInv, TypeOK, Locations
<1>3. DataOK'
  <2>1. NoAnswer \in Answers
    BY DEF NoAnswer, Answers
  <2> QED
    BY <1>1, <2>1 DEF BooksInv, DataOK
<1>4. FlightOK' /\ AnswerOK' /\ ReportOK'
  BY <1>1 DEF FlightOK, AnswerOK, ReportOK, InFlight
<1>5. MirrorReconciles'
  BY <1>1 DEF BooksInv, MirrorReconciles, Armed, reconcile
<1> QED
  BY <1>2, <1>3, <1>4, <1>5 DEF BooksInv

\* The books agree before the process has started.
LEMMA InitBooks == Init => BooksInv
<1> SUFFICES ASSUME Init PROVE BooksInv
  OBVIOUS
<1>1. TypeOK
  <2>1. emptyMarketState \in [Symbols -> Position]
    BY DEF emptyMarketState, flatPosition, Position
  <2>2. emptyPortfolioState \in [Symbols -> Exposure]
    BY DEF emptyPortfolioState, NoExposure, Exposure
  <2>3. Len(<<>>) = 0 /\ 0 \in 0 .. 0
    OBVIOUS
  <2> QED
    BY <2>1, <2>2, <2>3 DEF Init, TypeOK, Locations
<1>2. DataOK
  <2>1. NoAnswer \in Answers
    BY DEF NoAnswer, Answers
  <2> QED
    BY <2>1 DEF Init, DataOK
<1> QED
  BY <1>1, <1>2 DEF Init, BooksInv, FlightOK, AnswerOK, ReportOK, MirrorReconciles, InFlight

\* A restart rebuilds books that agree: recovery refuses a journal whose two rebuilt
\* states do not, and arms nothing then.
LEMMA RecoverBooks ==
  ASSUME BooksInv, Recover
  PROVE  BooksInv'
<1> DEFINE records == readAll(file)
<1>1. /\ pc' = "idle" /\ nextSeq' = Len(records)
      /\ positions' = reconstructMarketState(records)
      /\ mirror' = reconstructPortfolioState(records)
      /\ portfolio' = reconstructPortfolioState(records)
      /\ committed' = records
      /\ lost' = lost + Max({0, Len(committed) - Len(records)})
      /\ suspect' \in BOOLEAN
      /\ broker' = broker /\ file' = file /\ intent' = intent /\ order' = order
      /\ answer' = answer /\ mine' = mine /\ venue' = venue /\ late' = late
      /\ reconcile(reconstructMarketState(records), reconstructPortfolioState(records))
  BY DEF Recover, recoverable, attempt, network
<1>2. records \in Seq(Records)
  BY ReadAllIs DEF BooksInv, DataOK, Recover, recoverable
<1> HIDE DEF records
<1>3. /\ reconstructMarketState(records) \in MarketStates
      /\ reconstructPortfolioState(records) \in PortfolioStates
      /\ Len(records) \in Nat
  BY <1>2, Rebuilds
<1>4. lost + Max({0, Len(committed) - Len(records)}) \in Nat
  <2>1. Len(committed) - Len(records) \in Int /\ lost \in Nat
    BY <1>3 DEF BooksInv, DataOK, TypeOK
  <2> QED
    BY <2>1, MaxWithZero
<1>5. TypeOK'
  BY <1>1, <1>3, <1>4 DEF BooksInv, TypeOK, Locations, MarketStates, PortfolioStates
<1>6. DataOK'
  BY <1>1, <1>2 DEF BooksInv, DataOK
<1>7. FlightOK' /\ AnswerOK' /\ ReportOK'
  BY <1>1 DEF FlightOK, AnswerOK, ReportOK, InFlight
<1>8. MirrorReconciles'
  BY <1>1 DEF MirrorReconciles, reconcile
<1> QED
  BY <1>5, <1>6, <1>7, <1>8 DEF BooksInv

\* A new intent changes no book.
LEMMA DecideBooks ==
  ASSUME BooksInv, Decide
  PROVE  BooksInv'
<1>1. PICK s \in Symbols, side \in {"LONG", "SHORT"}, n \in Notionals, strategy \in Strategies :
        intent' = [no |-> intent.no + 1, symbol |-> s, side |-> side, notional |-> n,
                   strategy |-> strategy]
  BY DEF Decide
<1>2. intent.no + 1 \in 1 .. MaxIntents
  <2>1. intent.no \in Nat
    BY MarketFacts DEF BooksInv, TypeOK, Intents, NoIntent
  <2> QED
    BY <2>1, MarketFacts DEF Decide
<1>3. intent' \in Intents
  BY <1>1, <1>2 DEF Intents
<1>4. /\ pc = "idle" /\ UNCHANGED <<pc, broker, journal, adapter, attempt, network, history, suspect>>
  BY DEF Decide
<1>5. TypeOK'
  BY <1>3, <1>4 DEF BooksInv, TypeOK, journal, adapter, attempt, network, history
<1>6. DataOK'
  BY <1>4 DEF BooksInv, DataOK, journal, attempt, network, history
<1>7. FlightOK' /\ AnswerOK' /\ ReportOK'
  BY <1>4 DEF FlightOK, AnswerOK, ReportOK, InFlight
<1>8. MirrorReconciles'
  BY <1>4 DEF BooksInv, MirrorReconciles, reconcile, adapter
<1> QED
  BY <1>5, <1>6, <1>7, <1>8 DEF BooksInv

\* A stage that is at the target restates the position.
LEMMA NoOpBooks ==
  ASSUME BooksInv, NEW price \in Prices, NoOp(price)
  PROVE  BooksInv'
<1>1. /\ pc = "idle" /\ intent \in Intents
      /\ UNCHANGED <<pc, broker, journal, positions, intent, attempt, network, history, suspect>>
  BY DEF NoOp, Approved, BooksInv, TypeOK, NoIntent
<1> DEFINE q == positions[intent.symbol]
           r == ResultFor(q)
<1>2. mirror' = applyResult(mirror, r) /\ portfolio' = applyResult(portfolio, r)
  BY DEF NoOp
<1>3. positions \in MarketStates /\ mirror \in PortfolioStates /\ q \in Position
      /\ [positions EXCEPT ![intent.symbol] = q] = positions
  BY <1>1 DEF BooksInv, TypeOK, MarketStates, PortfolioStates, Intents
<1>4. reconcile(positions, mirror) /\ portfolio = mirror
  BY <1>1 DEF BooksInv, MirrorReconciles
<1>5. reconcile(positions, applyResult(mirror, r)) /\ applyResult(mirror, r) \in PortfolioStates
  <2> HIDE DEF q
  <2> QED
    BY <1>1, <1>3, <1>4, ReconcilesNext
<1> HIDE DEF r
<1>6. TypeOK'
  BY <1>1, <1>2, <1>4, <1>5 DEF BooksInv, TypeOK, PortfolioStates, journal, attempt, network, history
<1>7. DataOK'
  BY <1>1 DEF BooksInv, DataOK, journal, attempt, network, history
<1>8. FlightOK' /\ AnswerOK' /\ ReportOK'
  BY <1>1 DEF FlightOK, AnswerOK, ReportOK, InFlight
<1>9. MirrorReconciles'
  BY <1>1, <1>2, <1>4, <1>5 DEF MirrorReconciles, reconcile
<1> QED
  BY <1>6, <1>7, <1>8, <1>9 DEF BooksInv

\* What starting an order has in common, whichever the broker.
LEMMA OrderStarts ==
  ASSUME BooksInv, NEW price \in Prices, Approved, delta(price) # 0,
         order' = deriveOrder(price), pc' \in {"placing", "placed"},
         UNCHANGED <<broker, journal, adapter, intent, answer, mine, network, history, suspect>>
  PROVE  /\ intent \in Intents /\ order' \in Order /\ order'.qty \in Nat \ {0} /\ order'.price \in Nat
         /\ ReportOK' => BooksInv'
<1>1. pc = "idle" /\ intent \in Intents /\ evaluateRisk(portfolio, intent)
  BY DEF Approved, BooksInv, TypeOK, NoIntent
<1>2. deriveOrder(price) \in Order /\ deriveOrder(price).price = price
  BY <1>1, Derives DEF BooksInv
<1>3. TypeOK'
  BY <1>2 DEF BooksInv, TypeOK, Locations, journal, adapter, network, history
<1>4. DataOK'
  BY DEF BooksInv, DataOK, journal, network, history
<1>5. FlightOK'
  <2>1. deriveOrder(price)' = deriveOrder(price)
    BY DEF deriveOrder, delta, adapter
  <2>2. evaluateRisk(portfolio, intent)'
    BY <1>1 DEF adapter
  <2>3. order' = deriveOrder(order.price)'
    <3>1. order'.price = price
      BY <1>2
    <3> QED
      BY <2>1, <3>1
  <2> QED
    BY <1>1, <1>2, <2>2, <2>3 DEF FlightOK
<1>6. AnswerOK'
  BY DEF AnswerOK
<1>7. MirrorReconciles'
  BY <1>1 DEF BooksInv, MirrorReconciles, reconcile, adapter
<1>8. order'.qty \in Nat \ {0} /\ order'.price \in Nat
  BY <1>2, MarketFacts DEF Order
<1> QED
  BY <1>1, <1>2, <1>3, <1>4, <1>5, <1>6, <1>7, <1>8 DEF BooksInv

\* The paper and the simulated broker answer with a report; the transport is called.
LEMMA PlaceBooks ==
  ASSUME BooksInv, NEW price \in Prices,
         PlacePaper(price) \/ PlaceSimulated(price) \/ PlaceReal(price)
  PROVE  BooksInv'
<1> DEFINE o == deriveOrder(price)
<1>1. /\ Approved /\ delta(price) # 0 /\ order' = o /\ pc' \in {"placing", "placed"}
      /\ UNCHANGED <<broker, journal, adapter, intent, answer, mine, network, history, suspect>>
  BY DEF PlacePaper, PlaceSimulated, PlaceReal
<1>2. o.qty \in Nat \ {0} /\ o.price \in Nat /\ (ReportOK' => BooksInv')
  BY <1>1, OrderStarts
<1> HIDE DEF o
<1>3. CASE PlacePaper(price)
  <2>1. broker' # "real" /\ events' = PaperEvents(o)
    BY <1>3 DEF PlacePaper, o
  <2>2. \E trades : Reported(o, trades, PaperEvents(o))
    BY <1>2, PaperReports
  <2> QED
    BY <1>1, <1>2, <2>1, <2>2 DEF ReportOK, Reported, ExecutedStream, RefusedStream
<1>4. CASE PlaceSimulated(price)
  <2>1. broker' # "real" /\ events' \in SimulatedStreams(o, Prices)
    BY <1>4 DEF PlaceSimulated, o
  <2>2. \E trades : Reported(o, trades, events')
    BY <1>2, <2>1, SimulatedReports, MarketFacts
  <2> QED
    BY <1>1, <1>2, <2>1, <2>2 DEF ReportOK, Reported, ExecutedStream, RefusedStream
<1>5. CASE PlaceReal(price)
  <2>1. pc' = "placing"
    BY <1>5 DEF PlaceReal
  <2> QED
    BY <1>2, <2>1 DEF ReportOK
<1> QED
  BY <1>3, <1>4, <1>5

\* A step in flight that leaves the process where the order stands.
LEMMA FlightGoesOn ==
  ASSUME BooksInv, pc \in InFlight, pc' \in InFlight,
         UNCHANGED <<broker, adapter, intent, order>>
  PROVE  FlightOK' /\ MirrorReconciles'
<1>1. deriveOrder(order.price)' = deriveOrder(order.price)
  BY DEF deriveOrder, delta, adapter
<1> QED
  BY <1>1 DEF BooksInv, FlightOK, MirrorReconciles, InFlight, reconcile, adapter

\* The venue has executed an order.
LEMMA VenueGrows ==
  ASSUME BooksInv, NEW o \in Order, NEW x \in Executions(o), venue' = Append(venue, x)
  PROVE  /\ venue' \in Seq(VenueOrders) /\ Len(venue') = Len(venue) + 1 /\ Len(venue) \in Nat
         /\ \A i \in 1 .. Len(venue') : venue'[i].state = "rejected" => venue'[i].trades = <<>>
         /\ \A i \in Nat : AnswerOf(x, i) \in Answers
         /\ x.state = "rejected" => x.trades = <<>>
<1>1. x \in VenueOrders /\ (x.state = "rejected" => x.trades = <<>>)
  BY ExecutionsAre
<1>2. /\ venue \in Seq(VenueOrders)
      /\ \A i \in 1 .. Len(venue) : venue[i].state = "rejected" => venue[i].trades = <<>>
  BY DEF BooksInv, DataOK
<1>3. /\ venue' \in Seq(VenueOrders) /\ Len(venue') = Len(venue) + 1 /\ Len(venue) \in Nat
      /\ venue'[Len(venue) + 1] = x /\ \A i \in 1 .. Len(venue) : venue'[i] = venue[i]
  BY <1>1, <1>2
<1>4. \A i \in Nat : AnswerOf(x, i) \in Answers
  BY <1>1 DEF AnswerOf, Answers, VenueOrders
<1>5. \A i \in 1 .. Len(venue') : venue'[i].state = "rejected" => venue'[i].trades = <<>>
  <2> TAKE i \in 1 .. Len(venue')
  <2>1. i \in 1 .. Len(venue) \/ i = Len(venue) + 1
    BY <1>3
  <2> QED
    BY <1>1, <1>2, <1>3, <2>1
<1> QED
  BY <1>1, <1>3, <1>4, <1>5

\* What happens at the venue and in the network leaves the books alone.
LEMMA QuietBooks ==
  ASSUME BooksInv, UNCHANGED <<pc, broker, adapter, intent, order, answer, events>>,
         TypeOK', DataOK',
         pc = "trades" => /\ answer.at \in 1 .. Len(venue')
                          /\ answer.state = "rejected" => venue'[answer.at].state = "rejected"
  PROVE  BooksInv'
<1>1. deriveOrder(order.price)' = deriveOrder(order.price)
  BY DEF deriveOrder, delta, adapter
<1>2. FlightOK'
  BY <1>1 DEF BooksInv, FlightOK, adapter
<1>3. AnswerOK' /\ MirrorReconciles'
  BY DEF BooksInv, AnswerOK, MirrorReconciles, reconcile, adapter
<1>4. ReportOK'
  BY DEF BooksInv, ReportOK, Reported
<1> QED
  BY <1>2, <1>3, <1>4 DEF BooksInv

\* The venue executes the order and answers, or executes it and the answer is lost.
LEMMA AnswersBooks ==
  ASSUME BooksInv, VenueAnswers \/ AmbiguousExecuted
  PROVE  BooksInv'
<1>1. /\ pc = "placing" /\ pc' \in {"answered", "lookup"} /\ mine' = Len(venue) + 1
      /\ UNCHANGED <<broker, journal, adapter, intent, order, late, history, suspect>>
  BY DEF VenueAnswers, AmbiguousExecuted
<1>2. PICK x \in Executions(order) :
        /\ venue' = Append(venue, x)
        /\ answer' = AnswerOf(x, Len(venue) + 1) \/ (pc' = "lookup" /\ answer' = answer)
  BY DEF VenueAnswers, AmbiguousExecuted
<1>3. order \in Order
  BY <1>1 DEF BooksInv, FlightOK, InFlight
<1>4. /\ venue' \in Seq(VenueOrders) /\ Len(venue') = Len(venue) + 1 /\ Len(venue) \in Nat
      /\ \A i \in 1 .. Len(venue') : venue'[i].state = "rejected" => venue'[i].trades = <<>>
      /\ \A i \in Nat : AnswerOf(x, i) \in Answers
      /\ x.state = "rejected" => x.trades = <<>>
  BY <1>2, <1>3, VenueGrows
<1>5. answer' \in Answers
  BY <1>2, <1>4 DEF BooksInv, DataOK
<1>6. TypeOK'
  <2>1. mine' \in 0 .. Len(venue')
    BY <1>1, <1>4
  <2> QED
    BY <1>1, <2>1 DEF BooksInv, TypeOK, Locations, journal, adapter, history
<1>7. DataOK'
  BY <1>1, <1>4, <1>5 DEF BooksInv, DataOK, journal, history
<1>8. FlightOK' /\ MirrorReconciles'
  BY <1>1, FlightGoesOn DEF InFlight
<1>9. AnswerOK'
  BY <1>1, <1>2, <1>4 DEF AnswerOK, AnswerOf
<1>10. ReportOK'
  BY <1>1 DEF ReportOK
<1> QED
  BY <1>6, <1>7, <1>8, <1>9, <1>10 DEF BooksInv

\* The call fails and the order has not arrived, or not yet.
LEMMA AmbiguousBooks ==
  ASSUME BooksInv, AmbiguousLost \/ AmbiguousDelayed
  PROVE  BooksInv'
<1>1. /\ pc = "placing" /\ pc' = "lookup" /\ late' \in {late, {order}}
      /\ UNCHANGED <<broker, journal, adapter, intent, attempt, venue, history, suspect>>
  BY DEF AmbiguousLost, AmbiguousDelayed, network
<1>2. order \in Order
  BY <1>1 DEF BooksInv, FlightOK, InFlight
<1>3. TypeOK'
  BY <1>1, <1>2 DEF BooksInv, TypeOK, Locations, journal, adapter, history, attempt
<1>4. DataOK'
  BY <1>1 DEF BooksInv, DataOK, journal, history, attempt
<1>5. FlightOK' /\ MirrorReconciles'
  BY <1>1, FlightGoesOn DEF InFlight, attempt
<1>6. AnswerOK' /\ ReportOK'
  BY <1>1 DEF AnswerOK, ReportOK
<1> QED
  BY <1>3, <1>4, <1>5, <1>6 DEF BooksInv

\* A delayed request arrives at the venue.
LEMMA LateBooks ==
  ASSUME BooksInv, LateArrives
  PROVE  BooksInv'
<1>1. PICK o \in late : \E x \in Executions(o) : venue' = Append(venue, x) /\ late' = late \ {o}
  BY DEF LateArrives
<1>2. PICK x \in Executions(o) : venue' = Append(venue, x) /\ late' = late \ {o}
  BY <1>1
<1>3. UNCHANGED <<pc, broker, journal, adapter, intent, order, answer, events, history>>
  BY DEF LateArrives
<1>4. mine' \in {mine, Len(venue) + 1} /\ suspect' \in BOOLEAN
  BY DEF LateArrives, BooksInv, TypeOK
<1>5. o \in Order
  BY DEF BooksInv, TypeOK
<1>6. /\ venue' \in Seq(VenueOrders) /\ Len(venue') = Len(venue) + 1 /\ Len(venue) \in Nat
      /\ \A i \in 1 .. Len(venue') : venue'[i].state = "rejected" => venue'[i].trades = <<>>
  BY <1>2, <1>5, VenueGrows
<1>7. mine' \in 0 .. Len(venue')
  BY <1>4, <1>6 DEF BooksInv, TypeOK
<1>8. TypeOK'
  BY <1>2, <1>3, <1>4, <1>7 DEF BooksInv, TypeOK, journal, adapter, history
<1>9. DataOK'
  BY <1>3, <1>6 DEF BooksInv, DataOK, journal, history
<1>10. ASSUME pc = "trades"
       PROVE  /\ answer.at \in 1 .. Len(venue')
              /\ answer.state = "rejected" => venue'[answer.at].state = "rejected"
  <2>1. /\ answer.at \in 1 .. Len(venue)
        /\ answer.state = "rejected" => venue[answer.at].state = "rejected"
    BY <1>10 DEF BooksInv, AnswerOK
  <2>2. \A k \in 1 .. Len(venue) : venue'[k] = venue[k]
    BY <1>2 DEF BooksInv, DataOK
  <2> QED
    BY <1>6, <2>1, <2>2
<1> QED
  BY <1>3, <1>8, <1>9, <1>10, QuietBooks

\* One order of the venue is touched, and is not a rejected one.
LEMMA VenueTouched ==
  ASSUME BooksInv, NEW i \in 1 .. Len(venue), NEW v \in VenueOrders, v.state # "rejected",
         venue' = [venue EXCEPT ![i] = v]
  PROVE  /\ venue' \in Seq(VenueOrders) /\ Len(venue') = Len(venue)
         /\ \A k \in 1 .. Len(venue') : venue'[k].state = "rejected" => venue'[k].trades = <<>>
         /\ \A k \in 1 .. Len(venue) : k # i => venue'[k] = venue[k]
<1>1. /\ venue \in Seq(VenueOrders)
      /\ \A k \in 1 .. Len(venue) : venue[k].state = "rejected" => venue[k].trades = <<>>
  BY DEF BooksInv, DataOK
<1>2. venue' \in Seq(VenueOrders) /\ Len(venue') = Len(venue)
  BY <1>1
<1>3. \A k \in 1 .. Len(venue) : venue'[k] = IF k = i THEN v ELSE venue[k]
  BY <1>1
<1> QED
  BY <1>1, <1>2, <1>3

\* An order open at the venue goes on filling.
LEMMA FillsOpenBooks ==
  ASSUME BooksInv, VenueFillsOpen
  PROVE  BooksInv'
<1>1. venue \in Seq(VenueOrders) /\ DOMAIN venue = 1 .. Len(venue)
  BY DEF BooksInv, DataOK
<1> DEFINE full(i) == TotalQty(venue[i].trades) + 1 = venueAmount(venue[i].order, Lot)
           v(i, p) == [venue[i] EXCEPT !.trades = Append(@, [qty |-> 1, price |-> p]),
                                       !.state = IF full(i) THEN "done" ELSE "open"]
<1>2. PICK i \in 1 .. Len(venue), p \in Prices :
        /\ venue[i].state = "open"
        /\ venue' = [venue EXCEPT ![i].trades = Append(@, [qty |-> 1, price |-> p]),
                                  ![i].state = IF full(i) THEN "done" ELSE "open"]
  BY <1>1 DEF VenueFillsOpen
<1>3. venue[i] \in VenueOrders
  BY <1>1
<1>4. [qty |-> 1, price |-> p] \in Trade
  BY MarketFacts DEF Trade
<1>5. v(i, p) \in VenueOrders /\ v(i, p).state # "rejected"
  <2>1. Append(venue[i].trades, [qty |-> 1, price |-> p]) \in Seq(Trade)
    BY <1>3, <1>4 DEF VenueOrders
  <2> HIDE DEF full
  <2> QED
    BY <1>3, <2>1 DEF VenueOrders
<1>6. venue' = [venue EXCEPT ![i] = v(i, p)]
  <2> HIDE DEF full
  <2> QED
    BY <1>1, <1>2, <1>3 DEF VenueOrders
<1> HIDE DEF v
<1>7. /\ venue' \in Seq(VenueOrders) /\ Len(venue') = Len(venue)
      /\ \A k \in 1 .. Len(venue') : venue'[k].state = "rejected" => venue'[k].trades = <<>>
      /\ \A k \in 1 .. Len(venue) : k # i => venue'[k] = venue[k]
  BY <1>5, <1>6, VenueTouched
<1>8. UNCHANGED <<pc, broker, journal, adapter, intent, attempt, late, history>> /\ suspect' \in BOOLEAN
  BY DEF VenueFillsOpen, BooksInv, TypeOK
<1>9. TypeOK'
  BY <1>7, <1>8 DEF BooksInv, TypeOK, journal, adapter, history, attempt
<1>10. DataOK'
  BY <1>7, <1>8 DEF BooksInv, DataOK, journal, history, attempt
<1>11. ASSUME pc = "trades"
       PROVE  /\ answer.at \in 1 .. Len(venue')
              /\ answer.state = "rejected" => venue'[answer.at].state = "rejected"
  <2>1. /\ answer.at \in 1 .. Len(venue)
        /\ answer.state = "rejected" => venue[answer.at].state = "rejected"
    BY <1>11 DEF BooksInv, AnswerOK
  <2>2. answer.state = "rejected" => answer.at # i
    BY <1>2, <2>1
  <2> QED
    BY <1>7, <2>1, <2>2
<1> QED
  BY <1>8, <1>9, <1>10, <1>11, QuietBooks DEF attempt

\* The lookup by label finds an order.
LEMMA LookupBooks ==
  ASSUME BooksInv, LookupFinds
  PROVE  BooksInv'
<1>1. venue \in Seq(VenueOrders) /\ DOMAIN venue = 1 .. Len(venue) /\ Len(venue) \in Nat
  BY DEF BooksInv, DataOK
<1>2. PICK i \in 1 .. Len(venue) : answer' = [state |-> venue[i].state, trades |-> <<>>, at |-> i]
  BY <1>1 DEF LookupFinds
<1>3. /\ pc = "lookup" /\ pc' = "trades" /\ suspect' \in BOOLEAN
      /\ UNCHANGED <<broker, journal, adapter, intent, order, events, mine, network, history>>
  BY DEF LookupFinds, BooksInv, TypeOK
<1>4. venue[i] \in VenueOrders
  BY <1>1
<1>5. /\ answer' \in Answers /\ answer'.at = i /\ answer'.trades = <<>>
      /\ answer'.state = venue[i].state
  <2>1. <<>> \in Seq(Trade) /\ i \in Nat
    BY <1>1
  <2> QED
    BY <1>2, <1>4, <2>1 DEF Answers, VenueOrders
<1>6. TypeOK'
  BY <1>3 DEF BooksInv, TypeOK, Locations, journal, adapter, history, network
<1>7. DataOK'
  BY <1>3, <1>5 DEF BooksInv, DataOK, journal, history, network
<1>8. FlightOK' /\ MirrorReconciles'
  BY <1>3, FlightGoesOn DEF InFlight
<1>9. AnswerOK' /\ ReportOK'
  BY <1>3, <1>5 DEF AnswerOK, ReportOK, network
<1> QED
  BY <1>6, <1>7, <1>8, <1>9 DEF BooksInv

\* Its trades are read, or count as none.
LEMMA TradesBooks ==
  ASSUME BooksInv, LookupTrades \/ LookupUnread
  PROVE  BooksInv'
<1>1. /\ pc = "trades" /\ pc' = "answered" /\ suspect' \in BOOLEAN
      /\ answer' \in {answer, [answer EXCEPT !.trades = venue[answer.at].trades]}
      /\ UNCHANGED <<broker, journal, adapter, intent, order, events, mine, network, history>>
  BY DEF LookupTrades, LookupUnread, attempt, BooksInv, TypeOK
<1>2. /\ answer \in Answers /\ answer.at \in 1 .. Len(venue) /\ answer.trades = <<>>
      /\ answer.state = "rejected" => venue[answer.at].state = "rejected"
      /\ venue \in Seq(VenueOrders)
  BY <1>1 DEF BooksInv, AnswerOK, DataOK
<1>3. /\ venue[answer.at].trades \in Seq(Trade)
      /\ answer.state = "rejected" => venue[answer.at].trades = <<>>
  <2>1. venue[answer.at] \in VenueOrders
    BY <1>2
  <2> QED
    BY <1>2, <2>1 DEF VenueOrders, BooksInv, DataOK
<1>4. answer' \in Answers /\ (answer'.state = "rejected" => answer'.trades = <<>>)
  BY <1>1, <1>2, <1>3 DEF Answers
<1>5. TypeOK'
  BY <1>1 DEF BooksInv, TypeOK, Locations, journal, adapter, history, network
<1>6. DataOK'
  BY <1>1, <1>4 DEF BooksInv, DataOK, journal, history, network
<1>7. FlightOK' /\ MirrorReconciles'
  BY <1>1, FlightGoesOn DEF InFlight
<1>8. AnswerOK' /\ ReportOK'
  BY <1>1, <1>4 DEF AnswerOK, ReportOK
<1> QED
  BY <1>5, <1>6, <1>7, <1>8 DEF BooksInv

\* The transport cancels what is still open and fetches the trades.
LEMMA CancelBooks ==
  ASSUME BooksInv, CancelOpen
  PROVE  BooksInv'
<1>1. venue \in Seq(VenueOrders) /\ DOMAIN venue = 1 .. Len(venue)
  BY DEF BooksInv, DataOK
<1>2. /\ pc = "answered" /\ pc' = "answered"
      /\ venue' = [venue EXCEPT ![answer.at].state = "done"]
      /\ answer' = [answer EXCEPT !.state = "done"]
      /\ UNCHANGED <<pc, broker, journal, adapter, intent, order, events, mine, late, history, suspect>>
  BY DEF CancelOpen
<1> DEFINE v == [venue[answer.at] EXCEPT !.state = "done"]
<1>3. /\ venue' \in Seq(VenueOrders) /\ Len(venue') = Len(venue)
      /\ \A k \in 1 .. Len(venue') : venue'[k].state = "rejected" => venue'[k].trades = <<>>
  <2>1. CASE answer.at \in 1 .. Len(venue)
    <3>1. venue[answer.at] \in VenueOrders
      BY <1>1, <2>1
    <3>2. v \in VenueOrders /\ v.state # "rejected"
      BY <3>1 DEF VenueOrders
    <3>3. venue' = [venue EXCEPT ![answer.at] = v]
      BY <1>1, <1>2, <2>1
    <3> HIDE DEF v
    <3> QED
      BY <2>1, <3>2, <3>3, VenueTouched
  <2>2. CASE answer.at \notin 1 .. Len(venue)
    <3>1. venue' = venue
      BY <1>1, <1>2, <2>2
    <3> QED
      BY <3>1 DEF BooksInv, DataOK
  <2> QED
    BY <2>1, <2>2
<1>4. answer' \in Answers /\ answer'.state # "rejected"
  BY <1>2 DEF BooksInv, DataOK, Answers
<1>5. TypeOK'
  BY <1>2, <1>3 DEF BooksInv, TypeOK, journal, adapter, history
<1>6. DataOK'
  BY <1>2, <1>3, <1>4 DEF BooksInv, DataOK, journal, history
<1>7. FlightOK' /\ MirrorReconciles'
  BY <1>2, FlightGoesOn DEF InFlight
<1>8. AnswerOK' /\ ReportOK'
  BY <1>2, <1>4 DEF AnswerOK, ReportOK
<1> QED
  BY <1>5, <1>6, <1>7, <1>8 DEF BooksInv

\* The transport returns its report, or refuses the trades.
LEMMA ReturnsBooks ==
  ASSUME BooksInv, PlaceReturns
  PROVE  BooksInv'
<1>1. /\ pc = "answered" /\ pc' = "placed" /\ events' = buildEvents(order, answer)
      /\ ~(TotalQty(answer.trades) > order.qty)
      /\ UNCHANGED <<broker, journal, adapter, intent, order, answer, mine, network, history, suspect>>
  BY DEF PlaceReturns, Overfilled
<1>2. order.qty \in Nat /\ answer.trades \in Seq(Trade)
  <2>1. order \in Order /\ answer \in Answers
    BY <1>1 DEF BooksInv, FlightOK, InFlight, DataOK
  <2> QED
    BY <2>1 DEF Order, Answers
<1>3. TotalQty(answer.trades) <= order.qty
  <2>1. Len(answer.trades) \in 0 .. Len(answer.trades)
    BY <1>2
  <2>2. TotalQty(answer.trades) \in Nat
    BY <1>2, <2>1, CumQtyIs DEF TotalQty
  <2> QED
    BY <1>1, <1>2, <2>2
<1>4. answer.state = "rejected" => answer.trades = <<>>
  BY <1>1 DEF BooksInv, AnswerOK
<1>5. Reported(order, answer.trades, events')
  BY <1>1, <1>2, <1>3, <1>4, TransportReports
<1>6. TypeOK'
  BY <1>1 DEF BooksInv, TypeOK, Locations, journal, adapter, history, network
<1>7. DataOK'
  BY <1>1 DEF BooksInv, DataOK, journal, history, network
<1>8. FlightOK' /\ MirrorReconciles'
  BY <1>1, FlightGoesOn DEF InFlight
<1>9. AnswerOK'
  BY <1>1 DEF AnswerOK
<1>10. ReportOK'
  BY <1>1, <1>5 DEF ReportOK, Reported, ExecutedStream, RefusedStream
<1> QED
  BY <1>6, <1>7, <1>8, <1>9, <1>10 DEF BooksInv

\* What the order in flight would make of the books.
Outcome(trades, q) ==
  /\ Reported(order, trades, events) /\ (broker = "real" => trades = answer.trades)
  /\ q \in Position /\ order.symbol = intent.symbol
  /\ candidate = [positions EXCEPT ![intent.symbol] = q]
  /\ candidate[order.symbol] = q /\ result = ResultFor(q)
  /\ q.qty = IF order.side = "BUY" THEN positions[intent.symbol].qty + TotalQty(trades)
             ELSE positions[intent.symbol].qty - TotalQty(trades)

\* What settling leads to: the report's trades move one position by their quantity, and
\* the result is that position's.
LEMMA OutcomeIs ==
  ASSUME BooksInv, pc \in {"placed", "append"}
  PROVE  \E trades, q : Outcome(trades, q)
<1>1. /\ intent \in Intents /\ order \in Order /\ order = deriveOrder(order.price)
  BY DEF BooksInv, FlightOK, InFlight
<1>2. order.symbol = intent.symbol /\ intent.symbol \in Symbols /\ order.side \in Sides
      /\ order.qty \in Nat \ {0}
  BY <1>1 DEF deriveOrder, Intents, Order
<1>3. PICK trades : Reported(order, trades, events) /\ (broker = "real" => trades = answer.trades)
  BY DEF BooksInv, ReportOK
<1>4. fillsFrom(events) = FillEvents(order.qty, trades)
  BY <1>2, <1>3, ReportedIs
<1>5. trades \in Seq(Trade)
  BY <1>3 DEF Reported
<1>6. positions \in [Symbols -> Position] /\ positions[intent.symbol] \in Position
  BY <1>2 DEF BooksInv, TypeOK
<1> DEFINE taken == FillEvents(order.qty, trades)
           begin == positions[intent.symbol]
           side == order.side
           q == FoldLeft(LAMBDA p, f : applyFill(p, side, f), begin, taken)
<1>7. taken \in Seq(OrderEvent)
  BY <1>2, <1>5, FillEventsAre
<1>8. candidate = [positions EXCEPT ![intent.symbol] = q]
  BY <1>2, <1>4 DEF candidate, applyFills
<1>9. q \in Position
  <2> HIDE DEF taken, begin
  <2>1. PICK c : /\ IsRun(c, Len(taken), Position, begin, PositionSteps(begin, side, taken))
                 /\ q = c[Len(taken)]
    BY <1>2, <1>6, <1>7, PositionRuns DEF begin
  <2>2. Len(taken) \in 0 .. Len(taken)
    BY <1>7
  <2> QED
    BY <2>1, <2>2 DEF IsRun
<1>10. q.qty = IF side = "BUY" THEN begin.qty + TotalQty(trades) ELSE begin.qty - TotalQty(trades)
  BY <1>2, <1>5, <1>6, PositionAfter
<1> HIDE DEF q
<1>11. candidate[order.symbol] = q
  BY <1>2, <1>6, <1>8
<1>12. result = ResultFor(q)
  BY <1>11 DEF result
<1>13. Outcome(trades, q)
  BY <1>2, <1>3, <1>8, <1>9, <1>10, <1>11, <1>12 DEF Outcome
<1> QED
  BY <1>13

\* Settling a report never breaks the books: the events are sound, the new position
\* and the new exposure agree, and the record can be written.
LEMMA OutcomeReconciles ==
  ASSUME BooksInv, pc \in {"placed", "append"}
  PROVE  /\ reduceOrder(order.qty, events).sound
         /\ reconcile(candidate, applyResult(mirror, result))
         /\ candidate \in MarketStates /\ applyResult(mirror, result) \in PortfolioStates
         /\ applyResult(portfolio, result) = applyResult(mirror, result)
         /\ NextRecord \in Records
<1>1. PICK trades, q : Outcome(trades, q)
  BY OutcomeIs
<1>2. /\ intent \in Intents /\ order \in Order
  BY DEF BooksInv, FlightOK, InFlight
<1>3. order.qty \in Nat \ {0} /\ order.symbol \in Symbols /\ order.side \in Sides
  BY <1>2 DEF Order
<1>4. reduceOrder(order.qty, events).sound /\ events \in Seq(OrderEvent)
  BY <1>1, <1>3, ReportedIs DEF Outcome
<1>5. /\ positions \in MarketStates /\ mirror \in PortfolioStates
      /\ reconcile(positions, mirror) /\ portfolio = mirror
  BY DEF BooksInv, TypeOK, MarketStates, PortfolioStates, MirrorReconciles
<1>6. q \in Position /\ candidate = [positions EXCEPT ![intent.symbol] = q] /\ result = ResultFor(q)
      /\ candidate[order.symbol] = q
  BY <1>1 DEF Outcome
<1>7. reconcile(candidate, applyResult(mirror, result)) /\ applyResult(mirror, result) \in PortfolioStates
  BY <1>2, <1>5, <1>6, ReconcilesNext
<1>8. candidate \in MarketStates
  BY <1>5, <1>6 DEF MarketStates
<1>9. result \in Results
  BY <1>2, <1>6, ResultsAre
<1>10. NextRecord \in Records
  <2>1. nextSeq \in Nat
    BY DEF BooksInv, TypeOK
  <2> QED
    BY <1>3, <1>4, <1>6, <1>9, <2>1 DEF NextRecord, Records
<1> QED
  BY <1>4, <1>5, <1>7, <1>8, <1>10

\* The report goes to the journal, or is dropped for having no fills.
LEMMA SettleBooks ==
  ASSUME BooksInv, Settle
  PROVE  BooksInv'
<1>1. pc = "placed" /\ UNCHANGED <<broker, journal, adapter, intent, network, history, suspect>>
  BY DEF Settle
<1>2. CASE pc' = "append" /\ UNCHANGED attempt
  <2>1. TypeOK'
    BY <1>1, <1>2 DEF BooksInv, TypeOK, Locations, journal, adapter, history, network, attempt
  <2>2. DataOK'
    BY <1>1, <1>2 DEF BooksInv, DataOK, journal, history, network, attempt
  <2>3. FlightOK' /\ MirrorReconciles'
    BY <1>1, <1>2, FlightGoesOn DEF InFlight, attempt
  <2>4. AnswerOK'
    BY <1>2 DEF AnswerOK
  <2>5. ReportOK'
    BY <1>1, <1>2 DEF BooksInv, ReportOK, Reported, attempt
  <2> QED
    BY <2>1, <2>2, <2>3, <2>4, <2>5 DEF BooksInv
<1>3. CASE Reject
  <2>1. file' \in Seq(Lines) /\ suspect' \in BOOLEAN /\ Armed
    BY <1>1 DEF BooksInv, DataOK, TypeOK, Armed, journal
  <2> QED
    BY <1>1, <1>3, <2>1, RejectKeeps DEF journal
<1> QED
  BY <1>2, <1>3 DEF Settle

\* A committed execution moves positions, mirror and portfolio together.
LEMMA CommitBooks ==
  ASSUME BooksInv, AppendCommits
  PROVE  BooksInv'
<1>1. /\ pc = "append" /\ file' = appendFile(file, NextRecord, "line")
      /\ nextSeq' = nextSeq + 1 /\ positions' = candidate
      /\ mirror' = applyResult(mirror, result) /\ portfolio' = applyResult(portfolio, result)
      /\ committed' = Append(committed, NextRecord)
      /\ pc' = "idle" /\ order' = NoOrder /\ answer' = NoAnswer /\ mine' = 0
      /\ broker' = broker /\ intent' = intent /\ venue' = venue /\ late' = late
      /\ lost' = lost /\ suspect' = suspect
  BY DEF AppendCommits, Reject, network
<1>2. /\ reconcile(candidate, applyResult(mirror, result))
      /\ candidate \in MarketStates /\ applyResult(mirror, result) \in PortfolioStates
      /\ applyResult(portfolio, result) = applyResult(mirror, result)
      /\ NextRecord \in Records
  BY <1>1, OutcomeReconciles
<1>3. file' \in Seq(Lines)
  BY <1>1, <1>2, AppendFileIs DEF BooksInv, DataOK, Parts
<1>4. committed' \in Seq(Records)
  BY <1>1, <1>2 DEF BooksInv, DataOK
<1>5. TypeOK'
  <2>1. 0 \in 0 .. Len(venue)
    BY DEF BooksInv, DataOK
  <2>2. nextSeq + 1 \in Nat
    BY DEF BooksInv, TypeOK
  <2> QED
    BY <1>1, <1>2, <2>1, <2>2 DEF BooksInv, TypeOK, Locations, MarketStates, PortfolioStates
<1>6. DataOK'
  <2>1. NoAnswer \in Answers
    BY DEF NoAnswer, Answers
  <2> QED
    BY <1>1, <1>3, <1>4, <2>1 DEF BooksInv, DataOK
<1>7. FlightOK' /\ AnswerOK' /\ ReportOK'
  BY <1>1 DEF FlightOK, AnswerOK, ReportOK, InFlight
<1>8. MirrorReconciles'
  BY <1>1, <1>2 DEF MirrorReconciles, reconcile
<1> QED
  BY <1>5, <1>6, <1>7, <1>8 DEF BooksInv

\* A rejected append leaves the books as they were, whatever it left in the file.
LEMMA RejectedBooks ==
  ASSUME BooksInv, AppendRejected
  PROVE  BooksInv'
<1>1. PICK part \in FailedParts : file' = appendFile(file, NextRecord, part)
  BY DEF AppendRejected
<1>2. /\ pc = "append" /\ Reject /\ suspect' = TRUE
      /\ UNCHANGED <<broker, nextSeq, adapter, intent, network, history>>
  BY DEF AppendRejected
<1>3. NextRecord \in Records
  BY <1>2, OutcomeReconciles
<1>4. file' \in Seq(Lines)
  BY <1>1, <1>3, AppendFileIs, MarketFacts DEF BooksInv, DataOK
<1> QED
  BY <1>2, <1>4, RejectKeeps DEF Armed

\* A crash loses the books; what it leaves in the file are lines.
LEMMA CrashBooks ==
  ASSUME BooksInv, Crash
  PROVE  BooksInv'
<1>1. /\ pc' = "down" /\ nextSeq' = 0 /\ positions' = emptyMarketState
      /\ mirror' = emptyPortfolioState /\ portfolio' = emptyPortfolioState
      /\ order' = NoOrder /\ answer' = NoAnswer /\ mine' = 0 /\ suspect' \in BOOLEAN
      /\ broker' = broker /\ intent' = intent /\ venue' = venue
      /\ committed' = committed /\ lost' = lost
  BY DEF Crash, history, BooksInv, TypeOK
<1>2. file' \in Seq(Lines)
  <2>1. CASE file' = file
    BY <2>1 DEF BooksInv, DataOK
  <2>2. CASE pc = "append" /\ \E part \in TornParts : file' = appendFile(file, NextRecord, part)
    <3>1. PICK part \in TornParts : file' = appendFile(file, NextRecord, part)
      BY <2>2
    <3>2. NextRecord \in Records
      BY <2>2, OutcomeReconciles
    <3> QED
      BY <3>1, <3>2, AppendFileIs, MarketFacts DEF BooksInv, DataOK
  <2> QED
    BY <2>1, <2>2 DEF Crash
<1>3. late' \in SUBSET Order
  <2>1. CASE late' = late
    BY <2>1 DEF BooksInv, TypeOK
  <2>2. CASE pc = "placing" /\ late' = {order}
    BY <2>2 DEF BooksInv, FlightOK, InFlight
  <2> QED
    BY <2>1, <2>2 DEF Crash
<1>4. TypeOK'
  <2>1. emptyMarketState \in [Symbols -> Position]
    BY DEF emptyMarketState, flatPosition, Position
  <2>2. emptyPortfolioState \in [Symbols -> Exposure]
    BY DEF emptyPortfolioState, NoExposure, Exposure
  <2>3. 0 \in 0 .. Len(venue)
    BY DEF BooksInv, DataOK
  <2> QED
    BY <1>1, <1>3, <2>1, <2>2, <2>3 DEF BooksInv, TypeOK, Locations
<1>5. DataOK'
  <2>1. NoAnswer \in Answers
    BY DEF NoAnswer, Answers
  <2> QED
    BY <1>1, <1>2, <2>1 DEF BooksInv, DataOK
<1> QED
  BY <1>1, <1>4, <1>5 DEF BooksInv, FlightOK, AnswerOK, ReportOK, MirrorReconciles, InFlight

\* Every step keeps the books' invariant.
LEMMA NextBooks == BooksInv /\ [Next]_vars => BooksInv'
<1> SUFFICES ASSUME BooksInv, [Next]_vars PROVE BooksInv'
  OBVIOUS
<1>1. CASE Recover \/ Decide
  BY <1>1, RecoverBooks, DecideBooks
<1>2. CASE RecoverUnarmed
  <2>1. /\ pc' = "unarmed"
        /\ UNCHANGED <<broker, journal, adapter, intent, attempt, network, history, suspect>>
    BY <1>2 DEF RecoverUnarmed
  <2>2. TypeOK'
    BY <2>1 DEF BooksInv, TypeOK, Locations, journal, adapter, attempt, network, history
  <2>3. DataOK'
    BY <2>1 DEF BooksInv, DataOK, journal, attempt, network, history
  <2> QED
    BY <2>1, <2>2, <2>3 DEF BooksInv, FlightOK, AnswerOK, ReportOK, MirrorReconciles, InFlight
<1>3. CASE \E price \in Prices :
             NoOp(price) \/ PlacePaper(price) \/ PlaceSimulated(price) \/ PlaceReal(price)
  BY <1>3, NoOpBooks, PlaceBooks
<1>4. CASE VenueAnswers \/ AmbiguousExecuted
  BY <1>4, AnswersBooks
<1>5. CASE AmbiguousLost \/ AmbiguousDelayed
  BY <1>5, AmbiguousBooks
<1>6. CASE LateArrives \/ VenueFillsOpen \/ LookupFinds \/ LookupTrades \/ LookupUnread \/ CancelOpen
           \/ PlaceReturns
  BY <1>6, LateBooks, FillsOpenBooks, LookupBooks, TradesBooks, CancelBooks, ReturnsBooks
<1>7. CASE VenueRefuses \/ LookupEmpty \/ LookupFails \/ CancelFails \/ PlaceThrows
  <2>1. /\ Armed /\ Reject /\ suspect' \in BOOLEAN
        /\ UNCHANGED <<broker, journal, adapter, intent, network, history>>
    BY <1>7 DEF VenueRefuses, LookupEmpty, LookupFails, CancelFails, PlaceThrows, Armed, BooksInv, TypeOK
  <2>2. file' \in Seq(Lines)
    BY <2>1 DEF BooksInv, DataOK, journal
  <2> QED
    BY <2>1, <2>2, RejectKeeps DEF journal
<1>8. CASE Settle \/ AppendCommits \/ AppendRejected \/ Crash
  BY <1>8, SettleBooks, CommitBooks, RejectedBooks, CrashBooks
<1>9. CASE UNCHANGED vars
  <2>1. UNCHANGED <<pc, broker, journal, adapter, intent, attempt, network, history, suspect>>
    BY <1>9 DEF vars
  <2>2. TypeOK'
    BY <2>1 DEF BooksInv, TypeOK, journal, adapter, attempt, network, history
  <2>3. DataOK'
    BY <2>1 DEF BooksInv, DataOK, journal, attempt, network, history
  <2>4. pc = "trades" => /\ answer.at \in 1 .. Len(venue')
                         /\ answer.state = "rejected" => venue'[answer.at].state = "rejected"
    BY <2>1 DEF BooksInv, AnswerOK, network
  <2> QED
    BY <2>1, <2>2, <2>3, <2>4, QuietBooks DEF attempt
<1> QED
  BY <1>1, <1>2, <1>3, <1>4, <1>5, <1>6, <1>7, <1>8, <1>9 DEF Next

\* The books' invariant implies the property.
LEMMA BooksAgree == BooksInv => BooksReconcile
<1> SUFFICES ASSUME BooksInv PROVE BooksReconcile
  OBVIOUS
<1>1. SettleNeverBreaks
  BY OutcomeReconciles DEF SettleNeverBreaks
<1> QED
  BY <1>1 DEF BooksInv, BooksReconcile

\* For every broker, every number of symbols, any journal and venue: whenever execution
\* is armed, broker positions, the adapter's mirror and the stage's portfolio agree, and
\* no stream a broker returns is refused by the order state machine (reduceOrder) or by
\* the reconciliation (reconcile) the adapter runs before it commits.
THEOREM BooksAlwaysReconcile == Spec => []BooksReconcile
BY InitBooks, NextBooks, BooksAgree, PTL DEF Spec

-----------------------------------------------------------------------------
\* The limits: sums of exposures.

\* The exposures of a portfolio, as summands.
HeldBy(state) == [s \in Symbols |-> state[s].notional]
SumsNotionals(g, state, S) ==
  g = [s \in SUBSET S |-> IF s = {} THEN 0
         ELSE state[CHOOSE x \in s : TRUE].notional + g[s \ {CHOOSE x \in s : TRUE}]]

\* The exposures held are numbers, and the symbols finitely many.
LEMMA HeldIs ==
  ASSUME NEW state \in PortfolioStates, NEW S \in SUBSET Symbols
  PROVE  /\ IsFiniteSet(S) /\ \A x \in S : HeldBy(state)[x] \in Int /\ HeldBy(state)[x] = state[x].notional
         /\ \A x \in S : state[x].notional \in Nat
<1>1. IsFiniteSet(S)
  BY MarketAssumption, FS_Subset
<1>2. \A x \in S : state[x].notional \in Nat
  BY DEF PortfolioStates, Exposure
<1> QED
  BY <1>1, <1>2 DEF HeldBy

NotionalOf(state, S) == MapThenSumSet(LAMBDA s : state[s].notional, S)

\* A sum of exposures is the value of the recursion it unfolds to.
LEMMA NotionalsUnfold ==
  ASSUME NEW state, NEW S, NEW it, SumsNotionals(it, state, S)
  PROVE  \E g : SumsNotionals(g, state, S) /\ NotionalOf(state, S) = g[S]
BY Zenon DEF NotionalOf, MapThenSumSet, MapThenFoldSet, SumsNotionals

\* The exposures of a set of symbols add up in any order.
LEMMA NotionalSum ==
  ASSUME NEW state \in PortfolioStates, NEW S \in SUBSET Symbols
  PROVE  NotionalOf(state, S) = SumOf(HeldBy(state), S)
<1>1. /\ IsFiniteSet(S) /\ \A x \in S : HeldBy(state)[x] \in Int
      /\ \A x \in S : HeldBy(state)[x] = state[x].notional
  BY HeldIs
<1>2. PICK it \in [SUBSET S -> Int] : Summed(it, HeldBy(state), S) /\ SumOf(HeldBy(state), S) = it[S]
  BY <1>1, SumIs
<1>3. \A t \in SUBSET S : t # {} => (CHOOSE x \in t : TRUE) \in S
  OBVIOUS
<1>4. SumsNotionals(it, state, S)
  <2>1. \A t \in SUBSET S : it[t] = IF t = {} THEN 0
         ELSE state[CHOOSE x \in t : TRUE].notional + it[t \ {CHOOSE x \in t : TRUE}]
    BY <1>1, <1>2, <1>3 DEF Summed
  <2> QED
    BY <1>2, <2>1 DEF SumsNotionals
<1>5. PICK g : SumsNotionals(g, state, S) /\ NotionalOf(state, S) = g[S]
  BY <1>4, NotionalsUnfold
<1>6. Summed(g, HeldBy(state), S)
  <2>1. \A t \in SUBSET S : g[t] = IF t = {} THEN 0
         ELSE state[CHOOSE x \in t : TRUE].notional + g[t \ {CHOOSE x \in t : TRUE}]
    BY <1>5 DEF SumsNotionals
  <2> QED
    BY <1>1, <1>3, <2>1 DEF Summed
<1>7. g[S] = it[S]
  BY <1>1, <1>2, <1>6, SumAgrees
<1> QED
  BY <1>2, <1>5, <1>7

\* grossExposure and byStrategy are such sums.
LEMMA NotionalSums ==
  ASSUME NEW state \in PortfolioStates
  PROVE  /\ grossExposure(state) = SumOf(HeldBy(state), Symbols)
         /\ \A st : byStrategy(state, st) = SumOf(HeldBy(state), {s \in Symbols : state[s].strategy = st})
<1>1. Symbols \in SUBSET Symbols /\ \A st : {s \in Symbols : state[s].strategy = st} \in SUBSET Symbols
  OBVIOUS
<1> QED
  <2>1. grossExposure(state) = NotionalOf(state, Symbols)
    BY DEF grossExposure, NotionalOf
  <2>2. \A st : byStrategy(state, st) = NotionalOf(state, {s \in Symbols : state[s].strategy = st})
    BY DEF byStrategy, NotionalOf
  <2> QED
    BY <1>1, <2>1, <2>2, NotionalSum

\* The books after a result: gross moves by the change of the symbol, the strategy that
\* takes the symbol over gains it and every other one keeps or loses it.
LEMMA ResultMoves ==
  ASSUME NEW state \in PortfolioStates, NEW r \in Results
  PROVE  LET new == applyResult(state, r)
             old == state[r.symbol]
         IN /\ new \in PortfolioStates
            /\ grossExposure(state) \in Int
            /\ grossExposure(new) = grossExposure(state) - old.notional + r.notional
            /\ \A st : /\ byStrategy(state, st) \in Int
                       /\ byStrategy(new, st) = byStrategy(state, st)
                            - (IF old.strategy = st THEN old.notional ELSE 0)
                            + (IF r.strategy = st THEN r.notional ELSE 0)
<1> DEFINE new == applyResult(state, r)
           y == r.symbol
           old == state[y]
           bucket(p, st) == {s \in Symbols : p[s].strategy = st}
<1>1. new \in PortfolioStates /\ y \in Symbols /\ r.notional \in Nat
  BY ResultApplies DEF Results
<1>2. /\ new[y].notional = r.notional /\ new[y].strategy = r.strategy
      /\ \A s \in Symbols \ {y} : new[s] = state[s]
  BY <1>1 DEF applyResult, PortfolioStates
<1> HIDE DEF new
<1>3. /\ IsFiniteSet(Symbols)
      /\ \A x \in Symbols : HeldBy(state)[x] \in Int /\ HeldBy(new)[x] \in Int
      /\ \A x \in Symbols : HeldBy(state)[x] = state[x].notional /\ HeldBy(new)[x] = new[x].notional
  BY <1>1, HeldIs
<1>4. \A x \in Symbols \ {y} : HeldBy(new)[x] = HeldBy(state)[x]
  BY <1>2, <1>3
<1>5. SumOf(HeldBy(new), Symbols) = SumOf(HeldBy(state), Symbols) - old.notional + r.notional
      /\ SumOf(HeldBy(state), Symbols) \in Int
  BY <1>1, <1>2, <1>3, <1>4, SumMoves, SumFacts
<1>6. ASSUME NEW st
      PROVE  /\ SumOf(HeldBy(state), bucket(state, st)) \in Int
             /\ SumOf(HeldBy(new), bucket(new, st)) = SumOf(HeldBy(state), bucket(state, st))
                  - (IF old.strategy = st THEN old.notional ELSE 0)
                  + (IF r.strategy = st THEN r.notional ELSE 0)
  <2> DEFINE B == bucket(state, st)
             C == bucket(new, st)
             D == B \ {y}
  <2>1. /\ B \in SUBSET Symbols /\ C \in SUBSET Symbols /\ D \in SUBSET Symbols
        /\ C \ {y} = D
        /\ y \in B <=> old.strategy = st
        /\ y \in C <=> r.strategy = st
        /\ y \notin B => B = D
        /\ y \notin C => C = D
    BY <1>1, <1>2
  <2> HIDE DEF B, C, D
  <2>2. IsFiniteSet(B) /\ IsFiniteSet(C) /\ IsFiniteSet(D)
    BY <1>3, <2>1, FS_Subset
  <2>3. /\ \A x \in B : HeldBy(state)[x] \in Int
        /\ \A x \in C : HeldBy(new)[x] \in Int
        /\ \A x \in D : HeldBy(state)[x] \in Int
        /\ \A x \in D : HeldBy(new)[x] = HeldBy(state)[x]
    <3>1. \A x \in D : x \in Symbols \ {y}
      BY <2>1 DEF D
    <3> QED
      BY <1>3, <1>4, <2>1, <3>1
  <2>4. /\ SumOf(HeldBy(state), B) \in Int
        /\ y \in B => SumOf(HeldBy(state), B) = old.notional + SumOf(HeldBy(state), B \ {y})
    BY <1>1, <1>3, <2>2, <2>3, SumFacts
  <2>5. y \in C => SumOf(HeldBy(new), C) = r.notional + SumOf(HeldBy(new), C \ {y})
    <3>1. y \in C => SumOf(HeldBy(new), C) = HeldBy(new)[y] + SumOf(HeldBy(new), C \ {y})
      BY <2>2, <2>3, SumFacts
    <3>2. HeldBy(new)[y] = r.notional
      BY <1>1, <1>2, <1>3
    <3> QED
      BY <3>1, <3>2
  <2>6. SumOf(HeldBy(new), D) = SumOf(HeldBy(state), D) /\ SumOf(HeldBy(state), D) \in Int
    BY <2>2, <2>3, SumFacts
  <2>7. B \ {y} = D
    BY DEF D
  <2>8. old.notional \in Int /\ r.notional \in Int
    BY <1>1, <1>3
  <2>9. SumOf(HeldBy(state), B) = SumOf(HeldBy(state), D) + (IF old.strategy = st THEN old.notional ELSE 0)
    <3>1. CASE y \in B
      <4>1. old.strategy = st /\ SumOf(HeldBy(state), B) = old.notional + SumOf(HeldBy(state), D)
        BY <2>1, <2>4, <2>7, <3>1
      <4> QED
        BY <2>6, <2>8, <4>1
    <3>2. CASE y \notin B
      <4>1. B = D /\ ~(old.strategy = st)
        BY <2>1, <3>2
      <4> QED
        BY <2>6, <4>1
    <3> QED
      BY <3>1, <3>2
  <2>10. SumOf(HeldBy(new), C) = SumOf(HeldBy(state), D) + (IF r.strategy = st THEN r.notional ELSE 0)
    <3>1. CASE y \in C
      <4>1. r.strategy = st /\ SumOf(HeldBy(new), C) = r.notional + SumOf(HeldBy(new), D)
        BY <2>1, <2>5, <3>1
      <4> QED
        BY <2>6, <2>8, <4>1
    <3>2. CASE y \notin C
      <4>1. C = D /\ ~(r.strategy = st)
        BY <2>1, <3>2
      <4> QED
        BY <2>6, <4>1
    <3> QED
      BY <3>1, <3>2
  <2>11. SumOf(HeldBy(new), C) = SumOf(HeldBy(state), B) - (IF old.strategy = st THEN old.notional ELSE 0)
                                + (IF r.strategy = st THEN r.notional ELSE 0)
    BY <2>6, <2>8, <2>9, <2>10
  <2> QED
    BY <2>4, <2>11 DEF B, C
<1>7. /\ grossExposure(state) = SumOf(HeldBy(state), Symbols) /\ grossExposure(new) = SumOf(HeldBy(new), Symbols)
      /\ \A st : byStrategy(state, st) = SumOf(HeldBy(state), bucket(state, st))
      /\ \A st : byStrategy(new, st) = SumOf(HeldBy(new), bucket(new, st))
  BY <1>1, NotionalSums
<1> HIDE DEF bucket
<1> QED
  BY <1>1, <1>5, <1>6, <1>7 DEF new

\* The larger of two numbers is at least each.
LEMMA MaxOfTwo ==
  ASSUME NEW a \in Int, NEW b \in Int
  PROVE  Max({a, b}) \in Int /\ a <= Max({a, b}) /\ b <= Max({a, b})
<1>1. CASE a <= b
  <2>1. Max({a, b}) = b
    BY <1>1, MaxIs
  <2> QED
    BY <1>1, <2>1
<1>2. CASE ~(a <= b)
  <2>1. Max({a, b}) = a
    BY <1>2, MaxIs
  <2> QED
    BY <1>2, <2>1
<1> QED
  BY <1>1, <1>2

\* Only a journal append that succeeds commits an execution.
LEMMA CommitIsAppend ==
  ASSUME BooksInv, [Next]_vars, Commits
  PROVE  AppendCommits
BY DEF Commits, Next, vars, history, Recover, RecoverUnarmed, Decide, NoOp, PlacePaper, PlaceSimulated, PlaceReal,
       Approved, VenueAnswers, VenueRefuses, AmbiguousExecuted, AmbiguousLost, AmbiguousDelayed, LateArrives,
       VenueFillsOpen, LookupEmpty, LookupFinds, LookupTrades, LookupUnread, LookupFails, CancelOpen, CancelFails, PlaceReturns,
       PlaceThrows, Settle, AppendRejected, Crash

\* What a commit does to the position and the portfolio.
LEMMA CommitMoves ==
  ASSUME BooksInv, AppendCommits
  PROVE  /\ Between(positions[order.symbol].qty, positions'[order.symbol].qty,
                    targetQty(intent, order.price))
         /\ reduceOrder(order.qty, events).state = "FILLED"
              => positions'[order.symbol].qty = targetQty(intent, order.price)
         /\ positions'[order.symbol] \in Position
         /\ portfolio' = applyResult(portfolio, ResultFor(positions'[order.symbol]))
<1>1. pc = "append" /\ positions' = candidate /\ portfolio' = applyResult(portfolio, result)
  BY DEF AppendCommits
<1>2. PICK trades, q : Outcome(trades, q)
  BY <1>1, OutcomeIs
<1>3. intent \in Intents /\ order \in Order /\ order = deriveOrder(order.price)
  BY <1>1 DEF BooksInv, FlightOK, InFlight
<1> DEFINE old == positions[order.symbol].qty
           new == positions'[order.symbol].qty
           target == targetQty(intent, order.price)
           total == TotalQty(trades)
<1>4. /\ positions'[order.symbol] = q /\ q \in Position /\ order.symbol = intent.symbol
      /\ result = ResultFor(q) /\ Reported(order, trades, events)
      /\ q.qty = IF order.side = "BUY" THEN old + total ELSE old - total
  BY <1>1, <1>2 DEF Outcome
<1>5. trades \in Seq(Trade) /\ total <= order.qty
  BY <1>4 DEF Reported
<1>6. total \in Nat
  <2>1. Len(trades) \in 0 .. Len(trades)
    BY <1>5
  <2> QED
    BY <1>5, <2>1, CumQtyIs DEF TotalQty
<1>7. order.price \in Prices /\ order.qty \in Nat \ {0}
  BY <1>3 DEF Order
<1>8. target \in Int /\ delta(order.price) \in Int
  BY <1>3, <1>7, Derives DEF BooksInv
<1>9. /\ delta(order.price) = target - old
      /\ order.side = IF delta(order.price) >= 0 THEN "BUY" ELSE "SELL"
      /\ order.qty = Magnitude(delta(order.price))
  <2>1. /\ deriveOrder(order.price).side = IF delta(order.price) >= 0 THEN "BUY" ELSE "SELL"
        /\ deriveOrder(order.price).qty = Magnitude(delta(order.price))
    BY DEF deriveOrder
  <2> QED
    BY <1>3, <1>4, <2>1 DEF delta
<1>10. old \in Int
  <2>1. positions[order.symbol] \in Position
    BY <1>3 DEF BooksInv, TypeOK, Order
  <2> QED
    BY <2>1 DEF Position
<1>11. reduceOrder(order.qty, events).state = "FILLED" => total = order.qty
  BY <1>4, <1>7, ReportedIs
<1>12. new = q.qty
  BY <1>4
<1>13. CASE delta(order.price) >= 0
  <2>1. order.side = "BUY" /\ order.qty = target - old /\ new = old + total
    BY <1>4, <1>8, <1>9, <1>10, <1>12, <1>13 DEF Magnitude
  <2>2. Between(old, new, target) /\ (total = order.qty => new = target)
    <3> HIDE DEF old, new, target, total
    <3> QED
      BY <1>5, <1>6, <1>8, <1>10, <2>1 DEF Between
  <2> QED
    BY <1>1, <1>4, <1>11, <2>2
<1>14. CASE ~(delta(order.price) >= 0)
  <2>1. order.side # "BUY" /\ order.qty = old - target /\ new = old - total
    BY <1>4, <1>8, <1>9, <1>10, <1>12, <1>14 DEF Magnitude
  <2>2. Between(old, new, target) /\ (total = order.qty => new = target)
    <3> HIDE DEF old, new, target, total
    <3> QED
      BY <1>5, <1>6, <1>8, <1>10, <2>1 DEF Between
  <2> QED
    BY <1>1, <1>4, <1>11, <2>2
<1> QED
  BY <1>13, <1>14

\* A position at the target, marked at the price it was sized on, has the notional of
\* the intent.
LEMMA TargetNotional ==
  ASSUME NEW i \in Intents, NEW p \in Prices, NEW q \in Position,
         q.qty = targetQty(i, p), q.mark = p
  PROVE  positionNotional(q) = i.notional
<1>1. i.notional \in Notionals /\ i.notional \in Nat /\ p \in Nat \ {0} /\ i.notional % p = 0
  BY MarketAssumption DEF Intents
<1>2. (i.notional \div p) \in Nat /\ (i.notional \div p) * p = i.notional
  BY <1>1
<1>3. Magnitude(q.qty) = i.notional \div p
  BY <1>2 DEF targetQty, Magnitude
<1> QED
  BY <1>2, <1>3 DEF positionNotional

\* An order filled in full at the price it was sized on leaves the exposure the gate
\* added when it checked the limits.
LEMMA FullFillKeepsLimits ==
  ASSUME BooksInv, AppendCommits, reduceOrder(order.qty, events).state = "FILLED",
         positions'[order.symbol].mark = order.price
  PROVE  /\ grossExposure(portfolio') <= MaxPortfolio
         /\ \A strategy \in Strategies :
              byStrategy(portfolio', strategy) <= Max({MaxStrategy, byStrategy(portfolio, strategy)})
<1> DEFINE q == positions'[order.symbol]
           r == ResultFor(q)
           y == intent.symbol
           old == portfolio[y]
<1>1. pc = "append" /\ intent \in Intents /\ order \in Order /\ evaluateRisk(portfolio, intent)
  BY DEF AppendCommits, BooksInv, FlightOK, InFlight
<1>2. q \in Position /\ q.qty = targetQty(intent, order.price) /\ portfolio' = applyResult(portfolio, r)
  BY CommitMoves
<1> HIDE DEF q
<1>3. positionNotional(q) = intent.notional
  <2>1. order.price \in Prices
    BY <1>1 DEF Order
  <2> QED
    BY <1>1, <1>2, <2>1, TargetNotional DEF q
<1>4. r \in Results /\ r.symbol = y /\ r.notional = intent.notional /\ r.strategy = intent.strategy
  BY <1>1, <1>2, <1>3, ResultsAre
<1> HIDE DEF r
<1>5. portfolio \in PortfolioStates
  BY DEF BooksInv, TypeOK, PortfolioStates
<1>6. /\ grossExposure(portfolio) \in Int
      /\ grossExposure(portfolio') = grossExposure(portfolio) - old.notional + r.notional
      /\ \A st : /\ byStrategy(portfolio, st) \in Int
                 /\ byStrategy(portfolio', st) = byStrategy(portfolio, st)
                      - (IF old.strategy = st THEN old.notional ELSE 0)
                      + (IF r.strategy = st THEN r.notional ELSE 0)
  BY <1>2, <1>4, <1>5, ResultMoves
<1>7. old.notional \in Nat /\ intent.notional \in Nat /\ MaxStrategy \in Int
  <2>1. y \in Symbols /\ intent.notional \in Nat
    BY <1>1, MarketFacts DEF Intents
  <2> QED
    BY <1>5, <2>1, MarketAssumption DEF PortfolioStates, Exposure
<1>8. /\ grossExposure(portfolio) - old.notional + intent.notional <= MaxPortfolio
      /\ byStrategy(portfolio, intent.strategy) + intent.notional
           - (IF old.strategy = intent.strategy THEN old.notional ELSE 0) <= MaxStrategy
  BY <1>1 DEF evaluateRisk, projectExposure
<1>9. grossExposure(portfolio') <= MaxPortfolio
  BY <1>4, <1>6, <1>8
<1>10. ASSUME NEW st \in Strategies
       PROVE  byStrategy(portfolio', st) <= Max({MaxStrategy, byStrategy(portfolio, st)})
  <2> DEFINE before == byStrategy(portfolio, st)
             after == byStrategy(portfolio', st)
             top == Max({MaxStrategy, before})
             mine1 == IF old.strategy = st THEN old.notional ELSE 0
  <2>1. /\ before \in Int /\ mine1 \in Nat
        /\ after = before - mine1 + (IF r.strategy = st THEN r.notional ELSE 0)
    BY <1>6, <1>7
  <2>2. top \in Int /\ MaxStrategy <= top /\ before <= top
    BY <1>7, <2>1, MaxOfTwo
  <2>3. CASE st = intent.strategy
    <3>1. before + intent.notional - mine1 <= MaxStrategy
      BY <1>8, <2>3
    <3>2. after = before - mine1 + intent.notional
      BY <1>4, <2>1, <2>3
    <3> HIDE DEF before, after, top, mine1
    <3>3. after <= top
      BY <1>7, <2>1, <2>2, <3>1, <3>2
    <3> QED
      BY <3>3 DEF after, top, before
  <2>4. CASE st # intent.strategy
    <3>1. after = before - mine1 + 0
      BY <1>4, <2>1, <2>4
    <3> HIDE DEF before, after, top, mine1
    <3>2. after <= top
      BY <2>1, <2>2, <3>1
    <3> QED
      BY <3>2 DEF after, top, before
  <2> QED
    BY <2>3, <2>4
<1> QED
  BY <1>9, <1>10

\* For every broker and any limits: an execution never takes a position past the target
\* of the approved intent, and one filled in full at its quote leaves the portfolio
\* within the limits evaluateRisk checked before the order went out, also for a strategy
\* that loses the symbol to another.
THEOREM StaysWithinApproval == Spec => WithinApproval
<1>1. BooksInv /\ [Next]_vars =>
        [Commits => Between(positions[order.symbol].qty, positions'[order.symbol].qty,
                            targetQty(intent, order.price))]_vars
  BY CommitIsAppend, CommitMoves
<1>2. BooksInv /\ [Next]_vars =>
        [Commits /\ reduceOrder(order.qty, events).state = "FILLED"
                 /\ positions'[order.symbol].mark = order.price
         => /\ grossExposure(portfolio') <= MaxPortfolio
            /\ \A strategy \in Strategies :
                 byStrategy(portfolio', strategy) <=
                   Max({MaxStrategy, byStrategy(portfolio, strategy)})]_vars
  BY CommitIsAppend, FullFillKeepsLimits
<1>3. Spec => NeverOvershoots
  BY <1>1, InitBooks, NextBooks, PTL DEF Spec, NeverOvershoots
<1>4. Spec => FullFillWithinLimits
  BY <1>2, InitBooks, NextBooks, PTL DEF Spec, FullFillWithinLimits
<1> QED
  BY <1>3, <1>4, PTL DEF WithinApproval

-----------------------------------------------------------------------------
\* The venue: what its orders add up to.

\* What each order of the venue moved, and the orders of a symbol.
Moves(v)  == [i \in 1 .. Len(v) |-> Signed(v[i].order, v[i].trades)]
Of(v, s)  == {i \in DOMAIN v : v[i].order.symbol = s}
NetOf(v, s) == MapThenSumSet(LAMBDA i : Signed(v[i].order, v[i].trades), Of(v, s))
SumsMoves(g, v, S) ==
  g = [s \in SUBSET S |-> IF s = {} THEN 0
         ELSE Signed(v[CHOOSE x \in s : TRUE].order, v[CHOOSE x \in s : TRUE].trades)
              + g[s \ {CHOOSE x \in s : TRUE}]]

\* What the venue's orders add up to is the value of the recursion it unfolds to.
LEMMA MovesUnfold ==
  ASSUME NEW v, NEW s, NEW it, SumsMoves(it, v, Of(v, s))
  PROVE  \E g : SumsMoves(g, v, Of(v, s)) /\ NetOf(v, s) = g[Of(v, s)]
BY Zenon DEF NetOf, MapThenSumSet, MapThenFoldSet, SumsMoves

\* Trades add up to a number.
LEMMA TotalIs ==
  ASSUME NEW trades \in Seq(Trade)
  PROVE  TotalQty(trades) \in Nat
<1>1. Len(trades) \in 0 .. Len(trades)
  OBVIOUS
<1> QED
  BY <1>1, CumQtyIs DEF TotalQty

\* An order moves the venue's position by an integer.
LEMMA SignedIs ==
  ASSUME NEW x \in VenueOrders
  PROVE  Signed(x.order, x.trades) \in Int
<1>1. TotalQty(x.trades) \in Nat
  BY TotalIs DEF VenueOrders
<1> QED
  BY <1>1 DEF Signed

\* The venue's orders are finitely many, each with its move.
LEMMA MovesAre ==
  ASSUME NEW v \in Seq(VenueOrders), NEW s
  PROVE  /\ IsFiniteSet(Of(v, s)) /\ Of(v, s) \in SUBSET (1 .. Len(v)) /\ Len(v) \in Nat
         /\ \A i \in 1 .. Len(v) : v[i] \in VenueOrders
         /\ \A i \in 1 .. Len(v) : Moves(v)[i] = Signed(v[i].order, v[i].trades)
         /\ \A i \in 1 .. Len(v) : Moves(v)[i] \in Int
         /\ \A i \in Of(v, s) : Moves(v)[i] \in Int
<1>1. Len(v) \in Nat /\ DOMAIN v = 1 .. Len(v) /\ \A i \in 1 .. Len(v) : v[i] \in VenueOrders
  OBVIOUS
<1>2. Of(v, s) \in SUBSET (1 .. Len(v))
  BY <1>1 DEF Of
<1>3. IsFiniteSet(Of(v, s))
  <2>1. 0 \in Int /\ 1 \in Int /\ Len(v) \in Int
    BY <1>1
  <2>2. IsFiniteSet(1 .. Len(v))
    BY <2>1, FS_Interval
  <2> QED
    BY <1>2, <2>2, FS_Subset
<1>4. \A i \in 1 .. Len(v) : Moves(v)[i] = Signed(v[i].order, v[i].trades)
  BY DEF Moves
<1> QED
  BY <1>1, <1>2, <1>3, <1>4, SignedIs

\* The venue's position in a symbol is the sum of the moves of its orders.
LEMMA NetIs ==
  ASSUME NEW v \in Seq(VenueOrders), NEW s
  PROVE  NetOf(v, s) = SumOf(Moves(v), Of(v, s)) /\ NetOf(v, s) \in Int
<1> DEFINE S == Of(v, s)
<1>1. /\ IsFiniteSet(S) /\ S \in SUBSET (1 .. Len(v))
      /\ \A i \in S : Moves(v)[i] \in Int
      /\ \A i \in S : Moves(v)[i] = Signed(v[i].order, v[i].trades)
  BY MovesAre
<1> HIDE DEF S
<1>2. PICK it \in [SUBSET S -> Int] : Summed(it, Moves(v), S) /\ SumOf(Moves(v), S) = it[S]
  BY <1>1, SumIs
<1>3. \A t \in SUBSET S : t # {} => (CHOOSE x \in t : TRUE) \in S
  OBVIOUS
<1>4. SumsMoves(it, v, S)
  <2>1. \A t \in SUBSET S : it[t] = IF t = {} THEN 0
         ELSE Signed(v[CHOOSE x \in t : TRUE].order, v[CHOOSE x \in t : TRUE].trades)
              + it[t \ {CHOOSE x \in t : TRUE}]
    BY <1>1, <1>2, <1>3 DEF Summed
  <2> QED
    BY <1>2, <2>1 DEF SumsMoves
<1>5. PICK g : SumsMoves(g, v, S) /\ NetOf(v, s) = g[S]
  BY <1>4, MovesUnfold DEF S
<1>6. Summed(g, Moves(v), S)
  <2>1. \A t \in SUBSET S : g[t] = IF t = {} THEN 0
         ELSE Signed(v[CHOOSE x \in t : TRUE].order, v[CHOOSE x \in t : TRUE].trades)
              + g[t \ {CHOOSE x \in t : TRUE}]
    BY <1>5 DEF SumsMoves
  <2> QED
    BY <1>1, <1>3, <2>1 DEF Summed
<1>7. g[S] = it[S]
  BY <1>1, <1>2, <1>6, SumAgrees
<1>8. it[S] \in Int
  BY <1>2
<1> QED
  BY <1>2, <1>5, <1>7, <1>8 DEF S

\* One more order at the venue.
LEMMA NetGrows ==
  ASSUME NEW v \in Seq(VenueOrders), NEW x \in VenueOrders, NEW s
  PROVE  NetOf(Append(v, x), s)
           = NetOf(v, s) + (IF x.order.symbol = s THEN Signed(x.order, x.trades) ELSE 0)
<1> DEFINE w == Append(v, x)
           n == Len(v) + 1
<1>1. /\ w \in Seq(VenueOrders) /\ Len(w) = n /\ Len(v) \in Nat /\ w[n] = x
      /\ \A i \in 1 .. Len(v) : w[i] = v[i]
      /\ DOMAIN w = 1 .. n /\ DOMAIN v = 1 .. Len(v)
  OBVIOUS
<1> HIDE DEF w
<1>2. /\ n \notin Of(v, s)
      /\ Of(w, s) \ {n} = Of(v, s)
      /\ n \in Of(w, s) <=> x.order.symbol = s
  <2>1. \A i : i \in 1 .. n <=> i \in 1 .. Len(v) \/ i = n
    BY <1>1
  <2>2. n \notin 1 .. Len(v)
    BY <1>1
  <2> HIDE DEF n
  <2> QED
    BY <1>1, <2>1, <2>2 DEF Of
<1>3. /\ IsFiniteSet(Of(v, s)) /\ IsFiniteSet(Of(w, s)) /\ Of(v, s) \in SUBSET (1 .. Len(v))
      /\ \A i \in Of(v, s) : Moves(v)[i] \in Int
      /\ \A i \in Of(w, s) : Moves(w)[i] \in Int
  BY <1>1, MovesAre
<1>4. \A i \in Of(v, s) : Moves(w)[i] = Moves(v)[i]
  <2>1. \A i \in Of(v, s) : i \in 1 .. Len(v) /\ i \in 1 .. n
    BY <1>1, <1>3
  <2> QED
    BY <1>1, <2>1, MovesAre
<1>5. Moves(w)[n] = Signed(x.order, x.trades)
  <2>1. n \in 1 .. n
    BY <1>1
  <2> QED
    BY <1>1, <2>1, MovesAre
<1>6. SumOf(Moves(w), Of(v, s)) = SumOf(Moves(v), Of(v, s)) /\ SumOf(Moves(v), Of(v, s)) \in Int
  BY <1>3, <1>4, SumFacts
<1>7. NetOf(v, s) = SumOf(Moves(v), Of(v, s)) /\ NetOf(w, s) = SumOf(Moves(w), Of(w, s))
  BY <1>1, NetIs
<1> HIDE DEF n
<1>8. CASE n \in Of(w, s)
  <2>1. SumOf(Moves(w), Of(w, s)) = Moves(w)[n] + SumOf(Moves(w), Of(w, s) \ {n})
    BY <1>3, <1>8, SumFacts
  <2>2. x.order.symbol = s /\ NetOf(w, s) = Signed(x.order, x.trades) + NetOf(v, s) /\ NetOf(v, s) \in Int
    BY <1>2, <1>5, <1>6, <1>7, <1>8, <2>1
  <2> QED
    BY <2>2, SignedIs DEF w
<1>9. CASE n \notin Of(w, s)
  <2>1. Of(w, s) = Of(v, s) /\ ~(x.order.symbol = s)
    BY <1>2, <1>9
  <2>2. NetOf(w, s) = NetOf(v, s) /\ NetOf(v, s) \in Int
    BY <1>6, <1>7, <2>1
  <2> QED
    BY <2>1, <2>2 DEF w
<1> QED
  BY <1>8, <1>9

\* One order of the venue goes on.
Touched(v, k, x, w) ==
  /\ v \in Seq(VenueOrders) /\ k \in 1 .. Len(v) /\ x \in VenueOrders
  /\ x.order = v[k].order /\ w = [v EXCEPT ![k] = x]

\* An order that executes further moves the venue's position by the difference.
LEMMA NetChanges ==
  ASSUME NEW v, NEW k, NEW x, NEW w, Touched(v, k, x, w), NEW s
  PROVE  NetOf(w, s) = NetOf(v, s) - (IF x.order.symbol = s THEN Signed(v[k].order, v[k].trades)
                                      ELSE 0)
                                   + (IF x.order.symbol = s THEN Signed(x.order, x.trades) ELSE 0)
<1>0. /\ v \in Seq(VenueOrders) /\ k \in 1 .. Len(v) /\ x \in VenueOrders
      /\ x.order = v[k].order /\ w = [v EXCEPT ![k] = x]
  BY DEF Touched
<1>1. /\ w \in Seq(VenueOrders) /\ Len(w) = Len(v) /\ Len(v) \in Nat /\ w[k] = x
      /\ \A i \in 1 .. Len(v) : i # k => w[i] = v[i]
      /\ DOMAIN w = 1 .. Len(v) /\ DOMAIN v = 1 .. Len(v)
  BY <1>0
<1>2. Of(w, s) = Of(v, s) /\ (k \in Of(v, s) <=> x.order.symbol = s)
  <2>1. \A i \in 1 .. Len(v) : w[i].order = v[i].order
    BY <1>0, <1>1
  <2> QED
    BY <1>0, <1>1, <2>1 DEF Of
<1>3. /\ IsFiniteSet(Of(v, s)) /\ Of(v, s) \in SUBSET (1 .. Len(v))
      /\ \A i \in Of(v, s) : Moves(v)[i] \in Int
      /\ \A i \in 1 .. Len(v) : Moves(v)[i] = Signed(v[i].order, v[i].trades)
      /\ \A i \in 1 .. Len(v) : Moves(w)[i] = Signed(w[i].order, w[i].trades) /\ Moves(w)[i] \in Int
  BY <1>0, <1>1, MovesAre
<1>4. \A i \in Of(v, s) \ {k} : Moves(w)[i] = Moves(v)[i]
  BY <1>0, <1>1, <1>3
<1>5. NetOf(v, s) = SumOf(Moves(v), Of(v, s)) /\ NetOf(w, s) = SumOf(Moves(w), Of(v, s)) /\ NetOf(v, s) \in Int
  BY <1>0, <1>1, <1>2, NetIs
<1>6. Moves(v)[k] = Signed(v[k].order, v[k].trades) /\ Moves(w)[k] = Signed(x.order, x.trades) /\ Moves(w)[k] \in Int
  BY <1>0, <1>1, <1>3
<1>7. CASE k \in Of(v, s)
  <2>1. SumOf(Moves(w), Of(v, s)) = SumOf(Moves(v), Of(v, s)) - Moves(v)[k] + Moves(w)[k]
    <3> DEFINE T == Of(v, s)
               f == Moves(v)
               g == Moves(w)
    <3>1. /\ IsFiniteSet(T) /\ k \in T /\ \A i \in T : f[i] \in Int
          /\ \A i \in T \ {k} : g[i] = f[i]
          /\ g[k] \in Int
      BY <1>3, <1>4, <1>6, <1>7
    <3> HIDE DEF T, f, g
    <3>2. SumOf(g, T) = SumOf(f, T) - f[k] + g[k]
      <4> DEFINE R == T \ {k}
      <4>1. IsFiniteSet(R) /\ R \in SUBSET T
        BY <3>1, FS_Subset
      <4>2. \A i \in T : g[i] \in Int
        BY <3>1
      <4>3. SumOf(f, T) = f[k] + SumOf(f, R) /\ SumOf(g, T) = g[k] + SumOf(g, R)
        BY <3>1, <4>2, SumFacts
      <4>4. \A i \in R : f[i] \in Int /\ g[i] = f[i]
        BY <3>1
      <4> HIDE DEF R
      <4>5. SumOf(g, R) = SumOf(f, R) /\ SumOf(f, R) \in Int
        BY <4>1, <4>4, SumFacts
      <4> QED
        BY <3>1, <4>3, <4>5
    <3> QED
      BY <3>2 DEF T, f, g
  <2> QED
    BY <1>2, <1>5, <1>6, <1>7, <2>1
<1>8. CASE k \notin Of(v, s)
  <2>1. \A i \in Of(v, s) : Moves(w)[i] = Moves(v)[i]
    BY <1>4, <1>8
  <2>2. SumOf(Moves(w), Of(v, s)) = SumOf(Moves(v), Of(v, s))
    BY <1>3, <2>1, SumFacts
  <2>3. ~(x.order.symbol = s)
    BY <1>2, <1>8
  <2> QED
    BY <1>5, <2>2, <2>3
<1> QED
  BY <1>7, <1>8

-----------------------------------------------------------------------------
\* The process and the venue.

\* A running process holds what its committed executions add up to.
Rebuilt ==
  Armed => nextSeq = Len(committed) /\ positions = reconstructMarketState(committed)

\* As long as nothing is suspect, an intact journal holds no more than was committed.
Flushed == Armed /\ ~suspect /\ Intact(file) => Len(committed) = Len(file)

\* What the venue has traded for the order in flight and the process has not booked.
Outstanding(s) ==
  IF mine # 0 /\ s = order.symbol THEN Signed(order, venue[mine].trades) ELSE 0

\* The process knows which order of the venue is its own.
RequestOK ==
  broker = "real" /\ ~suspect =>
    /\ mine # 0 => pc \in {"lookup", "trades", "answered", "placed", "append"} /\ venue[mine].order = order
    /\ pc = "trades" => mine # 0 /\ answer.at = mine /\ answer.trades = <<>>
    /\ pc \in {"answered", "placed", "append"} =>
         mine # 0 /\ answer.at = mine /\ answer.trades = venue[mine].trades

\* Booked and outstanding quantities add up to what the venue holds.
NetOK ==
  broker = "real" /\ ~suspect /\ Armed =>
    \A s \in Symbols : positions[s].qty + Outstanding(s) = NetOf(venue, s)

\* So does what a stopped process would recover.
DownOK ==
  broker = "real" /\ ~suspect /\ ~Armed /\ readAllSucceeds(file)
    /\ Len(readAll(file)) >= Len(committed)
  => \A s \in Symbols : reconstructMarketState(readAll(file))[s].qty = NetOf(venue, s)

VenueOK == Rebuilt /\ Flushed /\ RequestOK /\ NetOK /\ DownOK

-----------------------------------------------------------------------------
\* The types the venue's lemmas use.
LEMMA BooksTypes ==
  ASSUME BooksInv
  PROVE  /\ venue \in Seq(VenueOrders) /\ mine \in 0 .. Len(venue) /\ Len(venue) \in Nat
         /\ committed \in Seq(Records) /\ file \in Seq(Lines) /\ nextSeq \in Nat
         /\ \A s \in Symbols : positions[s] \in Position /\ positions[s].qty \in Int
         /\ answer \in Answers
<1>1. \A s \in Symbols : positions[s] \in Position
  BY DEF BooksInv, TypeOK
<1> QED
  BY <1>1 DEF BooksInv, TypeOK, DataOK, Position

\* Once suspect, only what recovery rebuilds is promised.
LEMMA SuspectVenue ==
  ASSUME suspect', Rebuilt'
  PROVE  VenueOK'
BY DEF VenueOK, Flushed, RequestOK, NetOK, DownOK

\* A running process goes on and books nothing.
LEMMA BooksStay ==
  ASSUME VenueOK, Armed, UNCHANGED <<file, nextSeq, positions, committed>>,
         ~suspect' => ~suspect
  PROVE  Rebuilt' /\ Flushed'
BY DEF VenueOK, Rebuilt, Flushed, Armed, Intact, Sound

\* A step that leaves the request and the venue alone keeps the agreement.
LEMMA VenueQuiet ==
  ASSUME VenueOK, UNCHANGED <<pc, broker, file, nextSeq, positions, order, answer, venue, mine, committed, suspect>>
  PROVE  VenueOK'
<1>1. Armed' = Armed
  BY DEF Armed
<1>2. Rebuilt' /\ Flushed'
  BY <1>1 DEF VenueOK, Rebuilt, Flushed, Intact, Sound
<1>3. RequestOK'
  BY DEF VenueOK, RequestOK
<1>4. \A s : Outstanding(s)' = Outstanding(s)
  BY DEF Outstanding
<1>5. NetOK'
  BY <1>1, <1>4 DEF VenueOK, NetOK
<1>6. DownOK'
  BY <1>1 DEF VenueOK, DownOK
<1> QED
  BY <1>2, <1>3, <1>5, <1>6 DEF VenueOK

\* An idle process that goes on without an order of the venue.
LEMMA VenueIdle ==
  ASSUME VenueOK, BooksInv, pc \in {"idle", "placing"}, pc' \in {"idle", "placing", "lookup"},
         UNCHANGED <<broker, file, nextSeq, positions, venue, mine, committed, suspect>>
  PROVE  VenueOK'
<1>1. Rebuilt' /\ Flushed'
  BY BooksStay DEF Armed
<1>2. broker = "real" /\ ~suspect => mine = 0
  BY DEF VenueOK, RequestOK
<1>3. RequestOK'
  BY <1>2 DEF RequestOK
<1>4. NetOK'
  BY <1>2 DEF VenueOK, NetOK, Outstanding, Armed
<1>5. DownOK'
  BY DEF DownOK, Armed
<1> QED
  BY <1>1, <1>3, <1>4, <1>5 DEF VenueOK

\* An order ends without a fill the process has to book.
LEMMA VenueReturns ==
  ASSUME VenueOK, BooksInv, Armed, Reject,
         UNCHANGED <<broker, file, nextSeq, positions, venue, committed>>,
         broker = "real" /\ ~suspect' => ~suspect /\ \A s \in Symbols : Outstanding(s) = 0,
         ~suspect' => ~suspect
  PROVE  VenueOK'
<1>1. pc' = "idle" /\ mine' = 0
  BY DEF Reject
<1>2. Rebuilt' /\ Flushed'
  BY BooksStay
<1>3. RequestOK' /\ DownOK'
  BY <1>1 DEF RequestOK, DownOK, Armed
<1>4. NetOK'
  BY <1>1 DEF VenueOK, NetOK, Outstanding
<1> QED
  BY <1>2, <1>3, <1>4 DEF VenueOK

\* The venue executes the order in flight.
LEMMA VenueExecutes ==
  ASSUME VenueOK, BooksInv, Armed, broker = "real", ~suspect, mine = 0, order \in Order,
         NEW x \in Executions(order), venue' = Append(venue, x), mine' = Len(venue) + 1,
         UNCHANGED <<positions, order>>
  PROVE  /\ venue'[mine'] = x /\ x.order = order /\ mine' # 0
         /\ \A s \in Symbols : positions'[s].qty + Outstanding(s)' = NetOf(venue', s)
<1>1. x \in VenueOrders /\ x.order = order
  BY ExecutionsAre
<1>2. venue \in Seq(VenueOrders) /\ Len(venue) \in Nat
  BY BooksTypes
<1>3. venue'[mine'] = x /\ mine' # 0
  BY <1>1, <1>2
<1>4. ASSUME NEW s \in Symbols
      PROVE  positions'[s].qty + Outstanding(s)' = NetOf(venue', s)
  <2>1. NetOf(venue', s) = NetOf(venue, s) + (IF x.order.symbol = s THEN Signed(x.order, x.trades)
                                              ELSE 0)
    BY <1>1, <1>2, NetGrows
  <2>2. Outstanding(s)' = IF x.order.symbol = s THEN Signed(x.order, x.trades) ELSE 0
    BY <1>1, <1>3 DEF Outstanding
  <2>3. positions[s].qty + 0 = NetOf(venue, s) /\ positions[s].qty \in Int
    BY BooksTypes DEF VenueOK, NetOK, Outstanding
  <2>4. Signed(x.order, x.trades) \in Int
    BY <1>1, SignedIs
  <2> QED
    BY <2>1, <2>2, <2>3, <2>4
<1> QED
  BY <1>1, <1>3, <1>4

\* Process and venue agree before the first order.
LEMMA VenueStart == Init => VenueOK
<1> SUFFICES ASSUME Init PROVE VenueOK
  OBVIOUS
<1>1. pc = "down" /\ file = <<>> /\ venue = <<>> /\ mine = 0
  BY DEF Init
<1>2. \A s : NetOf(venue, s) = 0
  <2>1. venue \in Seq(VenueOrders) /\ \A s : Of(venue, s) = {}
    BY <1>1 DEF Of
  <2>2. IsFiniteSet({})
    BY FS_EmptySet
  <2> QED
    BY <2>1, <2>2, NetIs, SumFacts
<1>3. readAll(file) = <<>>
  <2>1. IsSequence(file) /\ Intact(file) /\ Len(file) = 0
    BY <1>1 DEF IsSequence, Entries, Intact
  <2>2. IsSequence(readAll(file)) /\ Len(readAll(file)) = 0
    BY <2>1, ReadIntact
  <2> QED
    BY <2>2 DEF IsSequence
<1>4. reconstructMarketState(<<>>) = emptyMarketState
  <2>1. <<>> \in Seq(Records) /\ Len(<<>>) = 0
    OBVIOUS
  <2>2. PICK c : /\ IsRun(c, 0, MarketStates, emptyMarketState, MarketSteps(<<>>))
                 /\ reconstructMarketState(<<>>) = c[0]
    BY <2>1, MarketRuns
  <2> QED
    BY <2>2 DEF IsRun
<1>5. \A s \in Symbols : emptyMarketState[s].qty = 0
  BY DEF emptyMarketState, flatPosition
<1> QED
  BY <1>1, <1>2, <1>3, <1>4, <1>5 DEF VenueOK, Rebuilt, Flushed, RequestOK, NetOK, DownOK, Armed

\* A restart rebuilds the positions the venue holds, unless records are missing.
LEMMA RecoverVenue ==
  ASSUME VenueOK, BooksInv, JournalInv, Recover
  PROVE  VenueOK'
<1>1. /\ pc = "down" /\ readAllSucceeds(file) /\ pc' = "idle"
      /\ nextSeq' = Len(readAll(file)) /\ committed' = readAll(file)
      /\ positions' = reconstructMarketState(readAll(file))
      /\ suspect' = (suspect \/ Len(readAll(file)) < Len(committed))
      /\ broker' = broker /\ file' = file /\ order' = order /\ venue' = venue /\ mine' = mine
  BY DEF Recover, recoverable, attempt, network
<1>2. Rebuilt'
  BY <1>1 DEF Rebuilt
<1>3. Flushed'
  <2>1. IsSequence(file)
    BY DEF JournalInv, Ledger
  <2>2. Intact(file) => Len(readAll(file)) = Len(file)
    BY <2>1, ReadIntact
  <2>3. Intact(file)' => Intact(file)
    BY <1>1 DEF Intact, Sound
  <2> QED
    BY <1>1, <2>2, <2>3 DEF Flushed
<1>4. ASSUME ~suspect' PROVE ~suspect /\ Len(readAll(file)) >= Len(committed)
  <2>1. ~suspect /\ ~(Len(readAll(file)) < Len(committed))
    BY <1>1, <1>4
  <2>2. readAll(file) \in Seq(Records) /\ committed \in Seq(Records)
    BY <1>1, ReadAllIs, BooksTypes
  <2>3. Len(readAll(file)) \in Nat /\ Len(committed) \in Nat
    BY <2>2
  <2> QED
    BY <2>1, <2>3
<1>5. broker = "real" /\ ~suspect => mine = 0
  BY <1>1 DEF VenueOK, RequestOK
<1>6. RequestOK'
  BY <1>1, <1>4, <1>5 DEF RequestOK
<1>7. NetOK'
  <2> SUFFICES ASSUME broker = "real", ~suspect', NEW s \in Symbols
               PROVE  positions'[s].qty + Outstanding(s)' = NetOf(venue', s)
    BY <1>1 DEF NetOK
  <2>1. positions'[s].qty = NetOf(venue', s)
    BY <1>1, <1>4 DEF VenueOK, DownOK, Armed
  <2>2. Outstanding(s)' = 0
    BY <1>1, <1>4, <1>5 DEF Outstanding
  <2>3. NetOf(venue, s) \in Int
    BY BooksTypes, NetIs
  <2> QED
    BY <1>1, <2>1, <2>2, <2>3
<1>8. DownOK'
  BY <1>1 DEF DownOK, Armed
<1> QED
  BY <1>2, <1>3, <1>6, <1>7, <1>8 DEF VenueOK

\* A start that finds an unreadable journal arms nothing.
LEMMA UnarmedVenue ==
  ASSUME VenueOK, RecoverUnarmed
  PROVE  VenueOK'
<1>1. /\ pc = "down" /\ pc' = "unarmed"
      /\ UNCHANGED <<broker, file, nextSeq, positions, order, answer, venue, mine, committed, suspect>>
  BY DEF RecoverUnarmed, journal, adapter, attempt, network, history
<1>2. ~Armed /\ ~Armed'
  BY <1>1 DEF Armed
<1> QED
  BY <1>1, <1>2 DEF VenueOK, Rebuilt, Flushed, RequestOK, NetOK, DownOK

\* Sizing and sending an order has no effect at the venue yet.
LEMMA OrdersVenue ==
  ASSUME VenueOK, BooksInv, Decide \/ (\E price \in Prices :
           NoOp(price) \/ PlacePaper(price) \/ PlaceSimulated(price) \/ PlaceReal(price))
  PROVE  VenueOK'
<1>1. /\ pc = "idle" /\ UNCHANGED <<broker, file, nextSeq, positions, venue, mine, committed, suspect>>
  BY DEF Decide, NoOp, PlacePaper, PlaceSimulated, PlaceReal, Approved, journal, adapter, attempt,
         network, history
<1>2. CASE pc' \in {"idle", "placing"}
  BY <1>1, <1>2, VenueIdle
<1>3. CASE pc' = "placed" /\ broker # "real"
  <2>1. Rebuilt' /\ Flushed'
    BY <1>1, BooksStay DEF Armed
  <2> QED
    BY <1>1, <1>3, <2>1 DEF VenueOK, RequestOK, NetOK, DownOK
<1> QED
  BY <1>1, <1>2, <1>3 DEF Decide, NoOp, PlacePaper, PlaceSimulated, PlaceReal

\* An executed order is outstanding until it is committed.
LEMMA AnswersVenue ==
  ASSUME VenueOK, BooksInv, VenueAnswers \/ AmbiguousExecuted
  PROVE  VenueOK'
<1>1. /\ pc = "placing" /\ pc' \in {"answered", "lookup"} /\ mine' = Len(venue) + 1
      /\ UNCHANGED <<broker, file, nextSeq, positions, order, committed, suspect>>
  BY DEF VenueAnswers, AmbiguousExecuted, journal, adapter, history
<1>2. PICK x \in Executions(order) :
        /\ venue' = Append(venue, x)
        /\ pc' = "answered" => answer' = AnswerOf(x, Len(venue) + 1)
  BY DEF VenueAnswers, AmbiguousExecuted
<1>3. order \in Order
  BY <1>1 DEF BooksInv, FlightOK, InFlight
<1>4. Rebuilt' /\ Flushed'
  BY <1>1, BooksStay DEF Armed
<1>5. ASSUME broker = "real", ~suspect
      PROVE  /\ venue'[mine'] = x /\ x.order = order /\ mine' # 0
             /\ \A s \in Symbols : positions'[s].qty + Outstanding(s)' = NetOf(venue', s)
  <2>1. mine = 0 /\ Armed
    BY <1>1, <1>5 DEF VenueOK, RequestOK, Armed
  <2> QED
    BY <1>1, <1>2, <1>3, <1>5, <2>1, VenueExecutes
<1>6. RequestOK'
  BY <1>1, <1>2, <1>5 DEF RequestOK, AnswerOf
<1>7. NetOK'
  BY <1>1, <1>5 DEF NetOK
<1>8. DownOK'
  BY <1>1 DEF DownOK, Armed
<1> QED
  BY <1>4, <1>6, <1>7, <1>8 DEF VenueOK

\* A delayed request that arrives makes the books suspect.
LEMMA LateVenue ==
  ASSUME VenueOK, BooksInv, LateArrives
  PROVE  VenueOK'
<1>1. UNCHANGED <<pc, broker, file, nextSeq, positions, order, answer, committed>>
  BY DEF LateArrives, journal, adapter, history
<1>2. Rebuilt'
  BY <1>1 DEF VenueOK, Rebuilt, Armed
<1>3. CASE suspect'
  BY <1>2, <1>3, SuspectVenue
<1>4. CASE ~suspect'
  <2>1. PICK o \in late : /\ \E x \in Executions(o) : venue' = Append(venue, x)
                          /\ pc = "lookup" /\ order = o /\ mine = 0
                          /\ mine' = Len(venue) + 1
                          /\ ~suspect
    BY <1>4 DEF LateArrives
  <2>2. PICK x \in Executions(order) : venue' = Append(venue, x)
    BY <2>1
  <2>3. order \in Order
    BY <2>1 DEF BooksInv, FlightOK, InFlight
  <2>4. ASSUME broker = "real"
        PROVE  /\ venue'[mine'] = x /\ x.order = order /\ mine' # 0
               /\ \A s \in Symbols : positions'[s].qty + Outstanding(s)' = NetOf(venue', s)
    BY <1>1, <2>1, <2>2, <2>3, <2>4, VenueExecutes DEF Armed
  <2>5. Flushed'
    BY <1>1, <2>1, BooksStay DEF Armed
  <2>6. RequestOK'
    BY <1>1, <2>1, <2>4 DEF RequestOK
  <2>7. NetOK'
    BY <1>1, <2>4 DEF NetOK
  <2>8. DownOK'
    BY <1>1, <2>1 DEF DownOK, Armed
  <2> QED
    BY <1>2, <2>5, <2>6, <2>7, <2>8 DEF VenueOK
<1> QED
  BY <1>3, <1>4

\* The order in flight goes on at the venue.
LEMMA VenueMoves ==
  ASSUME VenueOK, BooksInv, Armed, broker = "real", ~suspect, mine # 0,
         NEW x \in VenueOrders, x.order = venue[mine].order, venue' = [venue EXCEPT ![mine] = x],
         UNCHANGED <<positions, order, mine>>
  PROVE  /\ venue'[mine] = x
         /\ \A s \in Symbols : positions'[s].qty + Outstanding(s)' = NetOf(venue', s)
<1>1. venue \in Seq(VenueOrders) /\ mine \in 1 .. Len(venue) /\ venue[mine] \in VenueOrders
  BY BooksTypes
<1>2. venue'[mine] = x
  BY <1>1
<1>3. venue[mine].order = order
  BY DEF VenueOK, RequestOK
<1>4. ASSUME NEW s \in Symbols
      PROVE  positions'[s].qty + Outstanding(s)' = NetOf(venue', s)
  <2> DEFINE a == Signed(order, venue[mine].trades)
             b == Signed(order, x.trades)
  <2>1. NetOf(venue', s) = NetOf(venue, s) - (IF order.symbol = s THEN a
                                              ELSE 0) + (IF order.symbol = s THEN b ELSE 0)
    <3>1. NetOf(venue', s)
            = NetOf(venue, s) - (IF x.order.symbol = s THEN Signed(venue[mine].order, venue[mine].trades)
                                 ELSE 0)
                              + (IF x.order.symbol = s THEN Signed(x.order, x.trades) ELSE 0)
      <4>1. Touched(venue, mine, x, venue')
        BY <1>1 DEF Touched
      <4> QED
        BY <4>1, NetChanges
    <3> QED
      BY <1>3, <3>1
  <2>2. Outstanding(s) = (IF order.symbol = s THEN a
                          ELSE 0) /\ Outstanding(s)' = IF order.symbol = s THEN b ELSE 0
    BY <1>2 DEF Outstanding
  <2>3. positions[s].qty + Outstanding(s) = NetOf(venue, s) /\ positions[s].qty \in Int
    BY BooksTypes DEF VenueOK, NetOK
  <2>4. a \in Int /\ b \in Int
    BY <1>1, <1>3, SignedIs
  <2> HIDE DEF a, b
  <2> QED
    BY <2>1, <2>2, <2>3, <2>4
<1> QED
  BY <1>2, <1>4

\* A fill moves the order that is outstanding, or makes the books suspect.
LEMMA FillsOpenVenue ==
  ASSUME VenueOK, BooksInv, VenueFillsOpen
  PROVE  VenueOK'
<1>1. UNCHANGED <<pc, broker, file, nextSeq, positions, order, answer, mine, committed>>
  BY DEF VenueFillsOpen, journal, adapter, history, attempt
<1>2. Rebuilt'
  BY <1>1 DEF VenueOK, Rebuilt, Armed
<1>3. CASE suspect'
  BY <1>2, <1>3, SuspectVenue
<1>4. CASE ~suspect'
  <2>1. venue \in Seq(VenueOrders) /\ DOMAIN venue = 1 .. Len(venue)
    BY BooksTypes
  <2> DEFINE full(i) == TotalQty(venue[i].trades) + 1 = venueAmount(venue[i].order, Lot)
             x(i, p) == [venue[i] EXCEPT !.trades = Append(@, [qty |-> 1, price |-> p]),
                                         !.state = IF full(i) THEN "done" ELSE "open"]
  <2>2. PICK i \in 1 .. Len(venue), p \in Prices :
          /\ venue' = [venue EXCEPT ![i].trades = Append(@, [qty |-> 1, price |-> p]),
                                    ![i].state = IF full(i) THEN "done" ELSE "open"]
          /\ pc \in {"lookup", "trades"} /\ mine = i /\ ~suspect
    BY <1>4, <2>1 DEF VenueFillsOpen
  <2>3. venue[i] \in VenueOrders
    BY <2>1
  <2>4. [qty |-> 1, price |-> p] \in Trade
    BY MarketFacts DEF Trade
  <2>5. x(i, p) \in VenueOrders /\ x(i, p).order = venue[mine].order
    <3>1. Append(venue[i].trades, [qty |-> 1, price |-> p]) \in Seq(Trade)
      BY <2>3, <2>4 DEF VenueOrders
    <3> HIDE DEF full
    <3> QED
      BY <2>2, <2>3, <3>1 DEF VenueOrders
  <2>6. venue' = [venue EXCEPT ![mine] = x(i, p)]
    <3> HIDE DEF full
    <3> QED
      BY <2>1, <2>2, <2>3 DEF VenueOrders
  <2> HIDE DEF x
  <2>7. mine # 0 /\ Armed
    BY <2>2 DEF Armed
  <2>8. ASSUME broker = "real"
        PROVE  /\ venue'[mine] = x(i, p)
               /\ \A s \in Symbols : positions'[s].qty + Outstanding(s)' = NetOf(venue', s)
    BY <1>1, <2>2, <2>5, <2>6, <2>7, <2>8, VenueMoves
  <2>9. Flushed'
    BY <1>1, <2>2, <2>7, BooksStay
  <2>10. RequestOK'
    BY <1>1, <2>2, <2>5, <2>8 DEF VenueOK, RequestOK
  <2>11. NetOK'
    BY <1>1, <2>8 DEF NetOK
  <2>12. DownOK'
    BY <1>1, <2>7 DEF DownOK, Armed
  <2> QED
    BY <1>2, <2>9, <2>10, <2>11, <2>12 DEF VenueOK
<1> QED
  BY <1>3, <1>4

\* A step of the flight in which neither the venue's trades nor the books move.
LEMMA FlightVenue ==
  ASSUME VenueOK, BooksInv, pc \in InFlight, pc' \in InFlight,
         UNCHANGED <<broker, file, nextSeq, positions, order, mine, committed>>,
         ~suspect' => ~suspect,
         broker = "real" /\ ~suspect' => RequestOK' /\ \A s \in Symbols : NetOf(venue', s) = NetOf(venue, s),
         broker = "real" /\ ~suspect' /\ mine # 0 => venue'[mine].trades = venue[mine].trades
  PROVE  VenueOK'
<1>1. Armed /\ Armed'
  BY DEF Armed, InFlight
<1>2. Rebuilt' /\ Flushed'
  BY <1>1, BooksStay
<1>3. RequestOK' /\ DownOK'
  BY <1>1 DEF RequestOK, DownOK
<1>4. broker = "real" /\ ~suspect' => \A s \in Symbols : Outstanding(s)' = Outstanding(s)
  BY DEF Outstanding
<1>5. NetOK'
  BY <1>1, <1>4 DEF VenueOK, NetOK
<1> QED
  BY <1>2, <1>3, <1>5 DEF VenueOK

\* The lookup takes the order for its own, or one of another, which is suspect.
LEMMA LookupVenue ==
  ASSUME VenueOK, BooksInv, LookupFinds
  PROVE  VenueOK'
<1>1. venue \in Seq(VenueOrders) /\ DOMAIN venue = 1 .. Len(venue)
  BY BooksTypes
<1>2. PICK i \in 1 .. Len(venue) : /\ venue[i].order = order
                                  /\ answer' = [state |-> venue[i].state, trades |-> <<>>, at |-> i]
                                  /\ suspect' = (suspect \/ i # mine)
  BY <1>1 DEF LookupFinds
<1>3. /\ pc = "lookup" /\ pc' = "trades"
      /\ UNCHANGED <<broker, file, nextSeq, positions, order, mine, venue, committed>>
  BY DEF LookupFinds, journal, adapter, network, history
<1>4. RequestOK'
  <2>1. answer'.at = i /\ answer'.trades = <<>> /\ i # 0
    BY <1>1, <1>2
  <2> QED
    BY <1>2, <1>3, <2>1 DEF RequestOK
<1> QED
  BY <1>2, <1>3, <1>4, FlightVenue DEF InFlight

\* The trades it reads are the venue's, or what it misses is suspect.
LEMMA TradesVenue ==
  ASSUME VenueOK, BooksInv, LookupTrades \/ LookupUnread
  PROVE  VenueOK'
<1>0. ~suspect' => ~suspect
  BY Zenon DEF LookupTrades, LookupUnread
<1>1. /\ pc = "trades" /\ pc' = "answered" /\ (~suspect' => ~suspect)
      /\ UNCHANGED <<broker, file, nextSeq, positions, order, mine, venue, committed>>
  <2>1. CASE LookupTrades
    BY <1>0, <2>1 DEF LookupTrades, journal, adapter, network, history
  <2>2. CASE LookupUnread
    BY <1>0, <2>2 DEF LookupUnread, attempt, journal, adapter, network, history
  <2> QED
    BY <2>1, <2>2
<1>2. ~suspect' => \/ answer' = [answer EXCEPT !.trades = venue[answer.at].trades]
                   \/ answer' = answer /\ venue[answer.at].trades = <<>>
  BY DEF LookupTrades, LookupUnread, attempt
<1>3. RequestOK'
  <2> SUFFICES ASSUME broker = "real", ~suspect'
               PROVE  /\ mine # 0 /\ venue[mine].order = order
                      /\ answer'.at = mine /\ answer'.trades = venue[mine].trades
    BY <1>1 DEF RequestOK
  <2>1. /\ mine # 0 /\ answer.at = mine /\ answer.trades = <<>> /\ venue[mine].order = order
    BY <1>1 DEF VenueOK, RequestOK
  <2>2. answer \in Answers
    BY BooksTypes
  <2> QED
    BY <1>2, <2>1, <2>2 DEF Answers
<1> QED
  BY <1>1, <1>3, FlightVenue DEF InFlight

\* The cancel fixes the trades the answer reports, or leaves the books suspect.
LEMMA CancelVenue ==
  ASSUME VenueOK, BooksInv, CancelOpen
  PROVE  VenueOK'
<1>1. /\ pc = "answered" /\ pc' = "answered"
      /\ venue' = [venue EXCEPT ![answer.at].state = "done"]
      /\ answer' = [answer EXCEPT !.state = "done"]
      /\ UNCHANGED <<broker, file, nextSeq, positions, order, mine, committed, suspect>>
  BY DEF CancelOpen, journal, adapter, history
<1>2. ASSUME broker = "real", ~suspect
      PROVE  /\ RequestOK' /\ venue'[mine].trades = venue[mine].trades
             /\ \A s \in Symbols : NetOf(venue', s) = NetOf(venue, s)
  <2>1. /\ mine # 0 /\ answer.at = mine /\ answer.trades = venue[mine].trades
        /\ venue[mine].order = order
    BY <1>1, <1>2 DEF VenueOK, RequestOK
  <2>2. venue \in Seq(VenueOrders) /\ mine \in 1 .. Len(venue) /\ venue[mine] \in VenueOrders
        /\ DOMAIN venue = 1 .. Len(venue) /\ answer \in Answers
    BY <2>1, BooksTypes
  <2> DEFINE x == [venue[mine] EXCEPT !.state = "done"]
  <2>3. x \in VenueOrders /\ x.order = venue[mine].order /\ x.trades = venue[mine].trades
    BY <2>2 DEF VenueOrders
  <2>4. venue' = [venue EXCEPT ![mine] = x]
    BY <1>1, <2>1, <2>2
  <2> HIDE DEF x
  <2>5. venue'[mine] = x
    BY <2>2, <2>4
  <2>6. answer'.at = answer.at /\ answer'.trades = answer.trades
    BY <1>1, <2>2 DEF Answers
  <2>7. RequestOK'
    BY <1>1, <2>1, <2>3, <2>5, <2>6 DEF RequestOK
  <2>8. ASSUME NEW s \in Symbols PROVE NetOf(venue', s) = NetOf(venue, s)
    <3> DEFINE a == Signed(venue[mine].order, venue[mine].trades)
    <3>1. NetOf(venue', s) = NetOf(venue, s) - (IF x.order.symbol = s THEN a ELSE 0)
                                             + (IF x.order.symbol = s THEN Signed(x.order, x.trades)
                                                ELSE 0)
      <4>1. Touched(venue, mine, x, venue')
        BY <2>2, <2>3, <2>4 DEF Touched
      <4> QED
        BY <4>1, NetChanges
    <3>2. Signed(x.order, x.trades) = a
      BY <2>3
    <3>3. a \in Int /\ NetOf(venue, s) \in Int
      BY <2>2, SignedIs, NetIs
    <3> HIDE DEF a
    <3> QED
      BY <3>1, <3>2, <3>3
  <2> QED
    BY <2>3, <2>5, <2>7, <2>8
<1> QED
  BY <1>1, <1>2, FlightVenue DEF InFlight

\* Reporting the trades changes neither books nor venue.
LEMMA PlacedVenue ==
  ASSUME VenueOK, BooksInv,
         \/ PlaceReturns
         \/ pc = "placed" /\ pc' = "append" /\ UNCHANGED attempt
            /\ UNCHANGED <<broker, journal, adapter, intent, network, history, suspect>>
  PROVE  VenueOK'
<1>1. /\ pc \in {"answered", "placed"} /\ pc' \in {"placed", "append"}
      /\ UNCHANGED <<broker, file, nextSeq, positions, order, answer, mine, venue, committed, suspect>>
  BY DEF PlaceReturns, journal, adapter, network, history, attempt
<1>2. RequestOK'
  BY <1>1 DEF VenueOK, RequestOK
<1> QED
  BY <1>1, <1>2, FlightVenue DEF InFlight

\* A report without fills is dropped: the venue's position has not moved.
LEMMA SettleVenue ==
  ASSUME VenueOK, BooksInv, Settle
  PROVE  VenueOK'
<1>1. /\ pc = "placed" /\ UNCHANGED <<broker, journal, adapter, intent, network, history, suspect>>
  BY DEF Settle
<1>2. CASE pc' = "append" /\ UNCHANGED attempt
  BY <1>1, <1>2, PlacedVenue
<1>3. CASE fillsFrom(events) = <<>> /\ Reject
  <2>1. UNCHANGED <<broker, file, nextSeq, positions, venue, committed, suspect>>
    BY <1>1 DEF journal, adapter, network, history
  <2>2. ASSUME broker = "real", ~suspect, NEW s \in Symbols
        PROVE  Outstanding(s) = 0
    <3>1. PICK trades, q : Outcome(trades, q)
      BY <1>1, OutcomeIs
    <3>2. order.qty \in Nat \ {0}
      BY <1>1 DEF BooksInv, FlightOK, InFlight, Order
    <3>3. trades = <<>>
      BY <1>3, <3>1, <3>2, ReportedIs DEF Outcome
    <3>4. venue[mine].trades = <<>>
      BY <1>1, <2>2, <3>1, <3>3 DEF Outcome, VenueOK, RequestOK
    <3> QED
      BY <3>4, NoTrades DEF Outstanding, Signed
  <2> QED
    BY <1>1, <1>3, <2>1, <2>2, VenueReturns DEF Armed
<1>4. reduceOrder(order.qty, events).sound /\ reconcile(candidate, applyResult(mirror, result))
  BY <1>1, OutcomeReconciles
<1> QED
  BY <1>2, <1>3, <1>4 DEF Settle

\* The order in flight, once booked.
LEMMA BookedNet ==
  ASSUME VenueOK, BooksInv, pc = "append", broker = "real", ~suspect, NEW s \in Symbols
  PROVE  candidate[s].qty = NetOf(venue, s)
<1>1. PICK trades, q : Outcome(trades, q)
  BY OutcomeIs
<1>2. /\ candidate = [positions EXCEPT ![order.symbol] = q]
      /\ q.qty = IF order.side = "BUY" THEN positions[order.symbol].qty + TotalQty(trades)
                 ELSE positions[order.symbol].qty - TotalQty(trades)
      /\ trades = answer.trades /\ trades \in Seq(Trade)
  BY <1>1 DEF Outcome, Reported
<1>3. order.symbol \in Symbols
  BY DEF BooksInv, FlightOK, InFlight, Order
<1>4. mine # 0 /\ answer.trades = venue[mine].trades
  BY DEF VenueOK, RequestOK
<1>5. positions[s].qty + Outstanding(s) = NetOf(venue, s)
  BY DEF VenueOK, NetOK, Armed
<1>6. positions \in [Symbols -> Position] /\ positions[s].qty \in Int /\ TotalQty(trades) \in Nat
  BY <1>2, BooksTypes, TotalIs DEF BooksInv, TypeOK
<1>7. CASE s = order.symbol
  <2>1. candidate[s] = q
    BY <1>2, <1>3, <1>6, <1>7
  <2>2. Outstanding(s) = Signed(order, trades)
    BY <1>2, <1>4, <1>7 DEF Outstanding
  <2>3. Signed(order, trades) = IF order.side = "BUY" THEN TotalQty(trades) ELSE -TotalQty(trades)
    BY DEF Signed
  <2> QED
    BY <1>2, <1>5, <1>6, <1>7, <2>1, <2>2, <2>3
<1>8. CASE s # order.symbol
  <2>1. candidate[s] = positions[s]
    BY <1>2, <1>3, <1>6, <1>8
  <2>2. Outstanding(s) = 0
    BY <1>8 DEF Outstanding
  <2> QED
    BY <1>5, <1>6, <2>1, <2>2
<1> QED
  BY <1>7, <1>8

\* The positions a commit installs are those recovery rebuilds from the journal with the
\* new record.
LEMMA CandidateRebuilt ==
  ASSUME VenueOK, BooksInv, pc = "append"
  PROVE  candidate = reconstructMarketState(Append(committed, NextRecord))
<1>1. NextRecord \in Records /\ committed \in Seq(Records)
  BY OutcomeReconciles, BooksTypes
<1>2. NextRecord.symbol = order.symbol /\ NextRecord.side = order.side /\ NextRecord.events = events
  BY DEF NextRecord
<1>3. positions = reconstructMarketState(committed)
  BY DEF VenueOK, Rebuilt, Armed
<1> QED
  BY <1>1, <1>2, <1>3, RebuildsNext DEF candidate

\* A commit books what was outstanding.
LEMMA CommitVenue ==
  ASSUME VenueOK, BooksInv, JournalInv, JournalInv', AppendCommits
  PROVE  VenueOK'
<1>1. /\ pc = "append" /\ file' = appendFile(file, NextRecord, "line")
      /\ nextSeq' = nextSeq + 1 /\ positions' = candidate
      /\ committed' = Append(committed, NextRecord)
      /\ pc' = "idle" /\ mine' = 0
      /\ broker' = broker /\ venue' = venue /\ suspect' = suspect
  BY DEF AppendCommits, Reject, network
<1>2. Rebuilt'
  <2>1. candidate = reconstructMarketState(committed')
    BY <1>1, CandidateRebuilt
  <2>2. committed \in Seq(Records) /\ NextRecord \in Records
    BY <1>1, OutcomeReconciles, BooksTypes
  <2>3. Len(committed') = Len(committed) + 1
    BY <1>1, <2>2
  <2> QED
    BY <1>1, <2>1, <2>3 DEF VenueOK, Rebuilt, Armed
<1>3. Flushed'
  <2>1. IsSequence(file) /\ "line" \in Parts
    BY DEF JournalInv, Ledger, Parts
  <2>2. file'[Len(file')].nl
    <3>1. Glued(file, "line", file') \/ Grown(file, NextRecord, "line", file')
      BY <1>1, <2>1, AppendShape
    <3>2. file'[Len(file')].nl = ("line" = "line")
      BY <3>1 DEF Glued, Grown
    <3> QED
      BY <3>2
  <2>3. Intact(file)' => Len(committed') = Len(file')
    BY <1>1, <2>2 DEF JournalInv, InStep, Unterminated
  <2> QED
    BY <2>3 DEF Flushed
<1>4. RequestOK' /\ DownOK'
  BY <1>1 DEF RequestOK, DownOK, Armed
<1>5. NetOK'
  <2> SUFFICES ASSUME broker = "real", ~suspect, NEW s \in Symbols
               PROVE  positions'[s].qty + Outstanding(s)' = NetOf(venue', s)
    BY <1>1 DEF NetOK
  <2>1. candidate[s].qty = NetOf(venue, s)
    BY <1>1, BookedNet
  <2>2. Outstanding(s)' = 0
    BY <1>1 DEF Outstanding
  <2>3. NetOf(venue, s) \in Int
    BY BooksTypes, NetIs
  <2> QED
    BY <1>1, <2>1, <2>2, <2>3
<1> QED
  BY <1>2, <1>3, <1>4, <1>5 DEF VenueOK

\* What a journal that is no shorter than the committed executions returns.
LEMMA ReadsCommitted ==
  ASSUME NEW f, NEW c, NEW l, Ledger(f, c, l), Intact(f) => Len(c) = Len(f),
         readAllSucceeds(f), Len(readAll(f)) >= Len(c)
  PROVE  readAll(f) = c
<1>1. IsSequence(f) /\ IsSequence(c) /\ (Broken(f) \/ Complete(f, c, l) \/ Short(f, c, l))
  BY DEF Ledger
<1>2. ~Broken(f)
  BY <1>1, ReadBroken
<1>3. Len(c) \in Nat /\ Len(f) \in Nat /\ c = [i \in 1 .. Len(c) |-> c[i]]
  BY <1>1 DEF IsSequence
<1>4. /\ IsSequence(readAll(f)) /\ Len(readAll(f)) = Len(c)
      /\ \A i \in 1 .. Len(c) : readAll(f)[i] = c[i]
  <2>1. CASE Complete(f, c, l)
    <3>1. Intact(f) /\ \A i \in 1 .. Len(c) : c[i] = f[i].parsed[1]
      BY <2>1 DEF Complete
    <3> QED
      BY <1>1, <3>1, ReadIntact
  <2>2. CASE Short(f, c, l)
    <3>1. TornLast(f) /\ Len(f) - 1 <= Len(c) /\ \A i \in 1 .. Len(f) - 1 : c[i] = f[i].parsed[1]
      BY <2>2 DEF Short
    <3>2. /\ IsSequence(readAll(f)) /\ Len(readAll(f)) = Len(f) - 1
          /\ \A i \in 1 .. Len(f) - 1 : readAll(f)[i] = f[i].parsed[1]
      BY <1>1, <3>1, ReadTorn
    <3>3. Len(f) - 1 = Len(c)
      <4>1. Len(f) - 1 >= Len(c)
        BY <3>2
      <4> QED
        BY <1>3, <3>1, <4>1
    <3> QED
      BY <3>1, <3>2, <3>3
  <2> QED
    BY <1>1, <1>2, <2>1, <2>2
<1>5. readAll(f) = [i \in 1 .. Len(readAll(f)) |-> readAll(f)[i]]
  BY <1>4 DEF IsSequence
<1> QED
  BY <1>3, <1>4, <1>5

\* A journal that returns one more record returns the one that was being appended.
LEMMA ReadsAppended ==
  ASSUME NEW f, NEW c, NEW l, NEW rec, NEW part \in Parts, NEW new,
         Ledger(f, c, l), Intact(f) => Len(c) = Len(f), rec.seq = Len(c),
         new = appendFile(f, rec, part), readAllSucceeds(new), Len(readAll(new)) = Len(c) + 1
  PROVE  readAll(new) = Append(c, rec)
<1>1. IsSequence(f) /\ IsSequence(c) /\ (Broken(f) \/ Complete(f, c, l) \/ Short(f, c, l))
  BY DEF Ledger
<1>2. Len(c) \in Nat /\ Len(f) \in Nat
  BY <1>1 DEF IsSequence
<1>3. /\ IsSequence(new)
      /\ new = f \/ Glued(f, part, new) \/ Grown(f, rec, part, new)
  BY <1>1, AppendShape
<1>4. ~Broken(new) /\ ~Broken(f)
  BY <1>1, <1>3, ReadBroken, BrokenStays
<1>5. \/ Intact(f) /\ Len(c) = Len(f) /\ \A i \in 1 .. Len(c) : c[i] = f[i].parsed[1]
      \/ TornLast(f) /\ Len(f) - 1 <= Len(c)
  BY <1>1, <1>4 DEF Complete, Short
<1>6. CASE new = f
  <2>1. Len(readAll(f)) <= Len(c)
    <3>1. CASE Intact(f) /\ Len(c) = Len(f)
      BY <1>1, <1>2, <3>1, ReadIntact
    <3>2. CASE TornLast(f) /\ Len(f) - 1 <= Len(c)
      BY <1>1, <3>2, ReadTorn
    <3> QED
      BY <1>5, <3>1, <3>2
  <2>2. Len(readAll(f)) = Len(c) + 1
    BY <1>6
  <2> QED
    BY <1>2, <2>1, <2>2
<1>7. CASE Glued(f, part, new)
  <2>1. TornLast(new) /\ Len(new) = Len(f)
    BY <1>1, <1>5, <1>7, GluedIsTorn
  <2>2. Len(readAll(new)) = Len(f) - 1
    BY <1>3, <2>1, ReadTorn
  <2>3. Len(f) - 1 = Len(c) + 1
    BY <2>2
  <2> QED
    BY <1>2, <1>5, <2>3
<1>8. CASE Grown(f, rec, part, new)
  <2>1. /\ Len(new) = Len(f) + 1 /\ \A i \in 1 .. Len(f) : new[i] = f[i]
        /\ TornLast(f) => Broken(new)
        /\ Intact(f) /\ part = "torn" => TornLast(new)
        /\ Intact(f) /\ part # "torn" /\ rec.seq = Len(f) => Intact(new) /\ new[Len(new)].parsed[1] = rec
    BY <1>1, <1>8, GrownIs
  <2>2. Intact(f) /\ Len(c) = Len(f) /\ \A i \in 1 .. Len(c) : c[i] = f[i].parsed[1]
    BY <1>4, <1>5, <2>1
  <2>3. part # "torn"
    <3> SUFFICES ASSUME part = "torn" PROVE FALSE
      OBVIOUS
    <3>1. Len(readAll(new)) = Len(new) - 1
      BY <1>3, <2>1, <2>2, ReadTorn
    <3>2. Len(c) + 1 = Len(new) - 1
      BY <3>1
    <3> QED
      BY <1>2, <2>1, <2>2, <3>2
  <2>4. Intact(new) /\ new[Len(new)].parsed[1] = rec
    BY <2>1, <2>2, <2>3
  <2>5. IsSequence(readAll(new)) /\ \A i \in 1 .. Len(new) : readAll(new)[i] = new[i].parsed[1]
    BY <1>3, <2>4, ReadIntact
  <2> DEFINE d == Append(c, rec)
             n == Len(c) + 1
  <2>6. IsSequence(d) /\ Len(d) = n /\ d[n] = rec /\ \A i \in 1 .. Len(c) : d[i] = c[i]
    BY <1>1, AppendEntry
  <2> HIDE DEF d
  <2>7. Len(new) = n /\ n \in Nat
    BY <1>2, <2>1, <2>2
  <2>8. ASSUME NEW i \in 1 .. n PROVE readAll(new)[i] = d[i]
    <3>1. i \in 1 .. Len(c) \/ i = n
      BY <1>2
    <3> QED
      BY <2>1, <2>2, <2>4, <2>5, <2>6, <2>7, <3>1
  <2>9. d = [i \in 1 .. n |-> d[i]] /\ readAll(new) = [i \in 1 .. n |-> readAll(new)[i]]
    <3>1. d = [i \in 1 .. Len(d) |-> d[i]] /\ readAll(new) = [i \in 1 .. Len(readAll(new)) |-> readAll(new)[i]]
      BY <2>5, <2>6 DEF IsSequence
    <3> QED
      BY <2>6, <3>1
  <2> HIDE DEF n
  <2> QED
    BY <2>8, <2>9 DEF d
<1> QED
  BY <1>3, <1>6, <1>7, <1>8

\* A crash leaves a journal that rebuilds the venue's positions, or is suspect.
LEMMA CrashVenue ==
  ASSUME VenueOK, BooksInv, JournalInv, Crash
  PROVE  VenueOK'
<1>1. /\ pc' = "down" /\ mine' = 0 /\ broker' = broker /\ venue' = venue /\ committed' = committed
      /\ suspect' = (suspect \/ (pc \notin {"idle", "unarmed"} /\ ~(pc = "append" /\ Written)))
  BY DEF Crash, history
<1>2. ~Armed'
  BY <1>1 DEF Armed
<1>3. Rebuilt' /\ Flushed' /\ RequestOK' /\ NetOK'
  BY <1>1, <1>2 DEF Rebuilt, Flushed, RequestOK, NetOK
<1>4. ASSUME broker = "real", ~suspect', readAllSucceeds(file'), Len(readAll(file')) >= Len(committed),
             NEW s \in Symbols
      PROVE  reconstructMarketState(readAll(file'))[s].qty = NetOf(venue, s)
  <2>1. ~suspect /\ (pc \in {"idle", "unarmed"} \/ (pc = "append" /\ Written))
    BY <1>1, <1>4
  <2>2. Ledger(file, committed, lost)
    BY DEF JournalInv
  <2>3. CASE pc = "idle"
    <3>1. file' = file
      BY <2>3 DEF Crash
    <3>2. (Intact(file) => Len(committed) = Len(file)) /\ positions = reconstructMarketState(committed)
      BY <2>1, <2>3 DEF VenueOK, Flushed, Rebuilt, Armed
    <3>3. readAll(file') = committed
      BY <1>4, <2>2, <3>1, <3>2, ReadsCommitted
    <3>4. positions[s].qty + Outstanding(s) = NetOf(venue, s) /\ Outstanding(s) = 0
      BY <1>4, <2>1, <2>3 DEF VenueOK, NetOK, Outstanding, RequestOK, Armed
    <3>5. positions[s].qty \in Int
      BY BooksTypes
    <3> QED
      BY <3>2, <3>3, <3>4, <3>5
  <2>4. CASE pc = "unarmed"
    <3>1. file' = file
      BY <2>4 DEF Crash
    <3> QED
      BY <1>4, <2>1, <2>4, <3>1 DEF VenueOK, DownOK, Armed
  <2>5. CASE pc = "append" /\ Written
    <3>1. PICK part \in Parts : file' = appendFile(file, NextRecord, part)
      <4>1. CASE file' = file
        <5>1. file' = appendFile(file, NextRecord, "none") /\ "none" \in Parts
          BY <4>1 DEF appendFile, Parts
        <5> QED
          BY <5>1
      <4>2. CASE \E part \in TornParts : file' = appendFile(file, NextRecord, part)
        BY <4>2, MarketFacts
      <4> QED
        BY <4>1, <4>2 DEF Crash
    <3>2. /\ Intact(file) => Len(committed) = Len(file)
          /\ NextRecord.seq = Len(committed) /\ nextSeq = Len(committed)
      BY <2>1, <2>5 DEF VenueOK, Flushed, Rebuilt, Armed, NextRecord
    <3>3. Len(readAll(file')) = Len(committed) + 1
      BY <2>5, <3>2 DEF Written
    <3>4. readAll(file') = Append(committed, NextRecord)
      BY <1>4, <2>2, <3>1, <3>2, <3>3, ReadsAppended
    <3>5. candidate = reconstructMarketState(readAll(file'))
      BY <2>5, <3>4, CandidateRebuilt
    <3>6. candidate[s].qty = NetOf(venue, s)
      BY <1>4, <2>1, <2>5, BookedNet
    <3> QED
      BY <3>5, <3>6
  <2> QED
    BY <2>1, <2>3, <2>4, <2>5
<1>5. DownOK'
  BY <1>1, <1>4 DEF DownOK
<1> QED
  BY <1>3, <1>5 DEF VenueOK

VenueInv == BooksInv /\ JournalInv /\ VenueOK

\* Every step keeps the venue's invariant.
LEMMA NextVenue == VenueInv /\ [Next]_vars => VenueInv'
<1> SUFFICES ASSUME VenueInv, [Next]_vars PROVE VenueInv'
  OBVIOUS
<1>1. BooksInv /\ JournalInv /\ VenueOK
  BY DEF VenueInv
<1>2. BooksInv' /\ JournalInv'
  BY <1>1, NextBooks, NextJournal
<1>3. CASE Recover \/ RecoverUnarmed
  BY <1>1, <1>2, <1>3, RecoverVenue, UnarmedVenue DEF VenueInv
<1>4. CASE Decide \/ (\E price \in Prices :
             NoOp(price) \/ PlacePaper(price) \/ PlaceSimulated(price) \/ PlaceReal(price))
  BY <1>1, <1>2, <1>4, OrdersVenue DEF VenueInv
<1>5. CASE VenueAnswers \/ AmbiguousExecuted
  BY <1>1, <1>2, <1>5, AnswersVenue DEF VenueInv
<1>6. CASE AmbiguousLost \/ AmbiguousDelayed
  BY <1>1, <1>2, <1>6, VenueIdle DEF VenueInv, AmbiguousLost, AmbiguousDelayed, journal, adapter, attempt,
                                     network, history
<1>7. CASE LateArrives \/ VenueFillsOpen \/ LookupFinds \/ LookupTrades \/ LookupUnread \/ CancelOpen
           \/ PlaceReturns
  BY <1>1, <1>2, <1>7, LateVenue, FillsOpenVenue, LookupVenue, TradesVenue, CancelVenue, PlacedVenue
     DEF VenueInv
<1>8. CASE VenueRefuses \/ LookupEmpty \/ LookupFails \/ CancelFails \/ PlaceThrows
  <2>1. /\ Armed /\ Reject /\ UNCHANGED <<broker, file, nextSeq, positions, venue, committed>>
    BY <1>8 DEF VenueRefuses, LookupEmpty, LookupFails, CancelFails, PlaceThrows, Armed, journal, adapter,
                network, history
  <2>2. suspect' \/ ((~suspect' => ~suspect) /\ (VenueRefuses \/ LookupEmpty))
    BY <1>8 DEF VenueRefuses, LookupEmpty, LookupFails, CancelFails, PlaceThrows
  <2>3. ASSUME broker = "real", ~suspect', NEW s \in Symbols
        PROVE  ~suspect /\ Outstanding(s) = 0
    <3>1. ~suspect /\ (VenueRefuses \/ LookupEmpty)
      BY <2>2, <2>3
    <3>2. mine = 0
      <4>1. CASE VenueRefuses
        BY <1>1, <2>3, <3>1, <4>1 DEF VenueRefuses, VenueOK, RequestOK
      <4>2. CASE LookupEmpty
        <5>1. \A i \in 1 .. Len(venue) : venue[i].order # order
          <6>1. DOMAIN venue = 1 .. Len(venue)
            BY <1>1, BooksTypes
          <6> QED
            BY <4>2, <6>1 DEF LookupEmpty
        <5>2. mine \in 0 .. Len(venue) /\ Len(venue) \in Nat
          BY <1>1, BooksTypes
        <5>3. mine # 0 => venue[mine].order = order
          BY <1>1, <2>3, <3>1 DEF VenueOK, RequestOK
        <5>4. mine # 0 => mine \in 1 .. Len(venue)
          BY <5>2
        <5> QED
          BY <5>1, <5>3, <5>4
      <4> QED
        BY <3>1, <4>1, <4>2
    <3> QED
      BY <3>1, <3>2 DEF Outstanding
  <2>4. CASE suspect'
    <3>1. Rebuilt'
      BY <1>1, <2>1 DEF VenueOK, Rebuilt, Armed
    <3> QED
      BY <1>2, <2>4, <3>1, SuspectVenue DEF VenueInv
  <2>5. CASE ~suspect'
    <3>1. ~suspect
      BY <2>2, <2>5
    <3>2. VenueOK'
      BY <1>1, <2>1, <2>3, <3>1, VenueReturns
    <3> QED
      BY <1>2, <3>2 DEF VenueInv
  <2> QED
    BY <2>4, <2>5
<1>9. CASE Settle \/ AppendCommits \/ Crash
  BY <1>1, <1>2, <1>9, SettleVenue, CommitVenue, CrashVenue DEF VenueInv
<1>10. CASE AppendRejected
  <2>1. /\ suspect' /\ pc = "append" /\ pc' = "idle"
        /\ UNCHANGED <<nextSeq, positions, committed>>
    BY <1>10 DEF AppendRejected, Reject, adapter, history
  <2>2. Rebuilt'
    BY <1>1, <2>1 DEF VenueOK, Rebuilt, Armed
  <2> QED
    BY <1>2, <2>1, <2>2, SuspectVenue DEF VenueInv
<1>11. CASE UNCHANGED vars
  BY <1>1, <1>2, <1>11, VenueQuiet DEF VenueInv, vars, journal, adapter, attempt, network, history
<1> QED
  BY <1>2, <1>3, <1>4, <1>5, <1>6, <1>7, <1>8, <1>9, <1>10, <1>11 DEF Next, VenueInv

\* The venue's invariant implies the property.
LEMMA VenueInvAgrees == VenueInv => VenueAgrees
<1> SUFFICES ASSUME VenueInv, broker = "real", pc = "idle", ~suspect, NEW s \in Symbols
             PROVE  positions[s].qty = VenueQty(s)
  BY DEF VenueAgrees
<1>1. VenueQty(s) = NetOf(venue, s)
  BY DEF VenueQty, NetOf, Of
<1>2. positions[s].qty + Outstanding(s) = NetOf(venue, s) /\ Outstanding(s) = 0
  BY DEF VenueInv, VenueOK, NetOK, RequestOK, Outstanding, Armed
<1>3. positions[s].qty \in Int
  BY BooksTypes DEF VenueInv
<1> QED
  BY <1>1, <1>2, <1>3

\* With the real broker, for any number of orders, partial fills, ambiguous failures and
\* restarts: unless one of the listed exceptions has happened, an idle process holds in
\* every symbol exactly the quantity the venue holds, so no order is executed twice
\* and none is forgotten (transport.place with its lookup by label, the commit of execute,
\* recoverMarketState).
THEOREM VenueAlwaysAgrees == Spec => []VenueAgrees
<1>1. Init => VenueInv
  BY InitBooks, InitJournal, VenueStart DEF VenueInv
<1> QED
  BY <1>1, NextVenue, VenueInvAgrees, PTL DEF Spec

-----------------------------------------------------------------------------
(* Quotes.  The poll that begins at i * PollEvery has either come in for the *)
(* n-th symbol or is at one before it, and has then lost at most one latency *)
(* for each symbol it has passed.                                            *)

Polls == [pc : {"done", "query", "store"}, nth : Nat, source : 1 .. 3, now : Nat,
          found : {<<>>} \cup {<<t>> : t \in Nat}]

QuoteTypeOK ==
  /\ quoteClock \in Nat
  /\ feedRows \in [Tracked -> [1 .. 3 -> [ts : Nat, price : BOOLEAN]]]
  /\ cache \in [Tracked -> {<<>>} \cup {<<t>> : t \in Nat}]
  /\ due \in {<<>>} \cup {<<t>> : t \in Nat}
  /\ refreshes \in [Refreshes -> Polls]
  /\ answered \in [Tracked -> Nat]
  /\ refused \in BOOLEAN

\* A poll under way is at a symbol, within its latency, and has found nothing stale.
PollOK(run) ==
  run.pc # "done" =>
    /\ run.nth \in DOMAIN QuoteSymbols
    /\ run.now <= quoteClock /\ quoteClock <= run.now + MaxLatency
    /\ run.found # <<>> => run.now - run.found[1] <= MaxAge

MarkOK(s) ==
  /\ answered[s] <= quoteClock
  /\ cache[s] # <<>> => answered[s] - cache[s][1] <= MaxAge + MaxLatency

\* The poll of time t is under way and has not passed the n-th symbol.
Underway(run, n, t) ==
  /\ run.pc # "done" /\ run.nth <= n
  /\ t <= run.now /\ run.now <= t + (run.nth - 1) * MaxLatency

CameIn(n, t) ==
  \/ answered[QuoteSymbols[n]] >= t
  \/ \E r \in Refreshes : Underway(refreshes[r], n, t)

PollsComeIn ==
  ~refused /\ due # <<>> =>
    \A n \in DOMAIN QuoteSymbols, i \in Nat : i * PollEvery < due[1] => CameIn(n, i * PollEvery)

TimerOK ==
  due # <<>> => quoteClock <= due[1] /\ \E j \in Nat : due[1] = j * PollEvery

QuoteInv ==
  /\ QuoteTypeOK
  /\ \A r \in Refreshes : PollOK(refreshes[r])
  /\ \A s \in Tracked : MarkOK(s)
  /\ TimerOK
  /\ PollsComeIn

LEMMA SymbolsAre ==
  /\ Len(QuoteSymbols) \in Nat /\ DOMAIN QuoteSymbols = 1 .. Len(QuoteSymbols)
  /\ 1 \in DOMAIN QuoteSymbols
  /\ \A n \in DOMAIN QuoteSymbols : n \in Nat /\ QuoteSymbols[n] \in Tracked /\ Nth(QuoteSymbols[n]) = n
  /\ \A s \in Tracked : Nth(s) \in DOMAIN QuoteSymbols /\ QuoteSymbols[Nth(s)] = s
<1>1. QuoteSymbols \in Seq(Tracked) /\ QuoteSymbols # <<>>
  BY QuoteAssumption DEF Tracked
<1>2. Len(QuoteSymbols) \in Nat /\ DOMAIN QuoteSymbols = 1 .. Len(QuoteSymbols)
  BY <1>1
<1>3. Len(QuoteSymbols) # 0
  BY <1>1, EmptySeq
<1>4. \A n \in DOMAIN QuoteSymbols : QuoteSymbols[n] \in Tracked /\ Nth(QuoteSymbols[n]) = n
  BY QuoteAssumption DEF Tracked, Nth
<1>5. \A s \in Tracked : Nth(s) \in DOMAIN QuoteSymbols /\ QuoteSymbols[Nth(s)] = s
  BY DEF Tracked, Nth
<1> QED
  BY <1>2, <1>3, <1>4, <1>5

LEMMA SameMultiple ==
  ASSUME NEW i \in Nat, NEW j \in Nat, NEW p \in Nat \ {0}, ~(i * p < j * p), i * p < j * p + p
  PROVE  i = j
<1>1. CASE i < j
  <2>1. (j - i) * p > 0
    BY <1>1
  <2> QED
    BY <2>1
<1>2. CASE i > j
  <2>1. (i - j - 1) * p >= 0
    BY <1>2
  <2> QED
    BY <2>1
<1> QED
  BY <1>1, <1>2

LEMMA QuoteStart == QuoteInit => QuoteInv
<1> SUFFICES ASSUME QuoteInit PROVE QuoteInv
  OBVIOUS
<1>1. AtRest \in Polls
  BY DEF AtRest, Polls
<1>2. NoRow \in [ts : Nat, price : BOOLEAN]
  BY DEF NoRow
<1>3. QuoteTypeOK
  BY <1>1, <1>2 DEF QuoteInit, QuoteTypeOK
<1>4. \A r \in Refreshes : PollOK(refreshes[r])
  BY DEF QuoteInit, PollOK, AtRest
<1>5. \A s \in Tracked : MarkOK(s)
  BY DEF QuoteInit, MarkOK
<1>6. TimerOK /\ PollsComeIn
  BY DEF QuoteInit, TimerOK, PollsComeIn
<1> QED
  BY <1>3, <1>4, <1>5, <1>6 DEF QuoteInv

\* markFor takes the symbol up now, with nothing found.
LEMMA TakenUp ==
  ASSUME QuoteTypeOK, NEW n \in Nat
  PROVE  /\ markFor(n) \in Polls /\ markFor(n).pc = "query" /\ markFor(n).nth = n
         /\ markFor(n).now = quoteClock /\ markFor(n).found = <<>>
<1>1. markFor(n) \in [pc : {"query"}, nth : {n}, source : {1}, now : {quoteClock}, found : {<<>>}]
  BY DEF markFor, AtRest
<1>2. quoteClock \in Nat
  BY DEF QuoteTypeOK
<1> QED
  BY <1>1, <1>2 DEF Polls

\* A step that moves one poll, and neither the time nor the marks.
LEMMA MovedPoll ==
  ASSUME QuoteInv, NEW r \in Refreshes, NEW run \in Polls,
         refreshes' = [refreshes EXCEPT ![r] = run],
         UNCHANGED <<quoteClock, feedRows, cache, answered>>,
         PollOK(run)
  PROVE  /\ refreshes' \in [Refreshes -> Polls]
         /\ \A q \in Refreshes : PollOK(refreshes[q])'
         /\ \A s \in Tracked : MarkOK(s)'
<1>1. refreshes \in [Refreshes -> Polls]
  BY DEF QuoteInv, QuoteTypeOK
<1>2. refreshes' \in [Refreshes -> Polls] /\ refreshes'[r] = run
      /\ \A q \in Refreshes : q # r => refreshes'[q] = refreshes[q]
  BY <1>1
<1>3. \A q \in Refreshes : PollOK(refreshes[q])'
  BY <1>2 DEF QuoteInv, PollOK
<1>4. \A s \in Tracked : MarkOK(s)'
  BY DEF QuoteInv, MarkOK
<1> QED
  BY <1>2, <1>3, <1>4

LEMMA FeedKeeps ==
  ASSUME QuoteInv, NEW s \in Tracked, NEW i \in 1 .. 3, NEW price \in BOOLEAN,
         FeedWrites(s, i, price)
  PROVE  QuoteInv'
<1>1. UNCHANGED <<quoteClock, cache, due, refreshes, answered, refused>>
  BY DEF FeedWrites
<1>2. feedRows' \in [Tracked -> [1 .. 3 -> [ts : Nat, price : BOOLEAN]]]
  <2>1. [ts |-> quoteClock, price |-> price] \in [ts : Nat, price : BOOLEAN]
    BY DEF QuoteInv, QuoteTypeOK
  <2> QED
    BY <2>1 DEF FeedWrites, QuoteInv, QuoteTypeOK
<1> QED
  BY <1>1, <1>2
  DEF QuoteInv, QuoteTypeOK, PollOK, MarkOK, TimerOK, PollsComeIn, CameIn, Underway

LEMMA StartKeeps ==
  ASSUME QuoteInv, NEW r \in Refreshes, start(r)
  PROVE  QuoteInv'
<1> DEFINE run == markFor(1)
<1>1. /\ run \in Polls /\ run.pc = "query" /\ run.nth = 1 /\ run.now = quoteClock /\ run.found = <<>>
  BY TakenUp DEF QuoteInv
<1>2. /\ refreshes' = [refreshes EXCEPT ![r] = run]
      /\ UNCHANGED <<quoteClock, feedRows, cache, answered, refused>>
      /\ due' = <<PollEvery>> /\ quoteClock = 0
  BY DEF start, Begin
<1> HIDE DEF run
<1>3. PollOK(run)
  BY <1>1, SymbolsAre, QuoteAssumption DEF PollOK, QuoteInv, QuoteTypeOK
<1>4. /\ refreshes' \in [Refreshes -> Polls]
      /\ \A q \in Refreshes : PollOK(refreshes[q])'
      /\ \A s \in Tracked : MarkOK(s)'
  BY <1>1, <1>2, <1>3, MovedPoll
<1>5. PollEvery \in Nat /\ PollEvery = 1 * PollEvery /\ due' # <<>> /\ due'[1] = PollEvery
  BY <1>2, QuoteAssumption
<1>6. QuoteTypeOK'
  BY <1>2, <1>4, <1>5 DEF QuoteInv, QuoteTypeOK
<1>7. TimerOK'
  BY <1>2, <1>5 DEF TimerOK
<1>8. PollsComeIn'
  <2> SUFFICES ASSUME NEW n \in DOMAIN QuoteSymbols, NEW i \in Nat, i * PollEvery < PollEvery
               PROVE  CameIn(n, i * PollEvery)'
    BY <1>5 DEF PollsComeIn
  <2>1. i * PollEvery < 0 * PollEvery + PollEvery /\ ~(i * PollEvery < 0 * PollEvery)
    BY <1>5
  <2>2. i = 0
    BY <2>1, SameMultiple, QuoteAssumption
  <2>3. i * PollEvery = 0
    BY <2>2, <1>5
  <2>4. answered'[QuoteSymbols[n]] \in Nat
    BY <1>6, SymbolsAre DEF QuoteTypeOK
  <2> QED
    BY <2>3, <2>4 DEF CameIn
<1> QED
  BY <1>4, <1>6, <1>7, <1>8 DEF QuoteInv

LEMMA IntervalKeeps ==
  ASSUME QuoteInv, NEW r \in Refreshes, Interval(r)
  PROVE  QuoteInv'
<1> DEFINE run == markFor(1)
<1>1. /\ run \in Polls /\ run.pc = "query" /\ run.nth = 1 /\ run.now = quoteClock /\ run.found = <<>>
  BY TakenUp DEF QuoteInv
<1>2. /\ refreshes' = [refreshes EXCEPT ![r] = run] /\ refreshes[r].pc = "done"
      /\ UNCHANGED <<quoteClock, feedRows, cache, answered, refused>>
      /\ due = <<quoteClock>> /\ due' = <<quoteClock + PollEvery>>
  BY DEF Interval, Begin
<1> HIDE DEF run
<1>3. PollOK(run)
  BY <1>1, SymbolsAre, QuoteAssumption DEF PollOK, QuoteInv, QuoteTypeOK
<1>4. /\ refreshes' \in [Refreshes -> Polls]
      /\ \A q \in Refreshes : PollOK(refreshes[q])'
      /\ \A s \in Tracked : MarkOK(s)'
  BY <1>1, <1>2, <1>3, MovedPoll
<1>5. /\ quoteClock \in Nat /\ PollEvery \in Nat /\ PollEvery # 0 /\ MaxLatency \in Nat
      /\ due # <<>> /\ due[1] = quoteClock
      /\ due' # <<>> /\ due'[1] = quoteClock + PollEvery
  BY <1>2, QuoteAssumption DEF QuoteInv, QuoteTypeOK
<1>6. QuoteTypeOK'
  BY <1>2, <1>4, <1>5 DEF QuoteInv, QuoteTypeOK
<1>7. PICK j \in Nat : quoteClock = j * PollEvery
  BY <1>5 DEF QuoteInv, TimerOK
<1>8. TimerOK'
  <2>1. j + 1 \in Nat /\ quoteClock + PollEvery = (j + 1) * PollEvery
    BY <1>5, <1>7
  <2>2. quoteClock' <= due'[1] /\ due'[1] = (j + 1) * PollEvery
    BY <1>2, <1>5, <2>1
  <2> QED
    BY <2>1, <2>2 DEF TimerOK
<1>9. PollsComeIn'
  <2> SUFFICES ASSUME ~refused, NEW n \in DOMAIN QuoteSymbols, NEW i \in Nat,
                      i * PollEvery < quoteClock + PollEvery
               PROVE  CameIn(n, i * PollEvery)'
    BY <1>2, <1>5 DEF PollsComeIn
  <2>0. refreshes \in [Refreshes -> Polls] /\ n \in Nat /\ 1 <= n
    BY SymbolsAre DEF QuoteInv, QuoteTypeOK
  <2>1. refreshes'[r] = run /\ \A q \in Refreshes : q # r => refreshes'[q] = refreshes[q]
    BY <1>2, <2>0
  <2>2. CASE i * PollEvery < quoteClock
    <3>1. CameIn(n, i * PollEvery)
      BY <1>5, <2>2 DEF QuoteInv, PollsComeIn
    <3>2. ASSUME NEW q \in Refreshes, Underway(refreshes[q], n, i * PollEvery)
          PROVE  Underway(refreshes[q], n, i * PollEvery)'
      <4>1. q # r
        BY <1>2, <3>2 DEF Underway
      <4> QED
        BY <2>1, <3>2, <4>1 DEF Underway
    <3> QED
      BY <1>2, <3>1, <3>2 DEF CameIn
  <2>3. CASE ~(i * PollEvery < quoteClock)
    <3>1. i = j
      BY <1>5, <1>7, <2>3, SameMultiple
    <3>2. quoteClock <= quoteClock + (1 - 1) * MaxLatency
      BY <1>5
    <3>3. Underway(refreshes[r], n, i * PollEvery)'
      BY <1>1, <1>5, <1>7, <2>0, <2>1, <3>1, <3>2 DEF Underway
    <3> QED
      BY <3>3 DEF CameIn
  <2> QED
    BY <2>2, <2>3
<1> QED
  BY <1>4, <1>6, <1>8, <1>9 DEF QuoteInv

LEMMA StopKeeps ==
  ASSUME QuoteInv, stop
  PROVE  QuoteInv'
BY DEF stop, QuoteInv, QuoteTypeOK, PollOK, MarkOK, TimerOK, PollsComeIn

LEMMA RefusedKeeps ==
  ASSUME QuoteInv, NEW r \in Refreshes, Refused(r)
  PROVE  QuoteInv'
<1>1. AtRest \in Polls /\ PollOK(AtRest)
  BY DEF AtRest, Polls, PollOK
<1>2. /\ refreshes' = [refreshes EXCEPT ![r] = AtRest] /\ refused' = TRUE
      /\ UNCHANGED <<quoteClock, feedRows, cache, due, answered>>
  BY DEF Refused
<1>3. /\ refreshes' \in [Refreshes -> Polls]
      /\ \A q \in Refreshes : PollOK(refreshes[q])'
      /\ \A s \in Tracked : MarkOK(s)'
  BY <1>1, <1>2, MovedPoll
<1> QED
  BY <1>2, <1>3 DEF QuoteInv, QuoteTypeOK, TimerOK, PollsComeIn

LEMMA TimeKeeps ==
  ASSUME QuoteInv, TimeGoes
  PROVE  QuoteInv'
<1>1. /\ UNCHANGED <<feedRows, cache, due, refreshes, answered, refused>>
      /\ quoteClock' = quoteClock + 1 /\ quoteClock \in Nat
  BY DEF TimeGoes, QuoteInv, QuoteTypeOK
<1>2. QuoteTypeOK'
  BY <1>1 DEF QuoteInv, QuoteTypeOK
<1>3. ASSUME NEW r \in Refreshes PROVE PollOK(refreshes[r])'
  <2>1. PollOK(refreshes[r]) /\ refreshes[r].now \in Nat /\ MaxLatency \in Nat
    BY QuoteAssumption DEF QuoteInv, QuoteTypeOK, Polls
  <2>2. refreshes[r].pc # "done" => quoteClock < refreshes[r].now + MaxLatency
    BY DEF TimeGoes
  <2> QED
    BY <1>1, <2>1, <2>2 DEF PollOK
<1>4. ASSUME NEW s \in Tracked PROVE MarkOK(s)'
  <2>1. MarkOK(s) /\ answered[s] \in Nat
    BY DEF QuoteInv, QuoteTypeOK
  <2> QED
    BY <1>1, <2>1 DEF MarkOK
<1>5. TimerOK'
  <2>1. due # <<>> => due[1] > quoteClock /\ due[1] \in Nat
    BY DEF TimeGoes, QuoteInv, QuoteTypeOK
  <2>2. due' # <<>> => quoteClock' <= due'[1]
    BY <1>1, <2>1
  <2> QED
    BY <1>1, <2>2 DEF QuoteInv, TimerOK
<1>6. PollsComeIn'
  BY <1>1 DEF QuoteInv, PollsComeIn, CameIn, Underway
<1> QED
  BY <1>2, <1>3, <1>4, <1>5, <1>6 DEF QuoteInv

LEMMA QueryKeeps ==
  ASSUME QuoteInv, NEW r \in Refreshes, Query(r)
  PROVE  QuoteInv'
<1> DEFINE run == refreshes[r]
           row == feedRows[QuoteSymbols[run.nth]][run.source]
           hit == row.price /\ fresh(row.ts, run.now)
           over == hit \/ run.source = Len(Sources)
           next == [run EXCEPT !.found = IF hit THEN <<row.ts>> ELSE <<>>,
                               !.pc = IF over THEN "store" ELSE "query",
                               !.source = IF over THEN @ ELSE @ + 1]
<1>1. /\ run \in Polls /\ run.pc = "query" /\ PollOK(run)
  BY DEF Query, QuoteInv, QuoteTypeOK
<1>2. run.nth \in DOMAIN QuoteSymbols /\ QuoteSymbols[run.nth] \in Tracked
  BY <1>1, SymbolsAre DEF PollOK
<1>3. row.ts \in Nat
  BY <1>1, <1>2 DEF Polls, QuoteInv, QuoteTypeOK
<1>4. Len(Sources) = 3
  BY DEF Sources
<1>5. /\ refreshes' = [refreshes EXCEPT ![r] = next]
      /\ UNCHANGED <<quoteClock, feedRows, cache, due, answered, refused>>
  BY DEF Query, QuoteInv, QuoteTypeOK
<1>6. next \in Polls /\ next.pc # "done" /\ next.nth = run.nth /\ next.now = run.now
      /\ (next.found # <<>> => hit /\ next.found[1] = row.ts)
  <2> DEFINE f == IF hit THEN <<row.ts>> ELSE <<>>
             p == IF over THEN "store" ELSE "query"
             o == IF over THEN run.source ELSE run.source + 1
  <2>1. f \in {<<>>} \cup {<<t>> : t \in Nat} /\ (f # <<>> => hit /\ f[1] = row.ts)
    BY <1>3
  <2>2. p \in {"query", "store"}
    OBVIOUS
  <2>3. o \in 1 .. 3
    BY <1>1, <1>4 DEF Polls
  <2>4. next = [run EXCEPT !.found = f, !.pc = p, !.source = o]
    BY <1>1 DEF Polls
  <2> HIDE DEF f, p, o, next, hit, over
  <2>5. next \in [pc : {p}, nth : {run.nth}, source : {o}, now : {run.now}, found : {f}]
    BY <1>1, <2>4 DEF Polls
  <2> QED
    BY <1>1, <2>1, <2>2, <2>3, <2>5 DEF Polls
<1>7. hit => run.now - row.ts <= MaxAge
  BY DEF fresh
<1> HIDE DEF next, hit, row, over
<1>8. PollOK(next)
  BY <1>1, <1>6, <1>7 DEF PollOK
<1>9. /\ refreshes' \in [Refreshes -> Polls]
      /\ \A q \in Refreshes : PollOK(refreshes[q])'
      /\ \A s \in Tracked : MarkOK(s)'
  BY <1>5, <1>6, <1>8, MovedPoll
<1>10. /\ refreshes'[r] = next /\ \A q \in Refreshes : q # r => refreshes'[q] = refreshes[q]
  BY <1>5 DEF QuoteInv, QuoteTypeOK
<1>11. \A n, t, q : q \in Refreshes /\ Underway(refreshes[q], n, t) => Underway(refreshes'[q], n, t)
  BY <1>1, <1>6, <1>10 DEF Underway
<1>12. PollsComeIn'
  BY <1>5, <1>11 DEF QuoteInv, PollsComeIn, CameIn
<1> QED
  BY <1>5, <1>9, <1>12 DEF QuoteInv, QuoteTypeOK, TimerOK

LEMMA StoreKeeps ==
  ASSUME QuoteInv, NEW r \in Refreshes, Store(r)
  PROVE  QuoteInv'
<1> DEFINE run == refreshes[r]
           s   == QuoteSymbols[run.nth]
           next == IF run.nth = Len(QuoteSymbols) THEN AtRest ELSE markFor(run.nth + 1)
           newest == IF run.now > answered[s] THEN run.now ELSE answered[s]
<1>1. run \in Polls /\ run.pc = "store" /\ PollOK(run)
  BY DEF Store, QuoteInv, QuoteTypeOK
<1>2. /\ run.nth \in DOMAIN QuoteSymbols /\ s \in Tracked /\ run.nth \in Nat /\ run.now \in Nat
      /\ run.now <= quoteClock /\ quoteClock <= run.now + MaxLatency
      /\ run.found \in {<<>>} \cup {<<t>> : t \in Nat}
      /\ run.found # <<>> => run.now - run.found[1] <= MaxAge
  BY <1>1, SymbolsAre DEF PollOK, Polls
<1>3. /\ refreshes' = [refreshes EXCEPT ![r] = next]
      /\ cache' = [cache EXCEPT ![s] = run.found]
      /\ answered' = [answered EXCEPT ![s] = newest]
      /\ UNCHANGED <<quoteClock, feedRows, due, refused>>
  BY <1>2 DEF Store, QuoteInv, QuoteTypeOK
<1>4. /\ quoteClock \in Nat /\ MaxLatency \in Nat /\ MaxAge \in Nat
      /\ refreshes \in [Refreshes -> Polls] /\ answered \in [Tracked -> Nat]
      /\ cache \in [Tracked -> {<<>>} \cup {<<t>> : t \in Nat}]
  BY QuoteAssumption DEF QuoteInv, QuoteTypeOK
<1>5. /\ next \in Polls
      /\ next.pc # "done" =>
           /\ run.nth # Len(QuoteSymbols)
           /\ next.nth = run.nth + 1 /\ next.now = quoteClock /\ next.found = <<>>
      /\ run.nth # Len(QuoteSymbols) => next.pc # "done"
  <2>1. CASE run.nth = Len(QuoteSymbols)
    BY <2>1 DEF AtRest, Polls
  <2>2. CASE run.nth # Len(QuoteSymbols)
    <3>1. run.nth + 1 \in Nat /\ QuoteTypeOK
      BY <1>2 DEF QuoteInv
    <3> QED
      BY <2>2, <3>1, TakenUp
  <2> QED
    BY <2>1, <2>2
<1> HIDE DEF next
<1>6. newest \in Nat /\ newest >= run.now /\ newest >= answered[s] /\ newest <= quoteClock
  <2>1. answered[s] \in Nat /\ answered[s] <= quoteClock
    BY <1>2, <1>4 DEF QuoteInv, MarkOK
  <2> QED
    BY <1>2, <2>1
<1> HIDE DEF newest
<1>7. /\ refreshes' \in [Refreshes -> Polls] /\ refreshes'[r] = next
      /\ \A q \in Refreshes : q # r => refreshes'[q] = refreshes[q]
  BY <1>3, <1>4, <1>5
<1>8. QuoteTypeOK'
  BY <1>2, <1>3, <1>4, <1>6, <1>7 DEF QuoteInv, QuoteTypeOK
<1>9. ASSUME NEW q \in Refreshes PROVE PollOK(refreshes[q])'
  <2>1. CASE q = r
    <3>1. next.pc # "done" => next.nth \in DOMAIN QuoteSymbols
      BY <1>2, <1>5, SymbolsAre
    <3> QED
      BY <1>3, <1>4, <1>5, <1>7, <2>1, <3>1 DEF PollOK
  <2>2. CASE q # r
    BY <1>3, <1>7, <2>2 DEF QuoteInv, PollOK
  <2> QED
    BY <2>1, <2>2
<1>10. ASSUME NEW x \in Tracked PROVE MarkOK(x)'
  <2>1. CASE x = s
    <3>1. answered'[x] = newest /\ cache'[x] = run.found
      BY <1>3, <1>4, <2>1
    <3>2. run.found # <<>> => run.found[1] \in Nat
      BY <1>2
    <3>3. run.found # <<>> => newest - run.found[1] <= MaxAge + MaxLatency
      BY <1>2, <1>4, <1>6, <3>2, SMTT(30)
    <3> QED
      BY <1>3, <1>6, <3>1, <3>3 DEF MarkOK
  <2>2. CASE x # s
    BY <1>3, <1>4, <2>2 DEF QuoteInv, MarkOK
  <2> QED
    BY <2>1, <2>2
<1>11. TimerOK'
  BY <1>3 DEF QuoteInv, TimerOK
<1>12. PollsComeIn'
  <2> SUFFICES ASSUME ~refused, due # <<>>, NEW n \in DOMAIN QuoteSymbols, NEW i \in Nat,
                      i * PollEvery < due[1]
               PROVE  CameIn(n, i * PollEvery)'
    BY <1>3 DEF PollsComeIn
  <2> DEFINE t == i * PollEvery
             x == QuoteSymbols[n]
  <2>0. t \in Nat /\ n \in Nat /\ x \in Tracked
    BY QuoteAssumption, SymbolsAre
  <2>1. CameIn(n, t)
    BY DEF QuoteInv, PollsComeIn
  <2> HIDE DEF t
  <2> SUFFICES CameIn(n, t)'
    BY DEF t
  <2>2. answered'[x] \in Nat /\ answered'[x] >= answered[x] /\ (n = run.nth => answered'[x] = newest)
    BY <1>3, <1>4, <1>6, <2>0
  <2>3. CASE answered[x] >= t
    BY <1>4, <2>0, <2>2, <2>3 DEF CameIn
  <2>4. ASSUME NEW q \in Refreshes, q # r, Underway(refreshes[q], n, t) PROVE CameIn(n, t)'
    BY <1>7, <2>4 DEF CameIn, Underway
  <2>5. CASE Underway(run, n, t) /\ n = run.nth
    <3>1. answered'[x] >= t
      BY <1>2, <1>6, <2>0, <2>2, <2>5 DEF Underway
    <3> QED
      BY <3>1 DEF CameIn
  <2>6. CASE Underway(run, n, t) /\ n # run.nth
    <3>1. run.nth < n /\ run.nth # Len(QuoteSymbols)
      BY <1>2, <2>0, <2>6, SymbolsAre DEF Underway
    <3>2. next.pc # "done" /\ next.nth = run.nth + 1 /\ next.now = quoteClock
      BY <1>5, <3>1
    <3>3. t <= run.now /\ run.now <= t + (run.nth - 1) * MaxLatency
      BY <2>6 DEF Underway
    <3>4. (run.nth - 1) * MaxLatency + MaxLatency = (run.nth + 1 - 1) * MaxLatency
      BY <1>2, <1>4
    <3>5. (run.nth - 1) * MaxLatency \in Int /\ (run.nth + 1 - 1) * MaxLatency \in Int
      BY <1>2, <1>4
    <3> DEFINE a == (run.nth - 1) * MaxLatency
               b == (run.nth + 1 - 1) * MaxLatency
    <3>8. a + MaxLatency = b /\ a \in Int /\ b \in Int /\ run.now <= t + a
      BY <3>3, <3>4, <3>5
    <3> HIDE DEF a, b
    <3>9. t <= quoteClock /\ quoteClock <= t + b
      BY <1>2, <1>4, <2>0, <3>3, <3>8
    <3>6. t <= quoteClock /\ quoteClock <= t + (run.nth + 1 - 1) * MaxLatency
      BY <3>9 DEF b
    <3>7. Underway(next, n, t)
      BY <1>2, <2>0, <3>1, <3>2, <3>6 DEF Underway
    <3> QED
      BY <1>7, <3>7 DEF CameIn
  <2> QED
    BY <2>1, <2>3, <2>4, <2>5, <2>6 DEF CameIn
<1> QED
  BY <1>8, <1>9, <1>10, <1>11, <1>12 DEF QuoteInv

LEMMA QuoteStep == QuoteInv /\ [QuoteNext]_quoteVars => QuoteInv'
<1> SUFFICES ASSUME QuoteInv, [QuoteNext]_quoteVars PROVE QuoteInv'
  OBVIOUS
<1>1. CASE UNCHANGED quoteVars
  BY <1>1 DEF quoteVars, QuoteInv, QuoteTypeOK, PollOK, MarkOK, TimerOK, PollsComeIn, CameIn, Underway
<1>2. CASE QuoteNext
  BY <1>2, FeedKeeps, StartKeeps, IntervalKeeps, QueryKeeps, StoreKeeps, RefusedKeeps, StopKeeps,
     TimeKeeps DEF QuoteNext
<1> QED
  BY <1>1, <1>2

\* The newest poll of a symbol that has come in began at most an interval and the
\* latencies of the queries up to it ago.
LEMMA AnsweredLately ==
  ASSUME QuoteInv, ~refused, due # <<>>, NEW n \in DOMAIN QuoteSymbols
  PROVE  quoteClock - answered[QuoteSymbols[n]] <= PollEvery + n * MaxLatency
<1> DEFINE A == answered[QuoteSymbols[n]]
           L == n * MaxLatency
<1>1. /\ quoteClock \in Nat /\ A \in Nat /\ n \in Nat /\ MaxLatency \in Nat
      /\ PollEvery \in Nat /\ PollEvery # 0
      /\ due[1] \in Nat /\ quoteClock <= due[1]
  <2>1. QuoteSymbols[n] \in Tracked /\ n \in Nat
    BY SymbolsAre
  <2>2. quoteClock \in Nat /\ A \in Nat
    BY <2>1 DEF QuoteInv, QuoteTypeOK
  <2>3. due[1] \in Nat /\ quoteClock <= due[1]
    BY DEF QuoteInv, QuoteTypeOK, TimerOK
  <2> QED
    BY <2>1, <2>2, <2>3, QuoteAssumption
<1>2. L \in Nat
  BY <1>1
<1>3. SUFFICES ASSUME quoteClock - A > PollEvery + L PROVE FALSE
  BY <1>1, <1>2
<1> HIDE DEF A, L
<1> DEFINE x == quoteClock - L - 1
           i == x \div PollEvery
           t == i * PollEvery
<1>4. x \in Nat /\ x < quoteClock
  BY <1>1, <1>2, <1>3
<1> HIDE DEF x
<1>5. i \in Nat /\ (x % PollEvery) \in 0 .. (PollEvery - 1)
  BY <1>1, <1>4
<1>6. x = PollEvery * i + (x % PollEvery)
  BY <1>1, <1>4
<1> HIDE DEF i
<1>7. PollEvery * i = t /\ t \in Nat
  BY <1>1, <1>5
<1>8. t <= x /\ x < t + PollEvery
  BY <1>1, <1>4, <1>5, <1>6, <1>7
<1>9. CameIn(n, t)
  <2>1. t < due[1]
    BY <1>1, <1>4, <1>7, <1>8
  <2> QED
    BY <1>5, <2>1 DEF QuoteInv, PollsComeIn
<1> HIDE DEF t
<1>10. CASE A >= t
  BY <1>1, <1>2, <1>3, <1>7, <1>8, <1>10 DEF x
<1>11. ASSUME NEW r \in Refreshes, Underway(refreshes[r], n, t) PROVE FALSE
  <2> DEFINE run == refreshes[r]
             a == (run.nth - 1) * MaxLatency
  <2>1. run \in Polls /\ PollOK(run)
    BY DEF QuoteInv, QuoteTypeOK
  <2>2. /\ run.nth \in Nat /\ run.now \in Nat /\ run.nth <= n
        /\ quoteClock <= run.now + MaxLatency /\ run.now <= t + a
    BY <1>11, <2>1 DEF Polls, PollOK, Underway
  <2>3. a + MaxLatency <= L /\ a \in Int
    <3>1. (n - run.nth) * MaxLatency >= 0
      BY <1>1, <2>2
    <3>2. L = (n - run.nth) * MaxLatency + (a + MaxLatency)
      BY <1>1, <2>2 DEF L
    <3>3. (n - run.nth) * MaxLatency \in Int /\ a \in Int
      BY <1>1, <2>2
    <3> DEFINE d == (n - run.nth) * MaxLatency
    <3> HIDE DEF d, a
    <3> QED
      BY <1>1, <3>1, <3>2, <3>3 DEF d
  <2> HIDE DEF a, run
  <2> QED
    BY <1>1, <1>2, <1>7, <1>8, <2>2, <2>3 DEF x
<1> QED
  BY <1>9, <1>10, <1>11 DEF CameIn, A

LEMMA MarkIsYoung == QuoteInv => MarkAgesOut
<1> SUFFICES ASSUME QuoteInv, NEW s \in Tracked, quote(s) # <<>>
             PROVE  /\ answered[s] - quote(s)[1] <= MaxAge + MaxLatency
                    /\ ~refused /\ due # <<>> =>
                         quoteClock - quote(s)[1] <= MaxAge + PollEvery + (Nth(s) + 1) * MaxLatency
  BY DEF MarkAgesOut
<1> DEFINE n == Nth(s)
           L == n * MaxLatency
<1>1. n \in DOMAIN QuoteSymbols /\ n \in Nat /\ QuoteSymbols[n] = s
  BY SymbolsAre
<1>2. /\ quoteClock \in Nat /\ answered[s] \in Nat /\ MaxLatency \in Nat /\ MaxAge \in Nat
      /\ PollEvery \in Nat /\ quote(s)[1] \in Nat
  BY QuoteAssumption DEF quote, QuoteInv, QuoteTypeOK
<1>3. answered[s] - quote(s)[1] <= MaxAge + MaxLatency
  BY DEF QuoteInv, MarkOK, quote
<1>4. (n + 1) * MaxLatency = L + MaxLatency /\ L \in Nat
  BY <1>1, <1>2
<1> HIDE DEF n
<1>5. ~refused /\ due # <<>> => quoteClock - answered[s] <= PollEvery + L
  BY <1>1, AnsweredLately
<1> HIDE DEF L
<1>6. ~refused /\ due # <<>> => quoteClock - quote(s)[1] <= MaxAge + PollEvery + (L + MaxLatency)
  BY <1>2, <1>3, <1>4, <1>5
<1> QED
  BY <1>3, <1>4, <1>6 DEF n

\* DbQuoteTransport: for any symbols, ages, intervals and latencies, and any number of
\* polls that overlap and come in out of order, the mark a quote is served from is never
\* older than the newest answered poll allows, nor, while every poll is answered, than
\* an interval and the latencies of the queries before it.
THEOREM MarksAgeOut == QuoteSpec => []MarkAgesOut
<1>1. QuoteSpec => []QuoteInv
  BY QuoteStart, QuoteStep, PTL DEF QuoteSpec
<1> QED
  BY <1>1, MarkIsYoung, PTL

-----------------------------------------------------------------------------
\* The account and its ledger: rounding, sums over the positions, the peak of the series.

\* Integer division, by its two bounds.
LEMMA DivideIs ==
  ASSUME NEW n \in Int, NEW d \in Nat \ {0}
  PROVE  /\ n \div d \in Int
         /\ d * (n \div d) <= n
         /\ n < d * (n \div d) + d
OBVIOUS

\* Size and sign of an integer.
LEMMA SizeIs ==
  ASSUME NEW n \in Int
  PROVE  /\ Size(n) \in Nat /\ Sign(n) \in {-1, 0, 1}
         /\ Sign(n) = 0 <=> n = 0
         /\ Sign(n) = 1 <=> n > 0
         /\ Sign(n) = -1 <=> n < 0
         /\ n >= 0 => Size(n) = n
         /\ n < 0 => Size(n) = -n
         /\ \A m \in Int : Size(n) <= m <=> n <= m /\ -m <= n
BY DEF Size, Sign

\* toFixed is off by at most half a unit.
LEMMA NearestIs ==
  ASSUME NEW n \in Int, NEW d \in Nat \ {0}
  PROVE  Nearest(n, d) \in Int /\ 2 * Size(d * Nearest(n, d) - n) <= d
<1> DEFINE q == (2 * Size(n) + d) \div (2 * d)
<1>1. Size(n) \in Nat /\ 2 * Size(n) + d \in Int /\ 2 * d \in Nat \ {0}
  BY SizeIs
<1>2. q \in Int /\ (2 * d) * q <= 2 * Size(n) + d /\ 2 * Size(n) + d < (2 * d) * q + (2 * d)
  BY <1>1, DivideIs
<1> HIDE DEF q
<1> DEFINE r == d * q
<1>3. r \in Int /\ (2 * d) * q = 2 * r
  BY <1>2
<1>4. d * (0 - q) = -r /\ d * 0 = 0 /\ 0 * q = 0 /\ 1 * q = q /\ (-1) * q = 0 - q
  BY <1>2
<1> HIDE DEF r
<1>5. 2 * r <= 2 * Size(n) + d /\ 2 * Size(n) < 2 * r + d
  BY <1>1, <1>2, <1>3
<1>6. Nearest(n, d) = Sign(n) * q
  BY DEF Nearest, q
<1>7. CASE n = 0
  <2>1. Nearest(n, d) = 0
    BY <1>4, <1>6, <1>7 DEF Sign
  <2> QED
    BY <1>4, <1>7, <2>1 DEF Size
<1>8. CASE n > 0
  <2>1. Nearest(n, d) = q /\ Size(n) = n
    BY <1>4, <1>6, <1>8 DEF Sign, Size
  <2> QED
    BY <1>2, <1>3, <1>5, <2>1 DEF Size, r
<1>9. CASE n < 0
  <2>1. Nearest(n, d) = 0 - q /\ Size(n) = -n /\ Nearest(n, d) \in Int
    BY <1>2, <1>4, <1>6, <1>9 DEF Sign, Size
  <2>2. d * Nearest(n, d) = -r
    BY <1>4, <2>1
  <2>3. Size(d * Nearest(n, d) - n) = Size(-r - n)
    BY <2>2
  <2> QED
    BY <1>3, <1>5, <2>1, <2>3 DEF Size
<1> QED
  BY <1>7, <1>8, <1>9

\* n is a whole number of cents.
Multiple(n) == \E k \in Int : n = Cent * k

\* A quantized amount is whole cents, within half a cent, and the amount itself where
\* that is whole cents.
LEMMA QuantizeIs ==
  ASSUME NEW n \in Int
  PROVE  /\ quantizePnl(n) \in Int /\ Multiple(quantizePnl(n))
         /\ 2 * Size(quantizePnl(n) - n) <= Cent
         /\ Multiple(n) => quantizePnl(n) = n
<1> DEFINE k == Nearest(n, Cent)
<1>1. Cent \in Nat \ {0}
  BY LedgerAssumption
<1>2. k \in Int /\ 2 * Size(Cent * k - n) <= Cent
  BY <1>1, NearestIs
<1>3. quantizePnl(n) = Cent * k
  BY DEF quantizePnl
<1> HIDE DEF k
<1>4. Cent * k \in Int
  BY <1>1, <1>2
<1>5. ASSUME NEW m \in Int, n = Cent * m
      PROVE  Cent * k = n
  <2>1. 2 * (Cent * k - Cent * m) <= Cent /\ 2 * (Cent * m - Cent * k) <= Cent
    BY <1>1, <1>2, <1>4, <1>5 DEF Size
  <2>2. k < m + 1 /\ m < k + 1
    <3>1. ASSUME k >= m + 1 PROVE FALSE
      <4>1. Cent * k >= Cent * (m + 1) /\ Cent * (m + 1) = Cent * m + Cent
        BY <1>1, <1>2, <3>1
      <4> QED
        BY <1>1, <1>4, <1>5, <2>1, <4>1
    <3>2. ASSUME m >= k + 1 PROVE FALSE
      <4>1. Cent * m >= Cent * (k + 1) /\ Cent * (k + 1) = Cent * k + Cent
        BY <1>1, <1>2, <3>2
      <4> QED
        BY <1>1, <1>4, <1>5, <2>1, <4>1
    <3> QED
      BY <1>2, <3>1, <3>2
  <2> QED
    BY <1>2, <1>5, <2>2
<1> QED
  BY <1>2, <1>3, <1>4, <1>5 DEF Multiple

\* A position with its cost basis.
HeldPosition == [netQty : Int, avgEntryPrice : Int, realizedPnl : Int, markPrice : Int]

\* Twice what a fill may round away: half a cent on what it realizes, half a price unit
\* per item on a new average.
Allowed(p, f) ==
  CASE Sign(p.netQty) * Sign(f) = -1 -> Cent
    [] Sign(p.netQty) * Sign(f) = 0  -> 0
    [] OTHER                         -> Size(p.netQty + f)

\* Adding to a position: its cost is the old cost and the price paid, up to half a unit
\* per item.
LEMMA AddedBasis ==
  ASSUME NEW n \in Int, NEW f \in Int, NEW a \in Int, NEW price \in Int,
         (n > 0 /\ f > 0) \/ (n < 0 /\ f < 0)
  PROVE  LET b == Nearest(Size(n) * a + Size(f) * price, Size(n + f))
         IN b \in Int /\ 2 * Size(f * price - ((n + f) * b - n * a)) <= Size(n + f)
<1> DEFINE d == Size(n + f)
           w == Size(n) * a + Size(f) * price
           b == Nearest(w, d)
<1>1. Size(n) \in Nat /\ Size(f) \in Nat /\ d \in Nat \ {0}
  BY DEF Size
<1>2. w \in Int
  BY <1>1
<1>3. b \in Int /\ 2 * Size(d * b - w) <= d
  BY <1>1, <1>2, NearestIs
<1> HIDE DEF b
<1>4. CASE n > 0 /\ f > 0
  <2>1. d = n + f /\ w = n * a + f * price
    BY <1>4 DEF Size
  <2>2. d * b \in Int /\ n * a \in Int /\ f * price \in Int /\ d * b = (n + f) * b
    BY <1>1, <1>3, <2>1
  <2> HIDE DEF d, w
  <2>3. f * price - ((n + f) * b - n * a) = -(d * b - w)
    BY <2>1, <2>2
  <2>4. Size(-(d * b - w)) = Size(d * b - w)
    BY <1>2, <2>2 DEF Size
  <2> QED
    BY <1>3, <2>3, <2>4 DEF d, w, b
<1>5. CASE n < 0 /\ f < 0
  <2>1. d = (-n) + (-f) /\ w = (-n) * a + (-f) * price
    BY <1>5 DEF Size
  <2>2. /\ d * b \in Int /\ n * a \in Int /\ f * price \in Int
        /\ (n + f) * b = -(d * b) /\ (-n) * a = -(n * a) /\ (-f) * price = -(f * price)
    <3>1. (-n) * a = -(n * a) /\ (-f) * price = -(f * price)
      OBVIOUS
    <3>2. d * b = -((n + f) * b)
      BY <1>3, <2>1
    <3> QED
      BY <1>1, <1>3, <3>1, <3>2
  <2> HIDE DEF d, w
  <2>3. f * price - ((n + f) * b - n * a) = d * b - w
    BY <2>1, <2>2
  <2> QED
    BY <1>3, <2>3 DEF d, w, b
<1> QED
  BY <1>4, <1>5

\* What a fill realizes, and what it changes of the cost of what is held, is what it
\* cost, up to rounding; opening, adding, reducing, closing and flipping alike.
LEMMA FillMoves ==
  ASSUME NEW p \in HeldPosition, Multiple(p.realizedPnl), NEW f \in Int, f # 0, NEW price \in Int
  PROVE  LET next == applyFillToPosition(p, f, price)
         IN /\ next \in HeldPosition /\ Multiple(next.realizedPnl)
            /\ 2 * Size(next.realizedPnl - p.realizedPnl + f * price
                          - (next.netQty * next.avgEntryPrice - p.netQty * p.avgEntryPrice))
               <= Allowed(p, f)
            /\ next.netQty = p.netQty + f
<1> DEFINE n == p.netQty
           a == p.avgEntryPrice
           x == p.realizedPnl
           b == nextBasis(p, f, price)
           r == realizedBy(p, f, price)
           y == quantizePnl(x + r)
           next == applyFillToPosition(p, f, price)
<1>1. n \in Int /\ a \in Int /\ x \in Int /\ Cent \in Nat \ {0}
  BY LedgerAssumption DEF HeldPosition
<1>2. /\ next.netQty = n + f /\ next.avgEntryPrice = b /\ next.realizedPnl = y
      /\ next = [netQty |-> n + f, avgEntryPrice |-> b, realizedPnl |-> y, markPrice |-> price]
  BY DEF applyFillToPosition
<1>3. ASSUME r \in Int PROVE y \in Int /\ Multiple(y) /\ 2 * Size(y - (x + r)) <= Cent /\ (r = 0 => y = x)
  <2>1. x + r \in Int
    BY <1>1, <1>3
  <2> QED
    BY <1>1, <1>3, <2>1, QuantizeIs
<1>4. SUFFICES /\ b \in Int /\ r \in Int
               /\ 2 * Size(y - x + f * price - ((n + f) * b - n * a)) <= Allowed(p, f)
  BY <1>1, <1>2, <1>3 DEF HeldPosition
<1> HIDE DEF y
<1>5. Sign(n) \in Int /\ Sign(f) \in {-1, 1}
  BY <1>1 DEF Sign
<1>6. CASE n = 0
  <2>1. Sign(n) = 0 /\ Sign(n) * Sign(f) = 0
    BY <1>5, <1>6 DEF Sign
  <2>2. b = price /\ r = 0 /\ Allowed(p, f) = 0
    BY <1>6, <2>1 DEF nextBasis, realizedBy, Allowed
  <2>3. y = x
    BY <1>3, <2>2
  <2>4. (n + f) * b = f * price /\ n * a = 0 /\ f * price \in Int
    BY <1>1, <1>6, <2>2
  <2> HIDE DEF b
  <2>5. y - x + f * price - ((n + f) * b - n * a) = 0
    BY <1>1, <2>3, <2>4
  <2>6. 2 * Size(0) <= 0
    BY DEF Size
  <2> QED
    BY <2>2, <2>5, <2>6
<1>7. CASE (n > 0 /\ f > 0) \/ (n < 0 /\ f < 0)
  <2>1. n # 0 /\ Sign(n) = Sign(f) /\ Sign(n) * Sign(f) = 1
    BY <1>1, <1>7 DEF Sign
  <2>2. b = Nearest(Size(n) * a + Size(f) * price, Size(n + f)) /\ r = 0 /\ Allowed(p, f) = Size(n + f)
    BY <2>1 DEF nextBasis, realizedBy, Allowed
  <2>3. y = x
    BY <1>3, <2>2
  <2>4. b \in Int /\ 2 * Size(f * price - ((n + f) * b - n * a)) <= Size(n + f)
    <3>1. LET c == Nearest(Size(n) * a + Size(f) * price, Size(n + f))
          IN c \in Int /\ 2 * Size(f * price - ((n + f) * c - n * a)) <= Size(n + f)
      <4> HIDE DEF n, a
      <4> QED
        BY <1>1, <1>7, AddedBasis
    <3> QED
      BY <2>2, <3>1
  <2> HIDE DEF b
  <2>5. y - x + f * price - ((n + f) * b - n * a) = f * price - ((n + f) * b - n * a)
    BY <1>1, <2>3, <2>4
  <2> QED
    BY <2>2, <2>4, <2>5
<1>8. CASE (n > 0 /\ f < 0) \/ (n < 0 /\ f > 0)
  <2>1. n # 0 /\ Sign(n) # Sign(f) /\ Sign(n) * Sign(f) = -1
    BY <1>1, <1>8 DEF Sign
  <2>2. Allowed(p, f) = Cent
    BY <2>1 DEF Allowed
  <2>3. b = IF n + f = 0 THEN 0 ELSE IF Size(f) < Size(n) THEN a ELSE price
    BY <2>1 DEF nextBasis
  <2>4. b \in Int
    BY <1>1, <2>3
  <2>5. r = Least(Size(f), Size(n)) * (price - a) * Sign(n)
    BY <2>1 DEF realizedBy
  <2>6. r \in Int /\ f * price - ((n + f) * b - n * a) = -r
    <3>1. CASE Size(f) < Size(n) /\ n + f # 0
      <4>1. b = a /\ Least(Size(f), Size(n)) = Size(f)
        BY <2>3, <3>1 DEF Least
      <4>2. Size(f) * (price - a) * Sign(n) = (-f) * (price - a)
        BY <1>1, <1>8 DEF Size, Sign
      <4> QED
        BY <1>1, <2>5, <4>1, <4>2
    <3>2. CASE n + f = 0
      <4>1. b = 0 /\ Least(Size(f), Size(n)) = Size(f)
        BY <1>1, <2>3, <3>2 DEF Least, Size
      <4>2. Size(f) * (price - a) * Sign(n) = (-f) * (price - a)
        BY <1>1, <1>8 DEF Size, Sign
      <4>3. n = -f /\ (n + f) * b = 0
        BY <1>1, <2>4, <3>2
      <4> QED
        BY <1>1, <2>5, <4>1, <4>2, <4>3
    <3>3. CASE ~(Size(f) < Size(n)) /\ n + f # 0
      <4>1. b = price /\ Least(Size(f), Size(n)) = Size(n)
        BY <1>1, <2>3, <3>3 DEF Least, Size
      <4>2. Size(n) * (price - a) * Sign(n) = n * (price - a)
        BY <1>1, <1>8 DEF Size, Sign
      <4> QED
        BY <1>1, <2>5, <4>1, <4>2
    <3> QED
      BY <3>1, <3>2, <3>3
  <2>7. y \in Int /\ 2 * Size(y - (x + r)) <= Cent
    BY <1>3, <2>6
  <2> HIDE DEF b, r
  <2>8. f * price \in Int /\ (n + f) * b \in Int /\ n * a \in Int
    BY <1>1, <2>4
  <2>9. y - x + f * price - ((n + f) * b - n * a) = y - (x + r)
    BY <1>1, <2>6, <2>7, <2>8
  <2> QED
    BY <2>2, <2>4, <2>6, <2>7, <2>9
<1> QED
  BY <1>1, <1>6, <1>7, <1>8

\* The sum of differences is the difference of the sums.
LEMMA SumMinus ==
  ASSUME NEW S, IsFiniteSet(S), NEW f, NEW g, NEW h,
         \A x \in S : f[x] \in Int /\ g[x] \in Int /\ h[x] = f[x] - g[x]
  PROVE  SumOf(h, S) = SumOf(f, S) - SumOf(g, S)
<1>1. PICK it \in [SUBSET S -> Int] : Summed(it, f, S) /\ SumOf(f, S) = it[S]
  BY SumIs
<1>2. PICK jt \in [SUBSET S -> Int] : Summed(jt, g, S) /\ SumOf(g, S) = jt[S]
  BY SumIs
<1>3. \A x \in S : h[x] \in Int
  OBVIOUS
<1>4. PICK kt \in [SUBSET S -> Int] : Summed(kt, h, S) /\ SumOf(h, S) = kt[S]
  BY <1>3, SumIs
<1> DEFINE lt == [t \in SUBSET S |-> it[t] - jt[t]]
<1>5. Summed(lt, h, S)
  <2>1. ASSUME NEW t \in SUBSET S
        PROVE  lt[t] = IF t = {} THEN 0
                       ELSE h[CHOOSE x \in t : TRUE] + lt[t \ {CHOOSE x \in t : TRUE}]
    <3>1. CASE t = {}
      BY <1>1, <1>2, <3>1 DEF Summed
    <3>2. CASE t # {}
      <4> DEFINE c == CHOOSE x \in t : TRUE
      <4>1. c \in S /\ t \ {c} \in SUBSET S
        BY <3>2
      <4>2. it[t] = f[c] + it[t \ {c}] /\ jt[t] = g[c] + jt[t \ {c}]
        BY <1>1, <1>2, <3>2 DEF Summed
      <4>3. lt[t] = it[t] - jt[t] /\ lt[t \ {c}] = it[t \ {c}] - jt[t \ {c}]
        BY <4>1
      <4>4. it[t \ {c}] \in Int /\ jt[t \ {c}] \in Int
        BY <1>1, <1>2, <4>1
      <4> HIDE DEF lt, c
      <4>5. lt[t] = h[c] + lt[t \ {c}]
        BY <4>1, <4>2, <4>3, <4>4
      <4> QED
        BY <3>2, <4>5 DEF c
    <3> QED
      BY <3>1, <3>2
  <2> QED
    BY <2>1 DEF Summed
<1>6. kt[S] = lt[S]
  BY <1>4, <1>5, SumAgrees
<1> QED
  BY <1>1, <1>2, <1>4, <1>6

Unrealized(b) == [s \in Held |-> unrealizedPnl(b[s])]
UnrealizedTotal(b) == MapThenSumSet(LAMBDA s : unrealizedPnl(b[s]), Held)
SumsUnrealized(g, b) ==
  g = [t \in SUBSET Held |-> IF t = {} THEN 0
         ELSE unrealizedPnl(b[CHOOSE x \in t : TRUE])
              + g[t \ {CHOOSE x \in t : TRUE}]]

\* What the positions would earn at their marks.
LEMMA UnrealizedUnfold ==
  ASSUME NEW b, NEW it, SumsUnrealized(it, b)
  PROVE  \E g : SumsUnrealized(g, b) /\ UnrealizedTotal(b) = g[Held]
BY Zenon DEF UnrealizedTotal, MapThenSumSet, MapThenFoldSet, SumsUnrealized

\* The profit at the marks is summed in any order.
LEMMA UnrealizedSum ==
  ASSUME NEW b \in [Held -> HeldPosition]
  PROVE  /\ \A s \in Held : Unrealized(b)[s] = unrealizedPnl(b[s]) /\ Unrealized(b)[s] \in Int
         /\ UnrealizedTotal(b) = SumOf(Unrealized(b), Held)
<1>1. \A s \in Held : Unrealized(b)[s] = unrealizedPnl(b[s]) /\ Unrealized(b)[s] \in Int
  BY DEF HeldPosition, Unrealized, unrealizedPnl
<1>2. PICK it \in [SUBSET Held -> Int] : Summed(it, Unrealized(b), Held) /\ SumOf(Unrealized(b), Held) = it[Held]
  BY <1>1, LedgerAssumption, SumIs
<1>3. \A t \in SUBSET Held : t # {} => (CHOOSE x \in t : TRUE) \in Held
  OBVIOUS
<1>4. SumsUnrealized(it, b)
  <2>1. \A t \in SUBSET Held : it[t] = IF t = {} THEN 0
          ELSE unrealizedPnl(b[CHOOSE x \in t : TRUE])
               + it[t \ {CHOOSE x \in t : TRUE}]
    BY <1>1, <1>2, <1>3 DEF Summed
  <2> QED
    BY <1>2, <2>1 DEF SumsUnrealized
<1>5. PICK g : SumsUnrealized(g, b) /\ UnrealizedTotal(b) = g[Held]
  BY <1>4, UnrealizedUnfold
<1>6. Summed(g, Unrealized(b), Held)
  <2>1. \A t \in SUBSET Held : g[t] = IF t = {} THEN 0
          ELSE unrealizedPnl(b[CHOOSE x \in t : TRUE])
               + g[t \ {CHOOSE x \in t : TRUE}]
    BY <1>5 DEF SumsUnrealized
  <2> QED
    BY <1>1, <1>3, <2>1 DEF Summed
<1>7. g[Held] = it[Held]
  BY <1>2, <1>6, LedgerAssumption, SumAgrees
<1> QED
  BY <1>1, <1>2, <1>5, <1>7

Exposures(b) == [s \in Held |-> Size(b[s].netQty) * b[s].markPrice]
ExposuresTotal(b) == MapThenSumSet(LAMBDA s : Size(b[s].netQty) * b[s].markPrice, Held)
SumsExposures(g, b) ==
  g = [t \in SUBSET Held |-> IF t = {} THEN 0
         ELSE Size(b[CHOOSE x \in t : TRUE].netQty) * b[CHOOSE x \in t : TRUE].markPrice
              + g[t \ {CHOOSE x \in t : TRUE}]]

\* What the positions expose.
LEMMA ExposuresUnfold ==
  ASSUME NEW b, NEW it, SumsExposures(it, b)
  PROVE  \E g : SumsExposures(g, b) /\ ExposuresTotal(b) = g[Held]
BY Zenon DEF ExposuresTotal, MapThenSumSet, MapThenFoldSet, SumsExposures

\* The exposure is summed in any order.
LEMMA ExposuresSum ==
  ASSUME NEW b \in [Held -> HeldPosition]
  PROVE  /\ \A s \in Held : Exposures(b)[s] = Size(b[s].netQty) * b[s].markPrice /\ Exposures(b)[s] \in Int
         /\ ExposuresTotal(b) = SumOf(Exposures(b), Held)
<1>1. \A s \in Held : Exposures(b)[s] = Size(b[s].netQty) * b[s].markPrice /\ Exposures(b)[s] \in Int
  BY DEF HeldPosition, Exposures, Size
<1>2. PICK it \in [SUBSET Held -> Int] : Summed(it, Exposures(b), Held) /\ SumOf(Exposures(b), Held) = it[Held]
  BY <1>1, LedgerAssumption, SumIs
<1>3. \A t \in SUBSET Held : t # {} => (CHOOSE x \in t : TRUE) \in Held
  OBVIOUS
<1>4. SumsExposures(it, b)
  <2>1. \A t \in SUBSET Held : it[t] = IF t = {} THEN 0
          ELSE Size(b[CHOOSE x \in t : TRUE].netQty) * b[CHOOSE x \in t : TRUE].markPrice
               + it[t \ {CHOOSE x \in t : TRUE}]
    BY <1>1, <1>2, <1>3 DEF Summed
  <2> QED
    BY <1>2, <2>1 DEF SumsExposures
<1>5. PICK g : SumsExposures(g, b) /\ ExposuresTotal(b) = g[Held]
  BY <1>4, ExposuresUnfold
<1>6. Summed(g, Exposures(b), Held)
  <2>1. \A t \in SUBSET Held : g[t] = IF t = {} THEN 0
          ELSE Size(b[CHOOSE x \in t : TRUE].netQty) * b[CHOOSE x \in t : TRUE].markPrice
               + g[t \ {CHOOSE x \in t : TRUE}]
    BY <1>5 DEF SumsExposures
  <2> QED
    BY <1>1, <1>3, <2>1 DEF Summed
<1>7. g[Held] = it[Held]
  BY <1>2, <1>6, LedgerAssumption, SumAgrees
<1> QED
  BY <1>1, <1>2, <1>5, <1>7

Worth(b) == [s \in Held |-> b[s].netQty * b[s].markPrice]
WorthTotal(b) == MapThenSumSet(LAMBDA s : b[s].netQty * b[s].markPrice, Held)
SumsWorth(g, b) ==
  g = [t \in SUBSET Held |-> IF t = {} THEN 0
         ELSE b[CHOOSE x \in t : TRUE].netQty * b[CHOOSE x \in t : TRUE].markPrice
              + g[t \ {CHOOSE x \in t : TRUE}]]

\* What the positions are worth at their marks.
LEMMA WorthUnfold ==
  ASSUME NEW b, NEW it, SumsWorth(it, b)
  PROVE  \E g : SumsWorth(g, b) /\ WorthTotal(b) = g[Held]
BY Zenon DEF WorthTotal, MapThenSumSet, MapThenFoldSet, SumsWorth

\* The worth at the marks is summed in any order.
LEMMA WorthSum ==
  ASSUME NEW b \in [Held -> HeldPosition]
  PROVE  /\ \A s \in Held : Worth(b)[s] = b[s].netQty * b[s].markPrice /\ Worth(b)[s] \in Int
         /\ WorthTotal(b) = SumOf(Worth(b), Held)
<1>1. \A s \in Held : Worth(b)[s] = b[s].netQty * b[s].markPrice /\ Worth(b)[s] \in Int
  BY DEF HeldPosition, Worth, HeldPosition
<1>2. PICK it \in [SUBSET Held -> Int] : Summed(it, Worth(b), Held) /\ SumOf(Worth(b), Held) = it[Held]
  BY <1>1, LedgerAssumption, SumIs
<1>3. \A t \in SUBSET Held : t # {} => (CHOOSE x \in t : TRUE) \in Held
  OBVIOUS
<1>4. SumsWorth(it, b)
  <2>1. \A t \in SUBSET Held : it[t] = IF t = {} THEN 0
          ELSE b[CHOOSE x \in t : TRUE].netQty * b[CHOOSE x \in t : TRUE].markPrice
               + it[t \ {CHOOSE x \in t : TRUE}]
    BY <1>1, <1>2, <1>3 DEF Summed
  <2> QED
    BY <1>2, <2>1 DEF SumsWorth
<1>5. PICK g : SumsWorth(g, b) /\ WorthTotal(b) = g[Held]
  BY <1>4, WorthUnfold
<1>6. Summed(g, Worth(b), Held)
  <2>1. \A t \in SUBSET Held : g[t] = IF t = {} THEN 0
          ELSE b[CHOOSE x \in t : TRUE].netQty * b[CHOOSE x \in t : TRUE].markPrice
               + g[t \ {CHOOSE x \in t : TRUE}]
    BY <1>5 DEF SumsWorth
  <2> QED
    BY <1>1, <1>3, <2>1 DEF Summed
<1>7. g[Held] = it[Held]
  BY <1>2, <1>6, LedgerAssumption, SumAgrees
<1> QED
  BY <1>1, <1>2, <1>5, <1>7

\* What the positions cost.
Costs(b) == [s \in Held |-> b[s].netQty * b[s].avgEntryPrice]

\* The marks cancel: profit at the marks is worth at the marks less cost.
LEMMA MarksCancel ==
  ASSUME NEW b \in [Held -> HeldPosition]
  PROVE  /\ \A s \in Held : Costs(b)[s] = b[s].netQty * b[s].avgEntryPrice /\ Costs(b)[s] \in Int
         /\ SumOf(Costs(b), Held) \in Int /\ SumOf(Worth(b), Held) \in Int
         /\ SumOf(Unrealized(b), Held) = SumOf(Worth(b), Held) - SumOf(Costs(b), Held)
<1>1. \A s \in Held : /\ b[s].netQty \in Int /\ b[s].avgEntryPrice \in Int /\ b[s].markPrice \in Int
                     /\ Costs(b)[s] = b[s].netQty * b[s].avgEntryPrice
  BY DEF HeldPosition, Costs
<1>2. \A s \in Held : Costs(b)[s] \in Int
  BY <1>1
<1>3. \A s \in Held : Worth(b)[s] \in Int /\ Worth(b)[s] = b[s].netQty * b[s].markPrice
  BY WorthSum
<1>4. ASSUME NEW s \in Held PROVE Unrealized(b)[s] = Worth(b)[s] - Costs(b)[s]
  <2>1. Unrealized(b)[s] = b[s].netQty * (b[s].markPrice - b[s].avgEntryPrice)
    BY UnrealizedSum DEF unrealizedPnl
  <2> QED
    BY <1>1, <1>3, <2>1
<1>5. SumOf(Unrealized(b), Held) = SumOf(Worth(b), Held) - SumOf(Costs(b), Held)
  BY <1>2, <1>3, <1>4, LedgerAssumption, SumMinus
<1> QED
  BY <1>1, <1>2, <1>3, <1>5, LedgerAssumption, SumFacts

\* Rounding a number that is not negative.
LEMMA NearestOfNat ==
  ASSUME NEW n \in Nat, NEW d \in Nat \ {0}
  PROVE  LET q == Nearest(n, d)
         IN q \in Nat /\ 2 * (d * q) <= 2 * n + d /\ 2 * n + d < 2 * (d * q) + 2 * d
<1> DEFINE q == (2 * n + d) \div (2 * d)
<1>1. 2 * n + d \in Int /\ 2 * d \in Nat \ {0}
  OBVIOUS
<1>2. q \in Int /\ (2 * d) * q <= 2 * n + d /\ 2 * n + d < (2 * d) * q + (2 * d)
  BY <1>1, DivideIs
<1> HIDE DEF q
<1>3. (2 * d) * q = 2 * (d * q) /\ d * q \in Int
  BY <1>2
<1>4. q \in Nat
  <2>1. ASSUME q <= -1 PROVE FALSE
    <3>1. d * q <= d * (-1) /\ d * (-1) = -d
      BY <1>2, <2>1
    <3> QED
      BY <1>2, <1>3, <3>1
  <2> QED
    BY <1>2, <2>1
<1>5. Nearest(n, d) = q
  <2>1. CASE n = 0
    <3>1. q = 0
      <4>1. ASSUME q >= 1 PROVE FALSE
        <5>1. d * q >= d * 1 /\ d * 1 = d
          BY <1>2, <4>1
        <5> QED
          BY <1>2, <1>3, <2>1, <5>1
      <4> QED
        BY <1>4, <4>1
    <3>2. Nearest(n, d) = 0 * ((2 * Size(n) + d) \div (2 * d))
      BY <2>1 DEF Nearest, Sign
    <3>3. Size(n) = n
      BY DEF Size
    <3> QED
      BY <1>2, <3>1, <3>2, <3>3 DEF q
  <2>2. CASE n > 0
    <3>1. Sign(n) = 1 /\ Size(n) = n
      BY <2>2 DEF Sign, Size
    <3> QED
      BY <1>2, <3>1 DEF Nearest, q
  <2> QED
    BY <2>1, <2>2
<1> QED
  BY <1>2, <1>3, <1>4, <1>5

\* A drawdown is none at the peak, and complete once the equity is negative.
LEMMA DrawdownIs ==
  ASSUME NEW p \in Nat \ {0}, NEW e \in Int
  PROVE  /\ quantizeDrawdown(p, e) \in Nat /\ quantizeDrawdown(p, e) <= DrawdownUnits
         /\ e >= p => quantizeDrawdown(p, e) = 0
         /\ e < 0 => quantizeDrawdown(p, e) = DrawdownUnits
         /\ e < p => /\ DrawdownUnits * (p - e) \in Nat
                     /\ quantizeDrawdown(p, e) = Least(Nearest(DrawdownUnits * (p - e), p), DrawdownUnits)
<1> DEFINE D == DrawdownUnits
           m == Most(p - e, 0)
           n == D * m
           q == Nearest(n, p)
<1>1. D \in Nat
  BY LedgerAssumption
<1>2. m \in Nat /\ (e >= p => m = 0) /\ (e < p => m = p - e)
  BY DEF Most
<1> HIDE DEF D, m
<1>3. n \in Nat /\ (m = 0 => n = 0)
  BY <1>1, <1>2
<1> HIDE DEF n
<1>4. q \in Nat /\ 2 * (p * q) <= 2 * n + p /\ 2 * n + p < 2 * (p * q) + 2 * p
  BY <1>3, NearestOfNat
<1>5. quantizeDrawdown(p, e) = Least(q, D)
  BY DEF quantizeDrawdown, q, n, m, D
<1>6. ASSUME e >= p PROVE q = 0
  BY <1>2, <1>3, <1>6 DEF Nearest, Sign, Size, q
<1> HIDE DEF q
<1>7. ASSUME e < 0 PROVE q >= D
  <2>1. m >= p
    BY <1>2, <1>7
  <2>2. n >= D * p /\ D * p \in Int
    BY <1>1, <1>2, <2>1 DEF n
  <2>3. ASSUME q + 1 <= D PROVE FALSE
    <3>1. p * (q + 1) <= p * D /\ p * (q + 1) = p * q + p /\ p * D = D * p /\ p * q \in Int
      BY <1>1, <1>4, <2>3
    <3> QED
      BY <1>3, <1>4, <2>2, <3>1
  <2> QED
    BY <1>1, <1>4, <2>3
<1>8. ASSUME e < p PROVE n = D * (p - e)
  BY <1>2, <1>8 DEF n
<1>9. Least(q, D) \in Nat /\ Least(q, D) <= D /\ (q = 0 => Least(q, D) = 0) /\ (q >= D => Least(q, D) = D)
  BY <1>1, <1>4 DEF Least
<1> QED
  BY <1>3, <1>5, <1>6, <1>7, <1>8, <1>9 DEF D, q

\* From a higher peak the same equity is at least as deep a drawdown.
LEMMA DrawdownGrows ==
  ASSUME NEW p \in Nat \ {0}, NEW r \in Nat \ {0}, p <= r, NEW e \in Int
  PROVE  quantizeDrawdown(p, e) <= quantizeDrawdown(r, e)
<1>1. quantizeDrawdown(p, e) \in Nat /\ quantizeDrawdown(r, e) \in Nat /\ DrawdownUnits \in Nat
  BY DrawdownIs, LedgerAssumption
<1>2. CASE e >= p
  BY <1>1, <1>2, DrawdownIs
<1>3. CASE e < 0
  BY <1>1, <1>3, DrawdownIs
<1>4. CASE 0 <= e /\ e < p
  <2> DEFINE D == DrawdownUnits
             x == Nearest(D * (p - e), p)
             y == Nearest(D * (r - e), r)
  <2>1. D * (p - e) \in Nat /\ quantizeDrawdown(p, e) = Least(x, D)
    BY <1>4, DrawdownIs
  <2>2. D * (r - e) \in Nat /\ quantizeDrawdown(r, e) = Least(y, D)
    <3>1. e < r
      BY <1>4
    <3> QED
      BY <3>1, DrawdownIs
  <2>3. /\ x \in Nat /\ 2 * (p * x) <= 2 * (D * (p - e)) + p
    BY <2>1, NearestOfNat
  <2>4. y \in Nat /\ 2 * (D * (r - e)) + r < 2 * (r * y) + 2 * r
    BY <2>2, NearestOfNat
  <2> HIDE DEF x, y
  <2>5. ASSUME y + 1 <= x PROVE FALSE
    <3>1. r * (y + 1) <= r * x /\ r * (y + 1) = r * y + r /\ r * x \in Int /\ r * y \in Int
      BY <2>3, <2>4, <2>5
    <3>2. 2 * (D * (r - e)) + r < 2 * (r * x)
      BY <2>2, <2>4, <3>1
    <3>3. p * (2 * (D * (r - e)) + r) < p * (2 * (r * x))
      BY <2>2, <3>1, <3>2
    <3>4. r * (2 * (p * x)) <= r * (2 * (D * (p - e)) + p)
      BY <2>1, <2>3
    <3>5. p * (2 * (r * x)) = r * (2 * (p * x)) /\ p * (2 * (r * x)) \in Int
      BY <2>3
    <3>6. p * (2 * (D * (r - e)) + r) < r * (2 * (D * (p - e)) + p)
      BY <1>1, <2>1, <2>2, <2>3, <3>3, <3>4, <3>5
    <3>7. D * e \in Nat /\ D * p \in Nat /\ D * r \in Nat
      BY <1>1, <1>4
    <3>8. D * (r - e) = D * r - D * e /\ D * (p - e) = D * p - D * e
      BY <1>1, <1>4
    <3> DEFINE u == D * e
    <3>9. p * u <= r * u /\ p * u \in Int /\ r * u \in Int
      BY <3>7
    <3>10. /\ p * (2 * (D * (r - e)) + r) = 2 * (p * (D * r)) - 2 * (p * u) + p * r
           /\ r * (2 * (D * (p - e)) + p) = 2 * (r * (D * p)) - 2 * (r * u) + r * p
      BY <3>7, <3>8
    <3>11. p * (D * r) = r * (D * p) /\ p * r = r * p /\ p * r \in Int /\ p * (D * r) \in Int
      BY <1>1, <3>7
    <3> HIDE DEF u
    <3> QED
      BY <3>6, <3>9, <3>10, <3>11
  <2>6. x <= y
    BY <2>3, <2>4, <2>5
  <2> QED
    BY <1>1, <2>1, <2>2, <2>3, <2>4, <2>6 DEF Least
<1> QED
  BY <1>2, <1>3, <1>4

\* A row of PortfolioSnapshot.
Row == [equity : Int, exposure : Int, drawdown : Int]
Equities(r, i) == {InitialCash} \cup {r[j].equity : j \in 1 .. i}
PeakOf(r, i)   == Max(Equities(r, i))

\* The peak of the first i rows is the highest of the opening cash and their equities.
LEMMA PeakIs ==
  ASSUME NEW r \in Seq(Row), NEW i \in Nat, i <= Len(r)
  PROVE  /\ PeakOf(r, i) \in Nat \ {0} /\ PeakOf(r, i) \in Equities(r, i)
         /\ InitialCash <= PeakOf(r, i)
         /\ \A j \in 1 .. i : r[j].equity \in Int /\ r[j].equity <= PeakOf(r, i)
<1>1. InitialCash \in Nat \ {0}
  BY LedgerAssumption
<1>2. \A j \in 1 .. Len(r) : r[j].equity \in Int
  <2>1. \A j \in 1 .. Len(r) : r[j] \in Row
    BY ElementOfSeq
  <2> QED
    BY <2>1 DEF Row
<1> DEFINE top(k) == \E m \in Equities(r, k) : m \in Int /\ \A x \in Equities(r, k) : x <= m
           bad == {k \in Nat : k <= Len(r) /\ ~top(k)}
<1>3. bad = {}
  <2>1. SUFFICES ASSUME bad # {} PROVE FALSE
    OBVIOUS
  <2>2. PICK k \in bad : \A l \in bad : k <= l
    BY <2>1, LeastNumber
  <2>3. k # 0
    <3>1. Equities(r, 0) = {InitialCash}
      BY DEF Equities
    <3>2. top(0)
      <4>1. InitialCash \in Equities(r, 0) /\ \A x \in Equities(r, 0) : x <= InitialCash
        BY <1>1, <3>1
      <4> QED
        BY <1>1, <4>1
    <3> QED
      BY <2>2, <3>2
  <2>4. k - 1 \in Nat /\ k - 1 <= Len(r) /\ k - 1 \notin bad /\ k \in 1 .. Len(r)
    BY <2>2, <2>3
  <2>5. PICK m \in Equities(r, k - 1) : m \in Int /\ \A x \in Equities(r, k - 1) : x <= m
    BY <2>4
  <2>6. Equities(r, k) = Equities(r, k - 1) \cup {r[k].equity}
    <3>1. 1 .. k = (1 .. (k - 1)) \cup {k}
      BY <2>4
    <3> QED
      BY <3>1 DEF Equities
  <2>7. r[k].equity \in Int
    BY <1>2, <2>4
  <2>8. CASE r[k].equity <= m
    BY <2>2, <2>5, <2>6, <2>7, <2>8
  <2>9. CASE m < r[k].equity
    <3>1. \A x \in Equities(r, k - 1) : x \in Int
      <4>1. \A j \in 1 .. (k - 1) : j \in 1 .. Len(r)
        BY <2>4
      <4> QED
        BY <1>1, <1>2, <4>1 DEF Equities
    <3>2. \A x \in Equities(r, k) : x <= r[k].equity
      BY <2>5, <2>6, <2>7, <2>9, <3>1
    <3> QED
      BY <2>2, <2>6, <2>7, <3>2
  <2> QED
    BY <2>5, <2>7, <2>8, <2>9
<1>4. PICK m \in Equities(r, i) : m \in Int /\ \A x \in Equities(r, i) : x <= m
  BY <1>3
<1>5. Equities(r, i) \in SUBSET Int
  <2>1. \A j \in 1 .. i : j \in 1 .. Len(r)
    OBVIOUS
  <2> QED
    BY <1>1, <1>2, <2>1 DEF Equities
<1>6. PeakOf(r, i) = m
  BY <1>4, <1>5, MaxIs DEF PeakOf
<1>7. InitialCash \in Equities(r, i) /\ \A j \in 1 .. i : r[j].equity \in Equities(r, i)
  BY DEF Equities
<1> QED
  BY <1>1, <1>4, <1>5, <1>6, <1>7

\* A row raises the peak to its equity, or not at all, and leaves earlier peaks alone.
LEMMA PeakNext ==
  ASSUME NEW r \in Seq(Row), NEW x \in Row
  PROVE  /\ \A i \in 0 .. Len(r) : PeakOf(Append(r, x), i) = PeakOf(r, i)
         /\ PeakOf(Append(r, x), Len(r) + 1) = Most(PeakOf(r, Len(r)), x.equity)
<1> DEFINE n == Len(r)
           w == Append(r, x)
<1>1. n \in Nat /\ w \in Seq(Row) /\ Len(w) = n + 1 /\ w[n + 1] = x /\ \A j \in 1 .. n : w[j] = r[j]
  OBVIOUS
<1> HIDE DEF w
<1>2. ASSUME NEW i \in 0 .. n PROVE Equities(w, i) = Equities(r, i)
  <2>1. \A j \in 1 .. i : w[j] = r[j]
    BY <1>1
  <2> QED
    BY <2>1 DEF Equities
<1>3. Equities(w, n + 1) = Equities(r, n) \cup {x.equity}
  <2>1. 1 .. (n + 1) = (1 .. n) \cup {n + 1}
    BY <1>1
  <2>2. Equities(w, n + 1) = Equities(w, n) \cup {w[n + 1].equity}
    BY <2>1 DEF Equities
  <2> QED
    BY <1>1, <1>2, <2>2
<1>4. PeakOf(r, n) \in Int /\ PeakOf(r, n) \in Equities(r, n) /\ x.equity \in Int
  BY <1>1, PeakIs DEF Row
<1>5. \A e \in Equities(r, n) : e \in Int /\ e <= PeakOf(r, n)
  <2>1. InitialCash \in Int /\ InitialCash <= PeakOf(r, n)
    BY <1>1, PeakIs, LedgerAssumption
  <2>2. \A j \in 1 .. n : r[j].equity \in Int /\ r[j].equity <= PeakOf(r, n)
    BY <1>1, PeakIs, SMTT(30)
  <2> QED
    BY <2>1, <2>2 DEF Equities
<1> DEFINE m == Most(PeakOf(r, n), x.equity)
<1>6. m \in Equities(w, n + 1) /\ Equities(w, n + 1) \in SUBSET Int /\ \A e \in Equities(w, n + 1) : e <= m
  BY <1>3, <1>4, <1>5 DEF Most
<1>7. PeakOf(w, n + 1) = m
  BY <1>6, MaxIs DEF PeakOf
<1> QED
  BY <1>1, <1>2, <1>7 DEF PeakOf, w

\* The types of the ledger.
LedgerTypeOK ==
  /\ book \in [Held -> HeldPosition] /\ account \in [cashBalance : Int, realizedPnl : Int]
  /\ portfolioId \in BOOLEAN /\ peakEquity \in Int /\ rows \in Seq(Row)
  /\ cashFlow \in Int /\ drift \in Nat /\ gaps \in BOOLEAN

\* Cash and realized profit are whole cents: adding a realized difference is exact.
WholeCents ==
  /\ Multiple(account.cashBalance)
  /\ \A s \in Held : Multiple(book[s].realizedPnl)

\* The cash the fills left, against the cash and the cost of what is held.
Residue == account.cashBalance - InitialCash - cashFlow - SumOf(Costs(book), Held)
CostsBalance == 2 * Size(Residue) <= drift

\* The peak in memory is that of the series, or higher once a row was refused.
PeakKept ==
  portfolioId => /\ peakEquity >= PeakOf(rows, Len(rows))
                 /\ ~gaps => peakEquity = PeakOf(rows, Len(rows))

\* The inductive invariant of the ledger.
LedgerInv == LedgerTypeOK /\ WholeCents /\ CostsBalance /\ PeakKept /\ DrawdownContinuous

\* An empty account is balanced.
LEMMA LedgerStarts == LedgerInit => LedgerInv
<1> SUFFICES ASSUME LedgerInit PROVE LedgerInv
  OBVIOUS
<1>1. InitialCash \in Nat \ {0} /\ Cent \in Nat \ {0} /\ Multiple(InitialCash) /\ Multiple(0)
  <2>1. InitialCash = Cent * (InitialCash \div Cent)
    BY LedgerAssumption
  <2>2. 0 = Cent * 0
    BY LedgerAssumption
  <2>3. InitialCash \div Cent \in Int /\ 0 \in Int
    BY LedgerAssumption
  <2>4. Multiple(InitialCash) /\ Multiple(0)
    BY <2>1, <2>2, <2>3 DEF Multiple
  <2> QED
    BY <2>4, LedgerAssumption
<1>2. quantizePnl(InitialCash) = InitialCash
  BY <1>1, QuantizeIs
<1>3. LedgerTypeOK
  <2>1. book \in [Held -> HeldPosition]
    BY DEF LedgerInit, NoPosition, HeldPosition
  <2>2. account \in [cashBalance : Int, realizedPnl : Int]
    BY <1>1, <1>2 DEF LedgerInit, emptyAccount
  <2>3. rows \in Seq(Row)
    BY DEF LedgerInit
  <2>4. portfolioId \in BOOLEAN /\ gaps \in BOOLEAN
    BY Zenon DEF LedgerInit
  <2>5. peakEquity \in Int /\ cashFlow \in Int /\ drift \in Nat
    BY DEF LedgerInit
  <2> QED
    BY Zenon, <2>1, <2>2, <2>3, <2>4, <2>5 DEF LedgerTypeOK
<1>4. WholeCents
  BY <1>1, <1>2 DEF LedgerInit, WholeCents, emptyAccount, NoPosition
<1>5. CostsBalance
  <2> DEFINE none == [s \in Held |-> 0]
  <2>1. \A s \in Held : Costs(book)[s] = 0
    BY DEF LedgerInit, NoPosition, Costs
  <2>2. SumOf(Costs(book), Held) = SumOf(Costs(book), Held) - SumOf(Costs(book), Held)
    BY <2>1, LedgerAssumption, SumMinus
  <2>3. SumOf(Costs(book), Held) \in Int
    BY <2>1, LedgerAssumption, SumFacts
  <2>4. SumOf(Costs(book), Held) = 0
    BY <2>2, <2>3
  <2>5. Residue = 0
    BY <1>1, <1>2, <2>4 DEF LedgerInit, Residue, emptyAccount
  <2>6. 2 * Size(0) <= 0
    BY DEF Size
  <2> QED
    BY <2>5, <2>6 DEF CostsBalance, LedgerInit
<1>6. PeakKept /\ DrawdownContinuous
  BY DEF LedgerInit, PeakKept, DrawdownContinuous
<1> QED
  BY <1>3, <1>4, <1>5, <1>6 DEF LedgerInv

\* Whole cents add up to whole cents.
LEMMA MultiplesAdd ==
  ASSUME NEW a, NEW b, Multiple(a), Multiple(b)
  PROVE  Multiple(a + b) /\ Multiple(a - b)
<1>1. PICK j \in Int : a = Cent * j
  BY DEF Multiple
<1>2. PICK k \in Int : b = Cent * k
  BY DEF Multiple
<1>3. a + b = Cent * (j + k) /\ a - b = Cent * (j - k)
  BY <1>1, <1>2, LedgerAssumption
<1>4. j + k \in Int /\ j - k \in Int
  OBVIOUS
<1> QED
  BY <1>3, <1>4 DEF Multiple

\* The triangle inequality.
LEMMA SizesAdd ==
  ASSUME NEW a \in Int, NEW b \in Int
  PROVE  Size(a + b) <= Size(a) + Size(b) /\ Size(a) \in Nat /\ Size(b) \in Nat
BY DEF Size

\* What may be rounded away is a number.
LEMMA AllowedIs ==
  ASSUME NEW p \in HeldPosition, NEW f \in Int
  PROVE  Allowed(p, f) \in Nat
<1>1. Cent \in Nat /\ p.netQty + f \in Int
  BY LedgerAssumption DEF HeldPosition
<1>2. Size(p.netQty + f) \in Nat
  BY <1>1, SizeIs
<1> QED
  BY <1>1, <1>2 DEF Allowed

\* A fill: the account moves by the realized difference exactly, because both are
\* whole cents, so all rounding is in the position.
LEMMA FillLedger ==
  ASSUME LedgerInv, NEW s \in Held, NEW f \in Int, f # 0, NEW price \in Nat, Fill(s, f, price)
  PROVE  LedgerInv'
<1> DEFINE prior == book[s]
           next  == applyFillToPosition(prior, f, price)
           gain == next.realizedPnl - prior.realizedPnl
           old   == prior.netQty * prior.avgEntryPrice
           new   == next.netQty * next.avgEntryPrice
<1>1. /\ book \in [Held -> HeldPosition] /\ account \in [cashBalance : Int, realizedPnl : Int]
      /\ portfolioId \in BOOLEAN /\ peakEquity \in Int /\ rows \in Seq(Row)
      /\ cashFlow \in Int /\ drift \in Nat /\ gaps \in BOOLEAN
  BY Zenon DEF LedgerInv, LedgerTypeOK
<1>2. /\ Multiple(account.cashBalance) /\ \A x \in Held : Multiple(book[x].realizedPnl)
      /\ CostsBalance /\ PeakKept /\ DrawdownContinuous
  BY DEF LedgerInv, WholeCents
<1>3. /\ book' = [book EXCEPT ![s] = next]
      /\ account' = applyRealized(account, gain)
      /\ cashFlow' = cashFlow - f * price
      /\ UNCHANGED <<portfolioId, peakEquity, stored, rows, gaps>>
  BY DEF Fill
<1>4. prior \in HeldPosition /\ Multiple(prior.realizedPnl) /\ price \in Int
  BY <1>1, <1>2
<1> HIDE DEF prior
<1>5. /\ next \in HeldPosition /\ Multiple(next.realizedPnl) /\ next.netQty = prior.netQty + f
      /\ 2 * Size(next.realizedPnl - prior.realizedPnl + f * price
                    - (next.netQty * next.avgEntryPrice - prior.netQty * prior.avgEntryPrice))
         <= Allowed(prior, f)
  BY <1>4, FillMoves
<1>6. drift' = drift + Allowed(prior, f)
  BY <1>5 DEF Fill, Allowed, prior
<1> HIDE DEF next
<1>7. /\ gain \in Int /\ Multiple(gain) /\ old \in Int /\ new \in Int /\ f * price \in Int
      /\ next.netQty \in Int /\ next.avgEntryPrice \in Int
  <2>1. Multiple(gain)
    BY <1>4, <1>5, MultiplesAdd
  <2>2. /\ next.realizedPnl \in Int /\ prior.realizedPnl \in Int /\ next.netQty \in Int
        /\ prior.netQty \in Int /\ next.avgEntryPrice \in Int /\ prior.avgEntryPrice \in Int
    BY <1>4, <1>5 DEF HeldPosition
  <2> QED
    BY <2>1, <2>2
<1>8. 2 * Size(gain + f * price - (new - old)) <= Allowed(prior, f)
  BY <1>5
<1>9. Allowed(prior, f) \in Nat
  BY <1>4, AllowedIs
<1>10. /\ account.cashBalance \in Int /\ account.realizedPnl \in Int
       /\ account.cashBalance + gain \in Int /\ Multiple(account.cashBalance + gain)
  BY <1>1, <1>2, <1>7, MultiplesAdd
<1> HIDE DEF gain
<1>11. /\ account'.cashBalance = account.cashBalance + gain
       /\ account' \in [cashBalance : Int, realizedPnl : Int]
  <2>1. quantizePnl(account.cashBalance + gain) = account.cashBalance + gain
    BY <1>10, QuantizeIs
  <2>2. quantizePnl(account.realizedPnl + gain) \in Int
    BY <1>7, <1>10, QuantizeIs
  <2> QED
    BY <1>3, <1>10, <2>1, <2>2 DEF applyRealized
<1>12. book' \in [Held -> HeldPosition] /\ book'[s] = next /\ \A x \in Held \ {s} : book'[x] = book[x]
  BY <1>1, <1>3, <1>5
<1>13. LedgerTypeOK'
  <2>1. drift' \in Nat /\ cashFlow' \in Int
    BY <1>1, <1>3, <1>6, <1>7, <1>9
  <2>2. portfolioId' \in BOOLEAN /\ peakEquity' \in Int /\ rows' \in Seq(Row) /\ gaps' \in BOOLEAN
    BY Zenon, <1>1, <1>3
  <2> QED
    BY Zenon, <1>11, <1>12, <2>1, <2>2 DEF LedgerTypeOK
<1>14. WholeCents'
  BY <1>2, <1>5, <1>10, <1>11, <1>12 DEF WholeCents
<1>15. CostsBalance'
  <2>1. /\ \A x \in Held : Costs(book)[x] \in Int
        /\ Costs(book)[s] = old /\ SumOf(Costs(book), Held) \in Int
    BY <1>1, MarksCancel DEF prior
  <2>2. /\ \A x \in Held \ {s} : Costs(book')[x] = Costs(book)[x]
        /\ Costs(book')[s] = new
    BY <1>12 DEF Costs
  <2>3. SumOf(Costs(book'), Held) = SumOf(Costs(book), Held) - old + new
    <3>1. Costs(book')[s] \in Int
      BY <1>7, <2>2
    <3>2. SumOf(Costs(book'), Held) = SumOf(Costs(book), Held) - Costs(book)[s] + Costs(book')[s]
      BY <2>1, <2>2, <3>1, LedgerAssumption, SumMoves
    <3> QED
      BY <2>1, <2>2, <3>2
  <2> HIDE DEF old, new
  <2> DEFINE step == gain + f * price - (new - old)
  <2>4. InitialCash \in Int
    BY LedgerAssumption
  <2>5. Residue \in Int
    BY <1>1, <1>10, <2>1, <2>4 DEF Residue
  <2>6. Residue' = Residue + step
    <3>1. Residue' = account'.cashBalance - InitialCash - cashFlow' - SumOf(Costs(book'), Held)
      BY DEF Residue
    <3>2. Residue' = (account.cashBalance + gain) - InitialCash - (cashFlow - f * price)
                     - (SumOf(Costs(book), Held) - old + new)
      BY <1>3, <1>11, <2>3, <3>1
    <3>3. Residue = account.cashBalance - InitialCash - cashFlow - SumOf(Costs(book), Held)
      BY DEF Residue
    <3> DEFINE c == SumOf(Costs(book), Held)
               b == account.cashBalance
               v == f * price
    <3>4. c \in Int /\ b \in Int /\ v \in Int /\ cashFlow \in Int
      BY <1>1, <1>7, <1>10, <2>1
    <3> HIDE DEF c, b, v
    <3>5. ((b + gain) - InitialCash - (cashFlow - v) - (c - old + new))
            = (b - InitialCash - cashFlow - c) + (gain + v - (new - old))
      BY <1>7, <2>4, <3>4
    <3> QED
      BY <3>2, <3>3, <3>5 DEF c, b, v
  <2>7. step \in Int /\ 2 * Size(step) <= Allowed(prior, f)
    BY <1>7, <1>8 DEF old, new
  <2> HIDE DEF step
  <2>8. 2 * Size(Residue) <= drift
    BY <1>2 DEF CostsBalance
  <2>9. Size(Residue + step) <= Size(Residue) + Size(step) /\ Size(Residue) \in Nat /\ Size(step) \in Nat
        /\ Size(Residue + step) \in Nat
    <3>1. Residue + step \in Int
      BY <2>5, <2>7
    <3> QED
      BY <2>5, <2>7, <3>1, SizesAdd, SizeIs
  <2>10. 2 * Size(Residue + step) <= drift'
    BY <1>1, <1>6, <1>9, <2>7, <2>8, <2>9, SMTT(30)
  <2> QED
    BY <2>6, <2>10 DEF CostsBalance
<1>16. PeakKept' /\ DrawdownContinuous'
  BY <1>2, <1>3 DEF PeakKept, DrawdownContinuous
<1> QED
  BY <1>13, <1>14, <1>15, <1>16 DEF LedgerInv

\* The valuation, with its sums in any order.
LEMMA ValueIs ==
  ASSUME LedgerInv
  PROVE  LET value == valuateAccount(account, book)
         IN /\ value.equity \in Int /\ value.grossExposure \in Int
            /\ value.equity = quantizePnl(account.cashBalance + SumOf(Unrealized(book), Held))
            /\ account.cashBalance + SumOf(Unrealized(book), Held) \in Int
<1>1. book \in [Held -> HeldPosition] /\ account \in [cashBalance : Int, realizedPnl : Int]
  BY DEF LedgerInv, LedgerTypeOK
<1>2. UnrealizedTotal(book) = SumOf(Unrealized(book), Held) /\ SumOf(Unrealized(book), Held) \in Int
  BY <1>1, LedgerAssumption, UnrealizedSum, SumFacts
<1>3. ExposuresTotal(book) \in Int
  BY <1>1, LedgerAssumption, ExposuresSum, SumFacts
<1>4. valuateAccount(account, book)
        = [equity |-> quantizePnl(account.cashBalance + UnrealizedTotal(book)),
           grossExposure |-> quantizePnl(ExposuresTotal(book))]
  BY Zenon DEF valuateAccount, UnrealizedTotal, ExposuresTotal
<1>5. account.cashBalance + SumOf(Unrealized(book), Held) \in Int
  BY <1>1, <1>2
<1> QED
  BY <1>2, <1>3, <1>4, <1>5, QuantizeIs

\* DrawdownContinuous, with the peaks named.
LEMMA ContinuousIs ==
  ASSUME rows \in Seq(Row)
  PROVE  DrawdownContinuous <=>
           \A i \in 1 .. Len(rows) :
             /\ rows[i].drawdown >= quantizeDrawdown(PeakOf(rows, i), rows[i].equity)
             /\ ~gaps => rows[i].drawdown = quantizeDrawdown(PeakOf(rows, i), rows[i].equity)
<1>1. DOMAIN rows = 1 .. Len(rows)
  OBVIOUS
<1>2. \A i : PeakOf(rows, i) = Max({InitialCash} \cup {rows[j].equity : j \in 1 .. i})
  BY DEF PeakOf, Equities
<1>3. DrawdownContinuous <=>
        \A i \in DOMAIN rows :
          /\ rows[i].drawdown >= quantizeDrawdown(PeakOf(rows, i), rows[i].equity)
          /\ ~gaps => rows[i].drawdown = quantizeDrawdown(PeakOf(rows, i), rows[i].equity)
  BY <1>2, Zenon DEF DrawdownContinuous
<1> QED
  BY <1>1, <1>3

\* A row is written against a peak that is at least the series', or is refused.
LEMMA RecordLedger ==
  ASSUME LedgerInv, NEW ok \in BOOLEAN, record(ok)
  PROVE  LedgerInv'
<1> DEFINE value == valuateAccount(account, book)
           e     == value.equity
           peak  == Most(peakEquity, e)
           row   == [equity |-> e, exposure |-> value.grossExposure,
                     drawdown |-> quantizeDrawdown(peak, e)]
           n     == Len(rows)
           top   == PeakOf(rows, n)
<1>1. /\ book \in [Held -> HeldPosition] /\ account \in [cashBalance : Int, realizedPnl : Int]
      /\ portfolioId \in BOOLEAN /\ peakEquity \in Int /\ rows \in Seq(Row)
      /\ cashFlow \in Int /\ drift \in Nat /\ gaps \in BOOLEAN
  BY Zenon DEF LedgerInv, LedgerTypeOK
<1>2. WholeCents /\ CostsBalance /\ PeakKept /\ DrawdownContinuous
  BY DEF LedgerInv
<1>3. /\ portfolioId /\ peakEquity' = peak
      /\ rows' = (IF ok THEN Append(rows, row) ELSE rows)
      /\ gaps' = (gaps \/ ~ok)
      /\ UNCHANGED <<book, account, portfolioId, stored, fills, cashFlow, drift>>
  BY Zenon DEF record
<1>4. e \in Int /\ value.grossExposure \in Int
  BY ValueIs
<1>5. top \in Nat \ {0} /\ n \in Nat
  BY <1>1, PeakIs
<1>6. peakEquity >= top /\ (~gaps => peakEquity = top)
  BY <1>2, <1>3 DEF PeakKept
<1> HIDE DEF value, e, top
<1>7. /\ peak \in Nat \ {0} /\ Most(top, e) \in Nat \ {0} /\ peak >= Most(top, e) /\ peak >= top
      /\ ~gaps => peak = Most(top, e)
  BY <1>1, <1>4, <1>5, <1>6 DEF Most
<1> HIDE DEF peak
<1>8. row \in Row
  <2>1. quantizeDrawdown(peak, e) \in Int
    BY <1>4, <1>7, DrawdownIs
  <2> QED
    BY <1>4, <2>1 DEF Row
<1>9. rows' \in Seq(Row)
  BY <1>1, <1>3, <1>8
<1>10. LedgerTypeOK'
  <2>1. peakEquity' \in Int
    BY <1>3, <1>7
  <2>2. gaps' \in BOOLEAN
    BY Zenon, <1>3
  <2> QED
    BY Zenon, <1>1, <1>3, <1>9, <2>1, <2>2 DEF LedgerTypeOK
<1>11. WholeCents' /\ CostsBalance'
  BY <1>2, <1>3 DEF WholeCents, CostsBalance, Residue
<1>12. CASE ~ok
  <2>1. rows' = rows /\ gaps'
    BY Zenon, <1>3, <1>12
  <2>2. PeakKept'
    BY <1>3, <1>7, <2>1 DEF PeakKept, top
  <2>3. DrawdownContinuous'
    BY <1>2, <2>1 DEF DrawdownContinuous
  <2> QED
    BY <1>10, <1>11, <2>2, <2>3 DEF LedgerInv
<1>13. CASE ok
  <2>1. rows' = Append(rows, row) /\ gaps' <=> gaps
    BY Zenon, <1>3, <1>13
  <2>2. row.equity = e /\ row.drawdown = quantizeDrawdown(peak, e)
    OBVIOUS
  <2> HIDE DEF row
  <2>3. rows' = Append(rows, row)
    BY <1>3, <1>13 DEF row
  <2>4. gaps' <=> gaps
    BY Zenon, <1>3, <1>13
  <2>5. Len(rows') = n + 1 /\ rows'[n + 1] = row /\ \A i \in 1 .. n : rows'[i] = rows[i]
    BY <1>1, <1>8, <2>3
  <2>6. /\ PeakOf(rows', n + 1) = Most(top, e)
        /\ \A i \in 1 .. n : PeakOf(rows', i) = PeakOf(rows, i)
    <3>1. /\ \A i \in 0 .. n : PeakOf(Append(rows, row), i) = PeakOf(rows, i)
          /\ PeakOf(Append(rows, row), n + 1) = Most(top, row.equity)
      BY <1>1, <1>8, PeakNext DEF top
    <3> QED
      BY <1>5, <2>2, <2>3, <3>1
  <2>7. PeakKept'
    <3>1. peakEquity' >= PeakOf(rows', Len(rows')) /\ (~gaps => peakEquity' = PeakOf(rows', Len(rows')))
      BY <1>3, <1>7, <2>5, <2>6
    <3> QED
      BY <2>4, <3>1 DEF PeakKept
  <2>8. DrawdownContinuous'
    <3>1. ASSUME NEW i \in 1 .. Len(rows')
          PROVE  /\ rows'[i].drawdown >= quantizeDrawdown(PeakOf(rows', i), rows'[i].equity)
                 /\ ~gaps => rows'[i].drawdown = quantizeDrawdown(PeakOf(rows', i), rows'[i].equity)
      <4>1. CASE i \in 1 .. n
        <5>1. /\ rows[i].drawdown >= quantizeDrawdown(PeakOf(rows, i), rows[i].equity)
              /\ ~gaps => rows[i].drawdown = quantizeDrawdown(PeakOf(rows, i), rows[i].equity)
          BY <1>1, <1>2, <4>1, ContinuousIs
        <5> QED
          BY <2>5, <2>6, <4>1, <5>1
      <4>2. CASE i = n + 1
        <5>1. quantizeDrawdown(Most(top, e), e) <= quantizeDrawdown(peak, e)
          BY <1>4, <1>7, DrawdownGrows
        <5>2. quantizeDrawdown(Most(top, e), e) \in Nat /\ quantizeDrawdown(peak, e) \in Nat
          BY <1>4, <1>7, DrawdownIs
        <5>3. rows'[i].equity = e /\ rows'[i].drawdown = quantizeDrawdown(peak, e)
              /\ PeakOf(rows', i) = Most(top, e)
          BY <2>2, <2>5, <2>6, <4>2
        <5> QED
          BY <1>7, <5>1, <5>2, <5>3
      <4> QED
        BY <1>5, <2>5, <4>1, <4>2
    <3>2. \A i \in 1 .. Len(rows') :
             /\ rows'[i].drawdown >= quantizeDrawdown(PeakOf(rows', i), rows'[i].equity)
             /\ ~gaps' => rows'[i].drawdown = quantizeDrawdown(PeakOf(rows', i), rows'[i].equity)
      BY <2>4, <3>1
    <3>3. DOMAIN rows' = 1 .. Len(rows')
      BY <1>9
    <3> QED
      BY <3>2, <3>3 DEF DrawdownContinuous, PeakOf, Equities
  <2> QED
    BY <1>10, <1>11, <2>7, <2>8 DEF LedgerInv
<1> QED
  BY Zenon, <1>12, <1>13

\* Every step keeps the ledger's invariant; init recovers the peak of the series.
LEMMA NextLedger == LedgerInv /\ [LedgerNext]_ledgerVars => LedgerInv'
<1> SUFFICES ASSUME LedgerInv, [LedgerNext]_ledgerVars PROVE LedgerInv'
  OBVIOUS
<1>1. /\ book \in [Held -> HeldPosition] /\ account \in [cashBalance : Int, realizedPnl : Int]
      /\ portfolioId \in BOOLEAN /\ peakEquity \in Int /\ rows \in Seq(Row)
      /\ cashFlow \in Int /\ drift \in Nat /\ gaps \in BOOLEAN
  BY Zenon DEF LedgerInv, LedgerTypeOK
<1>2. WholeCents /\ CostsBalance /\ PeakKept /\ DrawdownContinuous
  BY DEF LedgerInv
<1>3. ASSUME NEW s \in Held, NEW q \in FillQtys, NEW price \in FillPrices,
             Fill(s, q, price) \/ Fill(s, -q, price)
      PROVE  LedgerInv'
  <2>1. q \in Int /\ q # 0 /\ -q \in Int /\ -q # 0 /\ price \in Nat
    BY LedgerAssumption
  <2> QED
    BY <1>3, <2>1, FillLedger
<1>4. ASSUME UNCHANGED <<book, account, rows, cashFlow, drift, gaps>>
      PROVE  WholeCents' /\ CostsBalance' /\ DrawdownContinuous'
  BY <1>2, <1>4 DEF WholeCents, CostsBalance, Residue, DrawdownContinuous
<1>5. CASE init
  <2>1. PeakOf(rows, Len(rows)) = recoveredPeak /\ PeakOf(rows, Len(rows)) \in Int
    <3>1. DOMAIN rows = 1 .. Len(rows) /\ Len(rows) \in Nat
      BY <1>1
    <3>2. PeakOf(rows, Len(rows)) \in Nat \ {0}
      BY <1>1, <3>1, PeakIs
    <3>3. Equities(rows, Len(rows)) = {InitialCash} \cup {rows[i].equity : i \in DOMAIN rows}
      BY Zenon, <3>1 DEF Equities
    <3>4. PeakOf(rows, Len(rows)) = recoveredPeak
      BY Zenon, <3>3 DEF PeakOf, recoveredPeak
    <3> QED
      BY <3>2, <3>4
  <2>2. peakEquity' = PeakOf(rows, Len(rows)) /\ UNCHANGED <<book, account, rows, cashFlow, drift, gaps>>
    BY <1>5, <2>1 DEF init
  <2>3. portfolioId' \in BOOLEAN
    BY Zenon, <1>5 DEF init
  <2>4. LedgerTypeOK'
    <3>1. peakEquity' \in Int
      BY <2>1, <2>2
    <3> QED
      BY Zenon, <1>1, <2>2, <2>3, <3>1 DEF LedgerTypeOK
  <2>5. PeakKept'
    BY <2>1, <2>2 DEF PeakKept
  <2> QED
    BY <1>4, <2>2, <2>4, <2>5 DEF LedgerInv
<1>6. CASE InitRefused \/ UNCHANGED ledgerVars
  <2>1. UNCHANGED <<book, account, portfolioId, peakEquity, rows, cashFlow, drift, gaps>>
    BY Zenon, <1>6 DEF InitRefused, ledgerVars
  <2>2. LedgerTypeOK' /\ PeakKept'
    BY Zenon, <1>1, <1>2, <2>1 DEF LedgerTypeOK, PeakKept
  <2> QED
    BY <1>4, <2>1, <2>2 DEF LedgerInv
<1>7. CASE Restart
  <2>1. UNCHANGED <<book, account, rows, cashFlow, drift, gaps>> /\ peakEquity' = 0
    BY <1>7 DEF Restart
  <2>2. portfolioId' = FALSE
    BY Zenon, <1>7 DEF Restart
  <2>3. LedgerTypeOK'
    <3>1. peakEquity' \in Int
      BY <2>1
    <3> QED
      BY Zenon, <1>1, <2>1, <2>2, <3>1 DEF LedgerTypeOK
  <2>4. PeakKept'
    BY Zenon, <2>2 DEF PeakKept
  <2> QED
    BY <1>4, <2>1, <2>3, <2>4 DEF LedgerInv
<1> QED
  BY Zenon, <1>3, <1>5, <1>6, <1>7, RecordLedger DEF LedgerNext

\* The invariant implies the property: equity is rounded once more.
LEMMA LedgerInvSound == LedgerInv => LedgerSound
<1> SUFFICES ASSUME LedgerInv PROVE BooksBalance
  BY DEF LedgerInv, LedgerSound
<1> DEFINE cash == account.cashBalance
           held == SumOf(Worth(book), Held)
           cost == SumOf(Costs(book), Held)
           sum  == cash + SumOf(Unrealized(book), Held)
           e    == valuateAccount(account, book).equity
           owed == InitialCash + cashFlow + WorthTotal(book)
<1>1. /\ book \in [Held -> HeldPosition] /\ cash \in Int /\ cashFlow \in Int /\ drift \in Nat
      /\ InitialCash \in Int /\ Cent \in Nat
  BY LedgerAssumption DEF LedgerInv, LedgerTypeOK
<1>2. /\ held \in Int /\ cost \in Int /\ SumOf(Unrealized(book), Held) = held - cost
      /\ WorthTotal(book) = held
  BY <1>1, MarksCancel, WorthSum
<1>3. e = quantizePnl(sum) /\ sum \in Int
  BY ValueIs
<1>4. e \in Int /\ 2 * Size(e - sum) <= Cent
  BY <1>3, QuantizeIs
<1>5. 2 * Size(Residue) <= drift
  BY DEF LedgerInv, CostsBalance
<1>6. sum - owed = Residue /\ owed \in Int
  <2>1. Residue = cash - InitialCash - cashFlow - cost
    BY DEF Residue
  <2> HIDE DEF cash, held, cost
  <2> QED
    BY <1>1, <1>2, <2>1
<1> HIDE DEF e, sum, owed
<1>7. e - owed = (e - sum) + Residue /\ e - sum \in Int /\ Residue \in Int
  BY <1>3, <1>4, <1>6
<1>8. Size(e - owed) <= Size(e - sum) + Size(Residue) /\ Size(e - sum) \in Nat /\ Size(Residue) \in Nat
  BY <1>7, SizesAdd
<1>9. Size(e - owed) \in Nat
  BY <1>4, <1>6, SizeIs
<1>10. 2 * Size(e - owed) <= drift + Cent
  BY <1>1, <1>4, <1>5, <1>8, <1>9
<1>11. owed = InitialCash + cashFlow + MapThenSumSet(LAMBDA s : book[s].netQty * book[s].markPrice, Held)
  BY Zenon DEF owed, WorthTotal
<1> QED
  BY <1>10, <1>11 DEF BooksBalance, e

\* For any symbols, prices, quantities, cash and cent, and any number of fills, rows,
\* refused rows and restarts: equity is what the fills earned and cost plus what is held
\* at its marks, but for the rounding of each step (applyFillToPosition, applyRealized,
\* valuateAccount), and no row of the series reports a smaller drawdown than the series
\* before it shows (record, init).
THEOREM LedgerIsSound == LedgerSpec => []LedgerSound
<1>1. LedgerInit => LedgerInv
  BY LedgerStarts
<1>2. LedgerInv /\ [LedgerNext]_ledgerVars => LedgerInv'
  BY NextLedger
<1>3. LedgerInv => LedgerSound
  BY LedgerInvSound
<1> QED
  BY <1>1, <1>2, <1>3, PTL DEF LedgerSpec

-----------------------------------------------------------------------------
(* The allocation of a tick.  The order of contributions is total, so they   *)
(* have one sorted list, whatever the order they came in.                    *)
Contributions ==
  [strategy : AllocStrategies, snapshot : Snapshots, side : {"LONG", "SHORT"},
   confidence : Confidences, notional : Int]

\* The five keys of the order, one after the other.
Lexically(a1, a2, a3, a4, a5, b1, b2, b3, b4, b5) ==
  \/ a1 < b1
  \/ a1 = b1 /\ a2 < b2
  \/ a1 = b1 /\ a2 = b2 /\ a3 < b3
  \/ a1 = b1 /\ a2 = b2 /\ a3 = b3 /\ a4 < b4
  \/ a1 = b1 /\ a2 = b2 /\ a3 = b3 /\ a4 = b4 /\ a5 < b5
Ranks(a, b) ==
  Lexically(-Stake(a), a.snapshot, a.strategy, -signOf(a.side), a.confidence,
            -Stake(b), b.snapshot, b.strategy, -signOf(b.side), b.confidence)

\* compareContribution compares the five keys in turn.
LEMMA CompareIs ==
  ASSUME NEW a, NEW b
  PROVE  compareContribution(a, b) <=> Ranks(a, b)
<1> DEFINE ka == <<-Stake(a), a.snapshot, a.strategy, -signOf(a.side), a.confidence>>
           kb == <<-Stake(b), b.snapshot, b.strategy, -signOf(b.side), b.confidence>>
<1>1. compareContribution(a, b) <=> \E i \in 1 .. 5 : ka[i] < kb[i] /\ \A j \in 1 .. (i - 1) : ka[j] = kb[j]
  BY DEF compareContribution
<1>2. /\ ka[1] = -Stake(a) /\ ka[2] = a.snapshot /\ ka[3] = a.strategy /\ ka[4] = -signOf(a.side) /\ ka[5] = a.confidence
      /\ kb[1] = -Stake(b) /\ kb[2] = b.snapshot /\ kb[3] = b.strategy /\ kb[4] = -signOf(b.side) /\ kb[5] = b.confidence
  OBVIOUS
<1> HIDE DEF ka, kb
<1>3. \A i \in 1 .. 5 : i = 1 \/ i = 2 \/ i = 3 \/ i = 4 \/ i = 5
  OBVIOUS
<1>4. /\ 1 .. (1 - 1) = {} /\ 1 .. (2 - 1) = {1} /\ 1 .. (3 - 1) = {1, 2}
      /\ 1 .. (4 - 1) = {1, 2, 3} /\ 1 .. (5 - 1) = {1, 2, 3, 4}
  OBVIOUS
<1>5. (\E i \in 1 .. 5 : ka[i] < kb[i] /\ \A j \in 1 .. (i - 1) : ka[j] = kb[j])
        <=> Lexically(ka[1], ka[2], ka[3], ka[4], ka[5], kb[1], kb[2], kb[3], kb[4], kb[5])
  <2>1. ASSUME NEW i \in 1 .. 5, ka[i] < kb[i], \A j \in 1 .. (i - 1) : ka[j] = kb[j]
        PROVE  Lexically(ka[1], ka[2], ka[3], ka[4], ka[5], kb[1], kb[2], kb[3], kb[4], kb[5])
    BY <1>3, <1>4, <2>1 DEF Lexically
  <2>2. ASSUME Lexically(ka[1], ka[2], ka[3], ka[4], ka[5], kb[1], kb[2], kb[3], kb[4], kb[5])
        PROVE  \E i \in 1 .. 5 : ka[i] < kb[i] /\ \A j \in 1 .. (i - 1) : ka[j] = kb[j]
    <3>1. 1 \in 1 .. 5 /\ 2 \in 1 .. 5 /\ 3 \in 1 .. 5 /\ 4 \in 1 .. 5 /\ 5 \in 1 .. 5
      OBVIOUS
    <3> DEFINE P(i) == ka[i] < kb[i] /\ \A j \in 1 .. (i - 1) : ka[j] = kb[j]
    <3>2. P(1) \/ P(2) \/ P(3) \/ P(4) \/ P(5)
      BY <1>4, <2>2 DEF Lexically
    <3> QED
      BY <3>1, <3>2
  <2> QED
    BY <2>1, <2>2
<1> QED
  BY <1>1, <1>2, <1>5 DEF Ranks

\* What a contribution's keys are, and that they determine it.
LEMMA Keys ==
  ASSUME NEW a \in Contributions, NEW b \in Contributions
  PROVE  /\ Stake(a) \in Int /\ a.snapshot \in Int /\ a.strategy \in Int /\ signOf(a.side) \in Int
         /\ a.confidence \in Int
         /\ Stake(a) = Stake(b) /\ a.snapshot = b.snapshot /\ a.strategy = b.strategy
              /\ signOf(a.side) = signOf(b.side) /\ a.confidence = b.confidence => a = b
<1>1. /\ a.notional \in Int /\ a.snapshot \in Int /\ a.strategy \in Int /\ a.confidence \in Int
      /\ a.side \in {"LONG", "SHORT"} /\ b.notional \in Int /\ b.side \in {"LONG", "SHORT"}
  BY AllocationAssumption DEF Contributions
<1>2. /\ signOf(a.side) = IF a.side = "LONG" THEN 1 ELSE -1
      /\ signOf(b.side) = IF b.side = "LONG" THEN 1 ELSE -1
  BY DEF signOf
<1>3. /\ Stake(a) = IF a.side = "LONG" THEN a.notional ELSE -a.notional
      /\ Stake(b) = IF b.side = "LONG" THEN b.notional ELSE -b.notional
  BY <1>1, <1>2 DEF Stake
<1>4. a.side # "LONG" => a.side = "SHORT"
  BY <1>1
<1>5. b.side # "LONG" => b.side = "SHORT"
  BY <1>1
<1>6. signOf(a.side) = signOf(b.side) => a.side = b.side
  BY <1>2, <1>4, <1>5
<1>7. a.side = b.side /\ Stake(a) = Stake(b) => a.notional = b.notional
  BY <1>1, <1>3
<1>8. a.strategy = b.strategy /\ a.snapshot = b.snapshot /\ a.side = b.side /\ a.confidence = b.confidence
        /\ a.notional = b.notional => a = b
  BY DEF Contributions
<1> QED
  BY <1>1, <1>2, <1>3, <1>6, <1>7, <1>8

\* The order is total, and the larger stake comes first.
LEMMA TotalOrder ==
  ASSUME NEW a \in Contributions, NEW b \in Contributions, NEW c \in Contributions
  PROVE  /\ ~compareContribution(a, a)
         /\ compareContribution(a, b) \/ compareContribution(b, a) \/ a = b
         /\ compareContribution(a, b) => ~compareContribution(b, a)
         /\ compareContribution(a, b) /\ compareContribution(b, c) => compareContribution(a, c)
         /\ compareContribution(a, b) => Stake(b) <= Stake(a)
<1>1. /\ Stake(a) \in Int /\ a.snapshot \in Int /\ a.strategy \in Int /\ signOf(a.side) \in Int /\ a.confidence \in Int
      /\ Stake(b) \in Int /\ b.snapshot \in Int /\ b.strategy \in Int /\ signOf(b.side) \in Int /\ b.confidence \in Int
      /\ Stake(c) \in Int /\ c.snapshot \in Int /\ c.strategy \in Int /\ signOf(c.side) \in Int /\ c.confidence \in Int
  BY Keys
<1>2. ~Ranks(a, a) /\ (Ranks(a, b) => ~Ranks(b, a))
  BY <1>1 DEF Ranks, Lexically
<1>3. Ranks(a, b) \/ Ranks(b, a) \/ a = b
  <2> SUFFICES ASSUME ~Ranks(a, b), ~Ranks(b, a) PROVE a = b
    OBVIOUS
  <2>1. /\ Stake(a) = Stake(b) /\ a.snapshot = b.snapshot /\ a.strategy = b.strategy
        /\ signOf(a.side) = signOf(b.side) /\ a.confidence = b.confidence
    BY <1>1 DEF Ranks, Lexically
  <2> QED
    BY <2>1, Keys
<1>4. Ranks(a, b) /\ Ranks(b, c) => Ranks(a, c)
  BY <1>1 DEF Ranks, Lexically
<1>5. Ranks(a, b) => Stake(b) <= Stake(a)
  BY <1>1 DEF Ranks, Lexically
<1> QED
  BY <1>2, <1>3, <1>4, <1>5, CompareIs

-----------------------------------------------------------------------------
(* A place in a sorted list is how many come before.                        *)
Below(R, I, i) == {j \in I : <<j, i>> \in R}
StrictOrder(R, I) ==
  /\ \A i \in I : <<i, i>> \notin R
  /\ \A i, j \in I : i = j \/ <<i, j>> \in R \/ <<j, i>> \in R
  /\ \A i, j, k \in I : <<i, j>> \in R /\ <<j, k>> \in R => <<i, k>> \in R

\* In a finite strict order every place is that of one element.
LEMMA PlacesFilled ==
  ASSUME NEW I, IsFiniteSet(I), NEW R, StrictOrder(R, I)
  PROVE  /\ Cardinality(I) \in Nat
         /\ \A i \in I : Cardinality(Below(R, I, i)) \in 0 .. (Cardinality(I) - 1)
         /\ \A k \in 0 .. (Cardinality(I) - 1) : \E i \in I : Cardinality(Below(R, I, i)) = k
         /\ \A i, j \in I : Cardinality(Below(R, I, i)) = Cardinality(Below(R, I, j)) => i = j
         /\ \A i, j \in I : Cardinality(Below(R, I, i)) < Cardinality(Below(R, I, j)) => <<i, j>> \in R
<1> DEFINE n == Cardinality(I)
           place == [i \in I |-> Cardinality(Below(R, I, i))]
           T == 0 .. (n - 1)
<1>1. n \in Nat
  BY FS_CardinalityType
<1>2. \A i \in I : IsFiniteSet(Below(R, I, i)) /\ Cardinality(Below(R, I, i)) \in Nat
                   /\ Cardinality(Below(R, I, i)) <= n - 1
  <2> TAKE i \in I
  <2>1. IsFiniteSet(I \ {i}) /\ Cardinality(I \ {i}) = n - 1
    BY FS_RemoveElement
  <2>2. Below(R, I, i) \in SUBSET (I \ {i})
    BY DEF Below, StrictOrder
  <2> HIDE DEF n
  <2>3. IsFiniteSet(Below(R, I, i)) /\ Cardinality(Below(R, I, i)) <= n - 1
    BY <2>1, <2>2, FS_Subset
  <2> QED
    BY <2>3, FS_CardinalityType
<1>3. \A i, j \in I : <<i, j>> \in R => place[i] < place[j]
  <2> SUFFICES ASSUME NEW i \in I, NEW j \in I, <<i, j>> \in R
               PROVE  place[i] < place[j]
    OBVIOUS
  <2>1. Below(R, I, i) \in SUBSET Below(R, I, j) /\ i \in Below(R, I, j) /\ i \notin Below(R, I, i)
    BY DEF Below, StrictOrder
  <2>2. /\ Cardinality(Below(R, I, i)) <= Cardinality(Below(R, I, j))
        /\ Cardinality(Below(R, I, j)) # Cardinality(Below(R, I, i))
    BY <1>2, <2>1, FS_Subset
  <2> QED
    BY <1>2, <2>2
<1>4. \A i \in I : place[i] \in T /\ place[i] \in Nat /\ place[i] = Cardinality(Below(R, I, i))
  <2> HIDE DEF n
  <2> QED
    BY <1>1, <1>2
<1> HIDE DEF place
<1>5. \A i, j \in I : (place[i] = place[j] => i = j) /\ (place[i] < place[j] => <<i, j>> \in R)
  <2> TAKE i, j \in I
  <2>1. i = j \/ <<i, j>> \in R \/ <<j, i>> \in R
    BY DEF StrictOrder
  <2>2. place[i] \in Nat /\ place[j] \in Nat
    BY <1>4
  <2> QED
    BY <1>3, <2>1, <2>2
<1>6. IsFiniteSet(T) /\ Cardinality(T) = n
  <2> HIDE DEF n
  <2>1. n - 1 \in Int
    BY <1>1
  <2> QED
    BY <1>1, <2>1, FS_Interval
<1>7. \A k \in T : \E i \in I : place[i] = k
  <2> HIDE DEF T
  <2>1. place \in [I -> T]
    BY <1>4 DEF place
  <2>2. place \in Injection(I, T)
    BY <1>5, <2>1 DEF Injection, IsInjective
  <2>3. place \in Surjection(I, T)
    BY <1>6, <2>2, FS_Injection
  <2> QED
    BY <2>3 DEF Surjection
<1> QED
  BY <1>1, <1>4, <1>5, <1>7

\* s lists I so that the values v ascend.
Sorts(s, I, v) ==
  /\ s \in [1 .. Cardinality(I) -> I]
  /\ \A k, l \in 1 .. Cardinality(I) : s[k] = s[l] => k = l
  /\ \A i \in I : \E k \in 1 .. Cardinality(I) : s[k] = i
  /\ \A k, l \in 1 .. Cardinality(I) : k < l => ~compareContribution(v[s[l]], v[s[k]])

\* Two sorted lists: at no place is the value of one before that of the other.
LEMMA NeverEarlier ==
  ASSUME NEW I, IsFiniteSet(I), NEW v, \A i \in I : v[i] \in Contributions,
         NEW s, Sorts(s, I, v), NEW t, Sorts(t, I, v), NEW k \in 1 .. Cardinality(I)
  PROVE  ~compareContribution(v[s[k]], v[t[k]])
<1> DEFINE n == Cardinality(I)
           a == v[s[k]]
           A == {i \in I : ~compareContribution(a, v[i])}
<1> SUFFICES ASSUME compareContribution(a, v[t[k]]) PROVE FALSE
  OBVIOUS
<1>1. n \in Nat /\ k \in 1 .. n
  BY FS_CardinalityType
<1>2. /\ s \in [1 .. n -> I] /\ t \in [1 .. n -> I]
      /\ \A j, l \in 1 .. n : s[j] = s[l] => j = l
      /\ \A i \in I : \E l \in 1 .. n : t[l] = i
      /\ \A j, l \in 1 .. n : j < l => ~compareContribution(v[s[l]], v[s[j]])
      /\ \A j, l \in 1 .. n : j < l => ~compareContribution(v[t[l]], v[t[j]])
  BY DEF Sorts
<1> HIDE DEF n
<1>3. a \in Contributions /\ \A l \in 1 .. n : v[s[l]] \in Contributions /\ v[t[l]] \in Contributions
  BY <1>1, <1>2
<1>4. IsFiniteSet(A)
  <2>1. A \in SUBSET I
    OBVIOUS
  <2> QED
    BY <2>1, FS_Subset
<1>5. \A l \in 1 .. k : l \in 1 .. n /\ s[l] \in A
  <2> TAKE l \in 1 .. k
  <2>1. l \in 1 .. n /\ (l = k \/ l < k)
    BY <1>1
  <2>2. ~compareContribution(a, v[s[l]])
    <3>1. CASE l = k
      BY <1>3, <3>1, TotalOrder
    <3>2. CASE l < k
      BY <1>1, <1>2, <2>1, <3>2
    <3> QED
      BY <2>1, <3>1, <3>2
  <2> QED
    BY <1>2, <2>1, <2>2
<1>6. k <= Cardinality(A)
  <2> DEFINE D == 1 .. k
             f == [l \in D |-> s[l]]
  <2>1. f \in [D -> A] /\ \A x, y \in D : f[x] = f[y] => x = y
    BY <1>2, <1>5
  <2>2. Cardinality(D) = k
    BY <1>1, FS_Interval
  <2> HIDE DEF D, f, A
  <2>3. f \in Injection(D, A)
    BY <2>1 DEF Injection, IsInjective
  <2> QED
    BY <1>4, <2>2, <2>3, FS_Injection
<1>7. \A i \in A : \E l \in 1 .. (k - 1) : t[l] = i
  <2> TAKE i \in A
  <2>1. PICK l \in 1 .. n : t[l] = i
    BY <1>2
  <2>2. ~(k <= l)
    <3> SUFFICES ASSUME k <= l PROVE FALSE
      OBVIOUS
    <3>1. k = l \/ k < l
      BY <1>1
    <3>2. ~compareContribution(v[t[l]], v[t[k]])
      <4>1. CASE k = l
        BY <1>3, <2>1, <4>1, TotalOrder
      <4>2. CASE k < l
        BY <1>1, <1>2, <2>1, <4>2
      <4> QED
        BY <3>1, <4>1, <4>2
    <3>3. compareContribution(v[t[k]], v[t[l]]) \/ v[t[k]] = v[t[l]]
      BY <1>1, <1>3, <3>2, TotalOrder
    <3>4. compareContribution(a, v[t[l]])
      BY <1>1, <1>3, <3>3, TotalOrder
    <3> QED
      BY <2>1, <3>4
  <2>3. l \in 1 .. (k - 1)
    BY <1>1, <2>2
  <2> QED
    BY <2>1, <2>3
<1>8. Cardinality(A) <= k - 1
  <2> DEFINE D == 1 .. (k - 1)
             f == [i \in A |-> CHOOSE l \in D : t[l] = i]
  <2>1. \A i \in A : f[i] \in D /\ t[f[i]] = i
    BY <1>7
  <2>2. IsFiniteSet(D) /\ Cardinality(D) = k - 1
    <3>1. k - 1 \in Int /\ k - 1 >= 0
      BY <1>1
    <3> QED
      BY <3>1, FS_Interval
  <2>3. f \in [A -> D]
    <3> HIDE DEF D, A
    <3> QED
      BY <2>1
  <2> HIDE DEF D, f, A
  <2>4. f \in Injection(A, D)
    BY <2>1, <2>3 DEF Injection, IsInjective
  <2> QED
    BY <2>2, <2>4, FS_Injection
<1>9. Cardinality(A) \in Nat
  BY <1>4, FS_CardinalityType
<1> QED
  BY <1>1, <1>6, <1>8, <1>9

\* So the sorted list is one.
LEMMA OneSortedList ==
  ASSUME NEW I, IsFiniteSet(I), NEW v, \A i \in I : v[i] \in Contributions,
         NEW s, Sorts(s, I, v), NEW t, Sorts(t, I, v), NEW k \in 1 .. Cardinality(I)
  PROVE  v[s[k]] = v[t[k]]
<1>1. ~compareContribution(v[s[k]], v[t[k]]) /\ ~compareContribution(v[t[k]], v[s[k]])
  BY NeverEarlier
<1>2. v[s[k]] \in Contributions /\ v[t[k]] \in Contributions
  BY DEF Sorts
<1> QED
  BY <1>1, <1>2, TotalOrder

-----------------------------------------------------------------------------
(* The contributions to a symbol.                                            *)
\* A contribution has its keys, and its stake is not negative.
LEMMA ContributionTyped ==
  ASSUME NEW d \in Decisions, d.side # "FLAT"
  PROVE  contribution(d) \in Contributions /\ Stake(contribution(d)) \in Nat
<1> DEFINE w == (2 * Capital[d.strategy] * d.confidence + ConfidenceUnit) \div (2 * ConfidenceUnit)
<1>1. /\ d.strategy \in AllocStrategies /\ d.snapshot \in Snapshots /\ d.confidence \in Confidences
      /\ d.side \in {"LONG", "SHORT"}
  BY DEF Decisions
<1>2. Capital[d.strategy] \in Nat /\ d.confidence \in Nat /\ ConfidenceUnit \in Nat \ {0}
  BY <1>1, AllocationAssumption
<1>3. w \in Nat
  <2> DEFINE x == 2 * Capital[d.strategy] * d.confidence + ConfidenceUnit
             y == 2 * ConfidenceUnit
  <2>1. x \in Nat /\ y \in Nat \ {0}
    BY <1>2
  <2> HIDE DEF x, y
  <2>2. x \div y \in Nat
    BY <2>1
  <2> QED
    BY <2>2 DEF x, y
<1>4. weightedNotional(d) = signOf(d.side) * w
  BY DEF weightedNotional
<1> HIDE DEF w
<1>5. weightedNotional(d) \in Int /\ signOf(d.side) * weightedNotional(d) = w
  <2>1. CASE d.side = "LONG"
    BY <1>3, <1>4, <2>1 DEF signOf
  <2>2. CASE d.side = "SHORT"
    BY <1>3, <1>4, <2>2 DEF signOf
  <2> QED
    BY <1>1, <2>1, <2>2
<1> QED
  BY <1>1, <1>3, <1>5 DEF contribution, Contributions, Stake

\* The contributions of the contributors to s.
Values(ds, s) == [i \in contributors(ds, s) |-> contribution(ds[i])]
Preceding(ds, s) == {x \in contributors(ds, s) \X contributors(ds, s) : Before(ds, x[1], x[2])}
Index(ds, s) ==
  [k \in 1 .. Cardinality(contributors(ds, s)) |->
     CHOOSE i \in contributors(ds, s) : Cardinality({j \in contributors(ds, s) : Before(ds, j, i)}) + 1 = k]

\* contributions lists all of them, sorted.
LEMMA ContributionsSorted ==
  ASSUME NEW ds \in Seq(Decisions), NEW s
  PROVE  LET I == contributors(ds, s) IN
         /\ IsFiniteSet(I) /\ Cardinality(I) \in Nat
         /\ \A i \in I : Values(ds, s)[i] \in Contributions /\ Stake(Values(ds, s)[i]) \in Nat
         /\ Sorts(Index(ds, s), I, Values(ds, s))
         /\ contributions(ds, s) = [k \in 1 .. Cardinality(I) |-> Values(ds, s)[Index(ds, s)[k]]]
<1> DEFINE I == contributors(ds, s)
           v == Values(ds, s)
           R == Preceding(ds, s)
           n == Cardinality(I)
           x == Index(ds, s)
<1>1. I \in SUBSET (1 .. Len(ds)) /\ Len(ds) \in Nat
  BY DEF contributors
<1>2. IsFiniteSet(I) /\ n \in Nat
  <2>1. IsFiniteSet(1 .. Len(ds))
    BY <1>1, FS_Interval
  <2> HIDE DEF I
  <2>2. IsFiniteSet(I)
    BY <1>1, <2>1, FS_Subset
  <2> QED
    BY <2>2, FS_CardinalityType
<1>3. \A i \in I : v[i] = contribution(ds[i]) /\ v[i] \in Contributions /\ Stake(v[i]) \in Nat
  <2> TAKE i \in I
  <2>1. ds[i] \in Decisions /\ ds[i].side # "FLAT"
    BY DEF contributors
  <2> QED
    BY <2>1, ContributionTyped DEF Values
<1>4. \A i, j \in I : <<i, j>> \in R <=> compareContribution(v[i], v[j]) \/ (~compareContribution(v[j], v[i]) /\ i < j)
  <2> TAKE i, j \in I
  <2>1. <<i, j>> \in R <=> Before(ds, i, j)
    BY DEF Preceding
  <2> QED
    BY <1>3, <2>1 DEF Before
<1>5. \A i \in I : i \in Nat
  BY <1>1
<1> HIDE DEF I, v, R
<1>6. StrictOrder(R, I)
  <2>1. ASSUME NEW i \in I PROVE <<i, i>> \notin R
    BY <1>3, <1>4, <1>5, TotalOrder
  <2>2. ASSUME NEW i \in I, NEW j \in I PROVE i = j \/ <<i, j>> \in R \/ <<j, i>> \in R
    <3>1. compareContribution(v[i], v[j]) => ~compareContribution(v[j], v[i])
      BY <1>3, TotalOrder
    <3>2. i = j \/ i < j \/ j < i
      BY <1>5
    <3> QED
      BY <1>4, <3>1, <3>2
  <2>3. ASSUME NEW i \in I, NEW j \in I, NEW k \in I, <<i, j>> \in R, <<j, k>> \in R
        PROVE  <<i, k>> \in R
    <3>1. v[i] \in Contributions /\ v[j] \in Contributions /\ v[k] \in Contributions
      BY <1>3
    <3>2. compareContribution(v[i], v[j]) \/ (v[i] = v[j] /\ i < j)
      BY <1>4, <2>3, <3>1, TotalOrder
    <3>3. compareContribution(v[j], v[k]) \/ (v[j] = v[k] /\ j < k)
      BY <1>4, <2>3, <3>1, TotalOrder
    <3>4. compareContribution(v[i], v[k]) \/ (v[i] = v[k] /\ i < k)
      <4>1. i \in Nat /\ j \in Nat /\ k \in Nat
        BY <1>5
      <4>2. i < j /\ j < k => i < k
        BY <4>1
      <4>3. compareContribution(v[i], v[j]) /\ compareContribution(v[j], v[k]) => compareContribution(v[i], v[k])
        BY <3>1, TotalOrder
      <4> QED
        BY <3>2, <3>3, <4>2, <4>3
    <3>5. v[i] = v[k] => ~compareContribution(v[k], v[i])
      BY <3>1, TotalOrder
    <3> QED
      BY <1>4, <3>4, <3>5
  <2> QED
    BY <2>1, <2>2, <2>3 DEF StrictOrder
<1>7. /\ \A i \in I : Cardinality(Below(R, I, i)) \in 0 .. (n - 1)
      /\ \A k \in 0 .. (n - 1) : \E i \in I : Cardinality(Below(R, I, i)) = k
      /\ \A i, j \in I : Cardinality(Below(R, I, i)) = Cardinality(Below(R, I, j)) => i = j
      /\ \A i, j \in I : Cardinality(Below(R, I, i)) < Cardinality(Below(R, I, j)) => <<i, j>> \in R
  BY <1>2, <1>6, PlacesFilled
<1>8. \A i \in I : Below(R, I, i) = {j \in contributors(ds, s) : Before(ds, j, i)}
  BY DEF Below, R, Preceding, I
<1>9. \A k \in 1 .. n : x[k] \in I /\ Cardinality(Below(R, I, x[k])) = k - 1
  <2> TAKE k \in 1 .. n
  <2>1. k - 1 \in 0 .. (n - 1)
    <3> HIDE DEF n
    <3> QED
      BY <1>2
  <2>2. \E i \in I : Cardinality(Below(R, I, i)) = k - 1
    BY <1>7, <2>1
  <2>3. \A i \in I : Cardinality(Below(R, I, i)) \in Int
    <3> HIDE DEF n
    <3> QED
      BY <1>2, <1>7
  <2>4. \A i \in I : Cardinality(Below(R, I, i)) = k - 1 <=> Cardinality({j \in contributors(ds, s) : Before(ds, j, i)}) + 1 = k
    <3> TAKE i \in I
    <3> DEFINE b == Cardinality(Below(R, I, i))
               c == Cardinality({j \in contributors(ds, s) : Before(ds, j, i)})
    <3>1. b = c
      BY <1>8
    <3>2. b \in Int /\ k \in Int
      BY <2>1, <2>3
    <3> HIDE DEF b, c
    <3>3. b = k - 1 <=> c + 1 = k
      BY <3>1, <3>2
    <3> QED
      BY <3>3 DEF b, c
  <2>5. x[k] = CHOOSE i \in I : Cardinality({j \in contributors(ds, s) : Before(ds, j, i)}) + 1 = k
    BY DEF Index, I
  <2>6. \E i \in I : Cardinality({j \in contributors(ds, s) : Before(ds, j, i)}) + 1 = k
    BY <2>2, <2>4
  <2> HIDE DEF x, n
  <2> QED
    BY <2>4, <2>5, <2>6
<1>10. Sorts(x, I, v)
  <2> DEFINE e(k) == CHOOSE i \in contributors(ds, s) : Cardinality({j \in contributors(ds, s) : Before(ds, j, i)}) + 1 = k
  <2>0. x = [k \in 1 .. n |-> e(k)]
    BY DEF Index, I
  <2> HIDE DEF e, x
  <2>1. x = [k \in 1 .. n |-> x[k]]
    <3> HIDE DEF n
    <3> QED
      BY <2>0
  <2> HIDE DEF x
  <2>2. x \in [1 .. n -> I]
    <3> HIDE DEF n
    <3> QED
      BY <1>9, <2>1
  <2>3. \A k, l \in 1 .. n : x[k] = x[l] => k = l
    <3> HIDE DEF n
    <3> TAKE k, l \in 1 .. n
    <3>1. x[k] = x[l] => k - 1 = l - 1
      BY <1>9
    <3> QED
      BY <1>2, <3>1
  <2>4. \A i \in I : \E k \in 1 .. n : x[k] = i
    <3> HIDE DEF n
    <3> TAKE i \in I
    <3> DEFINE c == Cardinality(Below(R, I, i))
               k == c + 1
    <3>1. c \in 0 .. (n - 1)
      BY <1>7
    <3> HIDE DEF c
    <3>2. k \in 1 .. n /\ k - 1 = c
      BY <1>2, <3>1
    <3>3. x[k] = i
      BY <1>7, <1>9, <3>2 DEF c
    <3> QED
      BY <3>2, <3>3
  <2>5. \A k, l \in 1 .. n : k < l => ~compareContribution(v[x[l]], v[x[k]])
    <3> HIDE DEF n
    <3> SUFFICES ASSUME NEW k \in 1 .. n, NEW l \in 1 .. n, k < l
                 PROVE  ~compareContribution(v[x[l]], v[x[k]])
      OBVIOUS
    <3>1. k - 1 < l - 1
      BY <1>2
    <3>2. x[k] \in I /\ x[l] \in I /\ <<x[k], x[l]>> \in R
      BY <1>7, <1>9, <3>1
    <3> QED
      BY <1>3, <1>4, <3>2, TotalOrder
  <2> QED
    BY <2>2, <2>3, <2>4, <2>5 DEF Sorts
<1>11. contributions(ds, s) = [k \in 1 .. n |-> v[x[k]]]
  <2>1. contributions(ds, s) = [k \in 1 .. n |-> contribution(ds[x[k]])]
    BY DEF contributions, Index, I
  <2> HIDE DEF x, n
  <2> QED
    BY <1>3, <1>9, <2>1
<1> QED
  BY <1>2, <1>3, <1>10, <1>11 DEF I, v

\* The contributors to s after a permutation are those before, under other numbers.
LEMMA PermutedContributors ==
  ASSUME NEW ds \in Seq(Decisions), NEW p \in Bijection(DOMAIN ds, DOMAIN ds), NEW s
  PROVE  LET es == Permuted(ds, p)
             I  == contributors(ds, s)
             J  == contributors(es, s)
         IN /\ es \in Seq(Decisions)
            /\ \A j \in J : p[j] \in I /\ es[j] = ds[p[j]]
            /\ \A j, l \in J : p[j] = p[l] => j = l
            /\ \A i \in I : \E j \in J : p[j] = i
<1> DEFINE es == Permuted(ds, p)
           I  == contributors(ds, s)
           J  == contributors(es, s)
           D  == DOMAIN ds
<1>1. /\ p \in [D -> D]
      /\ \A j, l \in D : p[j] = p[l] => j = l
      /\ \A i \in D : \E j \in D : p[j] = i
  BY DEF Bijection, Injection, Surjection, IsInjective
<1>2. Len(ds) \in Nat /\ D = 1 .. Len(ds) /\ \A i \in D : ds[i] \in Decisions
  OBVIOUS
<1>3. es = [i \in D |-> ds[p[i]]]
  BY DEF Permuted
<1> HIDE DEF es, D
<1>4. es \in Seq(Decisions) /\ DOMAIN es = D
  <2>1. es \in [1 .. Len(ds) -> Decisions]
    BY <1>1, <1>2, <1>3
  <2> QED
    BY <1>2, <1>3, <2>1
<1>5. \A i \in D : es[i] = ds[p[i]] /\ p[i] \in D
  BY <1>1, <1>3
<1>6. \A i \in D : i \in J <=> p[i] \in I
  BY <1>4, <1>5 DEF contributors, D
<1>7. J \in SUBSET D /\ I \in SUBSET D
  BY <1>4 DEF contributors, D
<1> HIDE DEF I, J
<1>8. /\ \A j \in J : p[j] \in I /\ es[j] = ds[p[j]]
      /\ \A j, l \in J : p[j] = p[l] => j = l
      /\ \A i \in I : \E j \in J : p[j] = i
  BY <1>1, <1>5, <1>6, <1>7
<1> QED
  BY <1>4, <1>8 DEF I, J, es

\* So the contributions to s do not depend on the order the decisions came in.
LEMMA SameContributions ==
  ASSUME NEW ds \in Seq(Decisions), NEW p \in Bijection(DOMAIN ds, DOMAIN ds), NEW s
  PROVE  contributions(Permuted(ds, p), s) = contributions(ds, s)
<1> DEFINE es == Permuted(ds, p)
           I == contributors(ds, s)
           J == contributors(es, s)
           v == Values(ds, s)
           w == Values(es, s)
           x == Index(ds, s)
           y == Index(es, s)
           n == Cardinality(I)
           q == [j \in J |-> p[j]]
           t == [k \in 1 .. n |-> p[y[k]]]
<1>1. /\ es \in Seq(Decisions)
      /\ \A j \in J : p[j] \in I /\ es[j] = ds[p[j]]
      /\ \A j, l \in J : p[j] = p[l] => j = l
      /\ \A i \in I : \E j \in J : p[j] = i
  BY PermutedContributors
<1>2. /\ \A i \in I : v[i] = contribution(ds[i])
      /\ \A j \in J : w[j] = contribution(es[j])
  BY DEF Values
<1> HIDE DEF es
<1>3. /\ IsFiniteSet(I) /\ n \in Nat /\ \A i \in I : v[i] \in Contributions
      /\ Sorts(x, I, v) /\ contributions(ds, s) = [k \in 1 .. n |-> v[x[k]]]
  BY ContributionsSorted
<1>4. /\ IsFiniteSet(J) /\ Sorts(y, J, w)
      /\ contributions(es, s) = [k \in 1 .. Cardinality(J) |-> w[y[k]]]
  BY <1>1, ContributionsSorted
<1> HIDE DEF I, J, v, w, x, y
<1>5. Cardinality(J) = n
  <2>1. q \in [J -> I] /\ (\A j, l \in J : q[j] = q[l] => j = l) /\ \A i \in I : \E j \in J : q[j] = i
    BY <1>1
  <2> HIDE DEF q
  <2>2. q \in Bijection(J, I)
    BY <2>1 DEF Bijection, Injection, Surjection, IsInjective
  <2> QED
    BY <1>3, <1>4, <2>2, FS_Bijection DEF ExistsBijection
<1>6. \A j \in J : v[p[j]] = w[j]
  BY <1>1, <1>2
<1> HIDE DEF n
<1>7. /\ y \in [1 .. n -> J]
      /\ \A k, l \in 1 .. n : y[k] = y[l] => k = l
      /\ \A j \in J : \E k \in 1 .. n : y[k] = j
      /\ \A k, l \in 1 .. n : k < l => ~compareContribution(w[y[l]], w[y[k]])
  BY <1>4, <1>5 DEF Sorts
<1>8. \A k \in 1 .. n : y[k] \in J /\ t[k] = p[y[k]] /\ t[k] \in I /\ v[t[k]] = w[y[k]]
  BY <1>1, <1>6, <1>7
<1>9. Sorts(t, I, v)
  <2>1. t \in [1 .. n -> I]
    BY <1>8
  <2> HIDE DEF t
  <2>2. \A k, l \in 1 .. n : t[k] = t[l] => k = l
    BY <1>1, <1>7, <1>8
  <2>3. \A i \in I : \E k \in 1 .. n : t[k] = i
    BY <1>1, <1>7, <1>8
  <2>4. \A k, l \in 1 .. n : k < l => ~compareContribution(v[t[l]], v[t[k]])
    BY <1>7, <1>8
  <2> QED
    BY <2>1, <2>2, <2>3, <2>4 DEF Sorts, n
<1> HIDE DEF t
<1>10. \A k \in 1 .. n : v[x[k]] = v[t[k]]
  <2> USE DEF n
  <2> QED
    BY <1>3, <1>9, OneSortedList
<1>11. contributions(es, s) = contributions(ds, s)
  BY <1>3, <1>4, <1>5, <1>8, <1>10
<1> QED
  BY <1>11 DEF es

-----------------------------------------------------------------------------
(* What the contributions net to.                                            *)
NetSteps(cs) == [q \in (1 .. Len(cs)) \X Int |-> q[2] + cs[q[1]].notional]
NetsUp(g, cs) == g = [t \in SUBSET (DOMAIN cs) |->
                        IF t = {} THEN 0 ELSE g[t \ {Max(t)}] + cs[Max(t)].notional]

\* The notionals are added up one contribution after the other.
LEMMA NetRun ==
  ASSUME NEW cs \in Seq(Contributions)
  PROVE  \E c : IsRun(c, Len(cs), Int, 0, NetSteps(cs)) /\ netSigned(cs) = c[Len(cs)]
<1> DEFINE n == Len(cs)
           T == NetSteps(cs)
<1>1. n \in Nat /\ DOMAIN cs = 1 .. n /\ \A i \in 1 .. n : cs[i].notional \in Int
  <2>1. n \in Nat /\ DOMAIN cs = 1 .. n /\ \A i \in 1 .. n : cs[i] \in Contributions
    OBVIOUS
  <2>2. \A a \in Contributions : a.notional \in Int
    BY DEF Contributions
  <2> QED
    BY <2>1, <2>2
<1>2. T \in [(1 .. n) \X Int -> Int] /\ \A i \in 1 .. n, a \in Int : T[<<i, a>>] = a + cs[i].notional
  BY <1>1 DEF NetSteps
<1> DEFINE Z == Int
<1> HIDE DEF n, T
<1>0. 0 \in Z /\ T \in [(1 .. n) \X Z -> Z] /\ \A i \in 1 .. n, a \in Z : T[<<i, a>>] = a + cs[i].notional
  BY <1>2
<1> HIDE DEF Z
<1>3. PICK it \in [SUBSET (1 .. n) -> Z] : Folded(it, n, 0, T)
  BY <1>0, <1>1, FoldExists
<1>4. \A t \in SUBSET (1 .. n) : t # {} => Max(t) \in 1 .. n /\ t \ {Max(t)} \in SUBSET (1 .. n)
  BY <1>1, MaxOfPositions
<1>5. NetsUp(it, cs)
  <2>1. \A t \in SUBSET (1 .. n) : it[t] = IF t = {} THEN 0 ELSE it[t \ {Max(t)}] + cs[Max(t)].notional
    BY <1>0, <1>1, <1>3, <1>4 DEF Folded
  <2> QED
    BY <1>1, <1>3, <2>1 DEF NetsUp
<1>6. PICK g : NetsUp(g, cs) /\ netSigned(cs) = g[DOMAIN cs]
  BY <1>5, Zenon DEF netSigned, FoldLeft, MapThenFoldSet, NetsUp
<1>7. /\ g[{}] = 0
      /\ \A t \in SUBSET (1 .. n) : t # {} => g[t] = g[t \ {Max(t)}] + cs[Max(t)].notional
  BY <1>1, <1>6 DEF NetsUp
<1>8. Recurses(g, n, Z, 0, T) /\ StepsIn(Z, n, 0, T)
  BY <1>0, <1>1, <1>4, <1>7 DEF Recurses, StepsIn
<1>9. \E c : IsRun(c, n, Z, 0, T) /\ c[n] = g[1 .. n]
  BY <1>8, FoldRuns
<1> QED
  BY <1>1, <1>6, <1>9 DEF n, T, Z

\* What the contributions numbered B staked together.
StakeOf(cs) == [i \in DOMAIN cs |-> Stake(cs[i])]
StakedTotal(cs, B) == MapThenSumSet(LAMBDA i : Stake(cs[i]), B)
SumsStakes(g, cs, B) ==
  g = [t \in SUBSET B |-> IF t = {} THEN 0
         ELSE Stake(cs[CHOOSE x \in t : TRUE]) + g[t \ {CHOOSE x \in t : TRUE}]]

\* MapThenSumSet satisfies the recursion it is defined by.
LEMMA StakesUnfold ==
  ASSUME NEW cs, NEW B, NEW it, SumsStakes(it, cs, B)
  PROVE  \E g : SumsStakes(g, cs, B) /\ StakedTotal(cs, B) = g[B]
BY Zenon DEF StakedTotal, MapThenSumSet, MapThenFoldSet, SumsStakes

\* The stakes are summed in any order.
LEMMA StakesSum ==
  ASSUME NEW cs, NEW B \in SUBSET DOMAIN cs, IsFiniteSet(B), \A i \in B : Stake(cs[i]) \in Int
  PROVE  StakedTotal(cs, B) = SumOf(StakeOf(cs), B)
<1> DEFINE f == StakeOf(cs)
<1>1. \A i \in B : f[i] = Stake(cs[i]) /\ f[i] \in Int
  BY DEF StakeOf
<1> HIDE DEF f
<1>2. PICK it \in [SUBSET B -> Int] : Summed(it, f, B) /\ SumOf(f, B) = it[B]
  BY <1>1, SumIs
<1>3. \A t \in SUBSET B : t # {} => (CHOOSE x \in t : TRUE) \in B
  OBVIOUS
<1>4. SumsStakes(it, cs, B)
  <2>1. \A t \in SUBSET B : it[t] = IF t = {} THEN 0
          ELSE Stake(cs[CHOOSE x \in t : TRUE]) + it[t \ {CHOOSE x \in t : TRUE}]
    BY <1>1, <1>2, <1>3 DEF Summed
  <2> QED
    BY <1>2, <2>1 DEF SumsStakes
<1>5. PICK g : SumsStakes(g, cs, B) /\ StakedTotal(cs, B) = g[B]
  BY <1>4, StakesUnfold
<1>6. Summed(g, f, B)
  <2>1. \A t \in SUBSET B : g[t] = IF t = {} THEN 0
          ELSE Stake(cs[CHOOSE x \in t : TRUE]) + g[t \ {CHOOSE x \in t : TRUE}]
    BY <1>5 DEF SumsStakes
  <2> QED
    BY <1>1, <1>3, <2>1 DEF Summed
<1>7. g[B] = it[B]
  BY <1>2, <1>6, SumAgrees
<1> QED
  BY <1>2, <1>5, <1>7 DEF f

\* What the contributions net to on a side is at most what that side staked, and nothing
\* when nobody took it.
LEMMA NetIsBacked ==
  ASSUME NEW cs \in Seq(Contributions), \A i \in 1 .. Len(cs) : Stake(cs[i]) \in Nat,
         NEW side \in {"LONG", "SHORT"}
  PROVE  LET B == {i \in 1 .. Len(cs) : cs[i].side = side}
             m == IF side = "LONG" THEN netSigned(cs) ELSE -netSigned(cs)
         IN /\ netSigned(cs) \in Int /\ IsFiniteSet(B)
            /\ SumOf(StakeOf(cs), B) \in Int /\ m <= SumOf(StakeOf(cs), B)
            /\ B = {} => m <= 0
<1> DEFINE n == Len(cs)
           f == StakeOf(cs)
           TakenUpTo(k) == {i \in 1 .. k : cs[i].side = side}
<1>1. PICK c : IsRun(c, n, Int, 0, NetSteps(cs)) /\ netSigned(cs) = c[n]
  BY NetRun
<1> DEFINE Netted(k) == IF side = "LONG" THEN c[k] ELSE -c[k]
<1>2. n \in Nat /\ \A i \in 1 .. n : cs[i] \in Contributions /\ f[i] = Stake(cs[i]) /\ f[i] \in Nat
  BY DEF StakeOf
<1>3. \A i \in 1 .. n : /\ cs[i].notional \in Int /\ cs[i].side \in {"LONG", "SHORT"}
                        /\ f[i] = IF cs[i].side = "LONG" THEN cs[i].notional ELSE -cs[i].notional
  <2> TAKE i \in 1 .. n
  <2>1. cs[i].notional \in Int /\ cs[i].side \in {"LONG", "SHORT"}
    BY <1>2 DEF Contributions
  <2> QED
    BY <1>2, <2>1 DEF Stake, signOf
<1>4. /\ c \in [0 .. n -> Int] /\ c[0] = 0
      /\ \A i \in 1 .. n : c[i] = c[i - 1] + cs[i].notional
  <2>1. \A i \in 1 .. n : i - 1 \in 0 .. n
    BY <1>2
  <2> QED
    BY <1>1, <2>1 DEF IsRun, NetSteps
<1> HIDE DEF n, f
<1>5. \A k \in 0 .. n : c[k] \in Int /\ Netted(k) \in Int
  BY <1>4
<1>6. \A k \in 0 .. n : IsFiniteSet(TakenUpTo(k)) /\ SumOf(f, TakenUpTo(k)) \in Int
                        /\ TakenUpTo(k) \in SUBSET (1 .. n)
  <2> TAKE k \in 0 .. n
  <2> DEFINE V == 1 .. k
             W == TakenUpTo(k)
  <2>1. IsFiniteSet(V)
    BY FS_Interval
  <2>2. W \in SUBSET V /\ W \in SUBSET (1 .. n)
    BY <1>2
  <2>3. \A x \in W : f[x] \in Int
    BY <1>2, <2>2
  <2> HIDE DEF V, W
  <2>4. IsFiniteSet(W)
    BY <2>1, <2>2, FS_Subset
  <2>5. SumOf(f, W) \in Int
    BY <2>3, <2>4, SumFacts
  <2> QED
    BY <2>2, <2>4, <2>5 DEF W
<1>7. ASSUME NEW k \in 1 .. n, Netted(k - 1) <= SumOf(f, TakenUpTo(k - 1))
      PROVE  Netted(k) <= SumOf(f, TakenUpTo(k))
  <2> DEFINE a == Netted(k - 1)
             b == Netted(k)
             W == TakenUpTo(k)
             V == TakenUpTo(k - 1)
  <2>1. k - 1 \in 0 .. n /\ k \in 0 .. n
    BY <1>2
  <2>2. /\ cs[k].side = side => b = a + f[k]
        /\ cs[k].side # side => b = a - f[k]
    <3>1. c[k] = c[k - 1] + cs[k].notional /\ c[k] \in Int /\ c[k - 1] \in Int /\ cs[k].notional \in Int
      BY <1>3, <1>4, <1>5, <2>1
    <3>2. cs[k].side = "LONG" \/ cs[k].side = "SHORT"
      BY <1>3
    <3>3. f[k] = IF cs[k].side = "LONG" THEN cs[k].notional ELSE -cs[k].notional
      BY <1>3
    <3>4. CASE side = "LONG"
      <4>1. cs[k].side # side => f[k] = -cs[k].notional
        BY <3>3, <3>4
      <4>2. cs[k].side = side => f[k] = cs[k].notional
        BY <3>3, <3>4
      <4> QED
        BY <3>1, <3>4, <4>1, <4>2
    <3>5. CASE side = "SHORT"
      <4>1. cs[k].side = side => f[k] = -cs[k].notional
        BY <3>3, <3>5
      <4>2. cs[k].side # side => f[k] = cs[k].notional
        BY <3>2, <3>3, <3>5
      <4> QED
        BY <3>1, <3>5, <4>1, <4>2
    <3> QED
      BY <3>4, <3>5
  <2>3. a \in Int /\ b \in Int /\ f[k] \in Nat /\ SumOf(f, V) \in Int /\ SumOf(f, W) \in Int
        /\ IsFiniteSet(W)
    BY <1>2, <1>5, <1>6, <2>1
  <2>4. a <= SumOf(f, V)
    BY <1>7
  <2>5. cs[k].side # side => W = V
    BY <1>2
  <2>6. cs[k].side = side => k \in W /\ W \ {k} = V
    BY <1>2
  <2>7. \A x \in W : f[x] \in Int
    BY <1>2, <1>6, <2>1
  <2> HIDE DEF a, b, W, V
  <2>8. \A y \in W : SumOf(f, W) = f[y] + SumOf(f, W \ {y})
    BY <2>3, <2>7, SumFacts
  <2>9. b <= SumOf(f, W)
    <3>1. CASE cs[k].side = side
      <4>1. SumOf(f, W) = f[k] + SumOf(f, V)
        BY <2>6, <2>8, <3>1
      <4> QED
        BY <2>2, <2>3, <2>4, <3>1, <4>1
    <3>2. CASE cs[k].side # side
      BY <2>2, <2>3, <2>4, <2>5, <3>2
    <3> QED
      BY <3>1, <3>2
  <2> QED
    BY <2>9 DEF b, W
<1>8. Netted(0) <= SumOf(f, TakenUpTo(0))
  <2>1. TakenUpTo(0) = {} /\ 0 \in 0 .. n
    BY <1>2
  <2>2. SumOf(f, {}) = 0
    BY FS_EmptySet, SumFacts
  <2> QED
    BY <1>4, <2>1, <2>2
<1> DEFINE Good(k) == Netted(k) <= SumOf(f, TakenUpTo(k))
           bad == {k \in Nat : k <= n /\ ~Good(k)}
<1>9. bad = {}
  <2>1. Good(0) /\ \A k \in 1 .. n : Good(k - 1) => Good(k)
    BY <1>7, <1>8
  <2> HIDE DEF Good
  <2> SUFFICES ASSUME bad # {} PROVE FALSE
    OBVIOUS
  <2>2. PICK k \in bad : \A j \in bad : k <= j
    <3>1. bad \in SUBSET Nat
      OBVIOUS
    <3> HIDE DEF bad
    <3> QED
      BY <3>1, LeastNumber
  <2>3. k \in 1 .. n /\ k - 1 \in Nat /\ k - 1 < k /\ k - 1 <= n
    BY <1>2, <2>1, <2>2
  <2> QED
    BY <2>1, <2>2, <2>3
<1>10. Good(n) /\ n \in 0 .. n
  <2> HIDE DEF Good
  <2> QED
    BY <1>2, <1>9
<1>11. TakenUpTo(n) = {} => SumOf(f, TakenUpTo(n)) = 0
  <2>1. SumOf(f, {}) = 0
    BY FS_EmptySet, SumFacts
  <2> QED
    BY <2>1
<1>12. c[n] \in Int /\ Netted(n) \in Int /\ IsFiniteSet(TakenUpTo(n)) /\ SumOf(f, TakenUpTo(n)) \in Int
  BY <1>5, <1>6, <1>10
<1>13. TakenUpTo(n) = {} => Netted(n) <= 0
  <2> DEFINE b == Netted(n)
             W == TakenUpTo(n)
  <2>1. b <= SumOf(f, W)
    BY <1>10
  <2> HIDE DEF b, W
  <2> QED
    BY <1>11, <2>1 DEF b, W
<1> QED
  BY <1>1, <1>10, <1>12, <1>13 DEF n, f

-----------------------------------------------------------------------------
\* The contributions to a symbol are a sorted list.
LEMMA ContributionsAre ==
  ASSUME NEW ds \in Seq(Decisions), NEW s
  PROVE  LET cs == contributions(ds, s)
         IN /\ cs \in Seq(Contributions) /\ Len(cs) = Cardinality(contributors(ds, s))
            /\ Len(cs) \in Nat /\ DOMAIN cs = 1 .. Len(cs)
            /\ \A i \in 1 .. Len(cs) : cs[i] \in Contributions /\ Stake(cs[i]) \in Nat
            /\ \A i, j \in 1 .. Len(cs) : i < j => ~compareContribution(cs[j], cs[i])
<1> DEFINE I == contributors(ds, s)
           v == Values(ds, s)
           x == Index(ds, s)
           n == Cardinality(I)
           cs == contributions(ds, s)
<1>1. /\ n \in Nat /\ \A i \in I : v[i] \in Contributions /\ Stake(v[i]) \in Nat
      /\ Sorts(x, I, v) /\ cs = [k \in 1 .. n |-> v[x[k]]]
  BY ContributionsSorted
<1>2. /\ x \in [1 .. n -> I]
      /\ \A k, l \in 1 .. n : k < l => ~compareContribution(v[x[l]], v[x[k]])
  BY <1>1 DEF Sorts
<1> HIDE DEF I, v, x, n, cs
<1>3. cs \in [1 .. n -> Contributions]
  BY <1>1, <1>2
<1>4. cs \in Seq(Contributions) /\ Len(cs) = n /\ DOMAIN cs = 1 .. n
  BY <1>1, <1>3
<1>5. \A k \in 1 .. n : cs[k] = v[x[k]] /\ x[k] \in I
  BY <1>1, <1>2
<1> QED
  BY <1>1, <1>2, <1>4, <1>5 DEF n, I, cs

\* Whoever owns an allocation took its side, staked most on it, and the side staked it all.
LEMMA OwnerBacks ==
  ASSUME NEW ds \in Seq(Decisions), NEW s,
         LET net == netSigned(contributions(ds, s)) IN net > NetDeadband \/ net < -NetDeadband
  PROVE  LET r == proposal(s, contributions(ds, s))
             B == {i \in DOMAIN r.contributions : r.contributions[i].side = r.side}
         IN /\ r.primary.side = r.side
            /\ \A i \in B : Stake(r.primary) >= Stake(r.contributions[i])
            /\ r.target <= StakedTotal(r.contributions, B)
<1> DEFINE cs == contributions(ds, s)
           n == Len(cs)
           net == netSigned(cs)
           side == IF net > 0 THEN "LONG" ELSE "SHORT"
           m == IF side = "LONG" THEN net ELSE -net
           B == {i \in 1 .. n : cs[i].side = side}
           r == proposal(s, cs)
<1>1. /\ cs \in Seq(Contributions) /\ n \in Nat /\ DOMAIN cs = 1 .. n
      /\ \A i \in 1 .. n : cs[i] \in Contributions /\ Stake(cs[i]) \in Nat
      /\ \A i, j \in 1 .. n : i < j => ~compareContribution(cs[j], cs[i])
  BY ContributionsAre
<1>2. r.side = side /\ r.target = (IF net > 0 THEN net ELSE -net) /\ r.primary = primary(cs, side)
      /\ r.contributions = cs
  BY DEF proposal
<1>3. net > NetDeadband \/ net < -NetDeadband
  OBVIOUS
<1> HIDE DEF cs, r
<1>4. side \in {"LONG", "SHORT"}
  OBVIOUS
<1>5. /\ net \in Int /\ IsFiniteSet(B) /\ SumOf(StakeOf(cs), B) \in Int
      /\ m <= SumOf(StakeOf(cs), B) /\ (B = {} => m <= 0)
  <2> HIDE DEF side
  <2> QED
    BY <1>1, <1>4, NetIsBacked
<1>6. r.target = m
  BY <1>2
<1>7. m \in Int /\ m > 0
  <2> HIDE DEF net
  <2> QED
    BY <1>3, <1>5, AllocationAssumption
<1> HIDE DEF net, side
<1>8. B # {} /\ B \in SUBSET Nat
  <2> HIDE DEF m
  <2>1. B # {}
    <3> HIDE DEF B
    <3> QED
      BY <1>5, <1>7
  <2> QED
    BY <1>1, <2>1
<1>9. PICK k \in B : \A j \in B : k <= j
  <2> HIDE DEF B
  <2> QED
    BY <1>8, LeastNumber
<1> DEFINE First(i) == cs[i].side = side /\ \A j \in 1 .. (i - 1) : cs[j].side # side
<1>10. k \in DOMAIN cs /\ First(k)
  <2>1. k \in 1 .. n /\ cs[k].side = side
    OBVIOUS
  <2>2. ASSUME NEW j \in 1 .. (k - 1) PROVE cs[j].side # side
    BY <1>1, <1>9, <2>1
  <2> QED
    BY <1>1, <2>1, <2>2
<1> DEFINE i0 == CHOOSE i \in DOMAIN cs : First(i)
<1>11. i0 \in DOMAIN cs /\ First(i0)
  <2> HIDE DEF First
  <2> QED
    BY <1>10
<1>12. primary(cs, side) = cs[i0]
  BY DEF primary
<1> HIDE DEF i0
<1>13. \A i \in B : Stake(cs[i0]) >= Stake(cs[i])
  <2> TAKE i \in B
  <2>1. i \in 1 .. n /\ i0 \in 1 .. n /\ (i0 = i \/ i0 < i)
    BY <1>1, <1>11
  <2>2. ~compareContribution(cs[i], cs[i0])
    <3>1. CASE i0 = i
      BY <1>1, <2>1, <3>1, TotalOrder
    <3>2. CASE i0 < i
      BY <1>1, <2>1, <3>2
    <3> QED
      BY <2>1, <3>1, <3>2
  <2>3. cs[i] \in Contributions /\ cs[i0] \in Contributions /\ Stake(cs[i]) \in Nat
    BY <1>1, <2>1
  <2>4. compareContribution(cs[i0], cs[i]) \/ cs[i0] = cs[i]
    BY <2>2, <2>3, TotalOrder
  <2>5. Stake(cs[i]) <= Stake(cs[i0])
    BY <2>3, <2>4, TotalOrder
  <2> QED
    BY <1>1, <2>1, <2>5
<1>14. StakedTotal(cs, B) = SumOf(StakeOf(cs), B)
  <2>1. B \in SUBSET DOMAIN cs /\ \A i \in B : Stake(cs[i]) \in Int
    BY <1>1
  <2> HIDE DEF B
  <2> QED
    BY <1>5, <2>1, StakesSum
<1>15. B = {i \in DOMAIN r.contributions : r.contributions[i].side = r.side}
  BY <1>1, <1>2
<1>16. r.primary.side = r.side
  BY <1>2, <1>11, <1>12
<1>17. r.target <= StakedTotal(r.contributions, B)
  BY <1>2, <1>5, <1>6, <1>14
<1>18. \A i \in B : Stake(r.primary) >= Stake(r.contributions[i])
  BY <1>2, <1>12, <1>13
<1> HIDE DEF B
<1> QED
  BY <1>15, <1>16, <1>17, <1>18 DEF r, cs

-----------------------------------------------------------------------------
\* The proposals are what the decisions of the tick make.
AllocInv == decisions \in Seq(Decisions) /\ proposals = aggregateDecisions(decisions)

\* Without decisions nothing is proposed.
LEMMA NothingProposed ==
  aggregateDecisions(<<>>) = {}
<1>1. \A s : netSigned(contributions(<<>>, s)) = 0
  <2> TAKE s
  <2> DEFINE cs == contributions(<<>>, s)
  <2>0. <<>> \in Seq(Decisions)
    OBVIOUS
  <2>1. contributors(<<>>, s) = {}
    BY DEF contributors
  <2>2. cs \in Seq(Contributions) /\ Len(cs) = Cardinality(contributors(<<>>, s))
    BY <2>0, ContributionsAre
  <2> HIDE DEF cs
  <2>3. Len(cs) = 0
    BY <2>1, <2>2, FS_EmptySet
  <2>4. PICK c : IsRun(c, Len(cs), Int, 0, NetSteps(cs)) /\ netSigned(cs) = c[Len(cs)]
    BY <2>2, NetRun
  <2>5. netSigned(cs) = 0
    BY <2>3, <2>4 DEF IsRun
  <2> QED
    BY <2>5 DEF cs
<1> QED
  BY <1>1, AllocationAssumption DEF aggregateDecisions

\* Every step keeps the proposals up to date.
LEMMA AllocInvariant == AllocSpec => []AllocInv
<1>1. AllocInit => AllocInv
  BY NothingProposed DEF AllocInit, AllocInv
<1>2. AllocInv /\ [AllocNext]_allocVars => AllocInv'
  <2> SUFFICES ASSUME AllocInv, [AllocNext]_allocVars PROVE AllocInv'
    OBVIOUS
  <2>1. ASSUME NEW d \in Decisions, Arrives(d) PROVE AllocInv'
    <3>1. decisions' \in Seq(Decisions)
      BY <2>1 DEF Arrives, AllocInv
    <3> QED
      BY <2>1, <3>1 DEF Arrives, AllocInv
  <2>2. CASE NextTick
    BY <2>2, NothingProposed DEF NextTick, AllocInv
  <2>3. CASE UNCHANGED allocVars
    BY <2>3 DEF allocVars, AllocInv
  <2> QED
    BY <2>1, <2>2, <2>3 DEF AllocNext
<1> QED
  BY <1>1, <1>2, PTL DEF AllocSpec

\* Proposals made by aggregateDecisions are fair.
LEMMA AllocationIs ==
  ASSUME AllocInv
  PROVE  AllocationSound
<1>1. decisions \in Seq(Decisions) /\ proposals = aggregateDecisions(decisions)
  BY DEF AllocInv
<1>2. ArrivalOrderIrrelevant
  <2> SUFFICES ASSUME NEW p \in Bijection(DOMAIN decisions, DOMAIN decisions)
               PROVE  aggregateDecisions(Permuted(decisions, p)) = aggregateDecisions(decisions)
    BY <1>1 DEF ArrivalOrderIrrelevant
  <2> DEFINE es == Permuted(decisions, p)
  <2>1. \A s : contributions(es, s) = contributions(decisions, s)
    BY <1>1, SameContributions
  <2> HIDE DEF es
  <2>2. aggregateDecisions(es) = aggregateDecisions(decisions)
    BY <2>1 DEF aggregateDecisions
  <2> QED
    BY <2>2 DEF es
<1>3. OwnerBacksTheNet
  <2> SUFFICES ASSUME NEW r \in proposals
               PROVE  LET B == {i \in DOMAIN r.contributions : r.contributions[i].side = r.side}
                      IN /\ r.primary.side = r.side
                         /\ \A i \in B : Stake(r.primary) >= Stake(r.contributions[i])
                         /\ r.target <= StakedTotal(r.contributions, B)
    BY Zenon DEF OwnerBacksTheNet, StakedTotal
  <2>1. PICK s \in AllocSymbols :
          /\ r = proposal(s, contributions(decisions, s))
          /\ LET net == netSigned(contributions(decisions, s)) IN net > NetDeadband \/ net < -NetDeadband
    BY <1>1 DEF aggregateDecisions
  <2> QED
    BY <1>1, <2>1, OwnerBacks
<1> QED
  BY <1>2, <1>3 DEF AllocationSound

\* For any strategies, capital, confidences, deadband and number of decisions: the
\* proposals of aggregateDecisions, their owners and lists of contributions included, do
\* not depend on the order the decisions of a tick came in, an owner (primary) took the
\* side of the net and staked most on it, and no more is traded than that side staked.
THEOREM AllocationIsFair == AllocSpec => []AllocationSound
BY AllocInvariant, AllocationIs, PTL

=============================================================================

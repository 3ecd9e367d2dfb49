-------------------------- MODULE RiskEngineProofs --------------------------
(***************************************************************************)
(* The risk engine on its journal: a completed halt survives every torn    *)
(* append and restart, the journal is the truth of the engine, and an      *)
(* approved order leaves the book within every limit, up to rounding.  For *)
(* any symbols, limits, proposals and faults, and journals of any length.  *)
(***************************************************************************)
EXTENDS RiskEngine, CommonProofs

-----------------------------------------------------------------------------
(* The fold of a journal.  That the recursive definition has a solution, and *)
(* that it does not depend on what follows, is an induction on the number of *)
(* records, written as the search for a least counterexample.                *)

\* f is the fold of the first n records.
Folds(records, n, f) ==
  f = [m \in 0 .. n |-> IF m = 0 THEN initialRiskControlState
                        ELSE applyRiskRecord(f[m - 1], records[m])]

LEMMA ReplayExists ==
  ASSUME NEW records, NEW n \in Nat
  PROVE  \E f : Folds(records, n, f)
<1> DEFINE T == {k \in Nat : ~\E f : Folds(records, k, f)}
<1>1. SUFFICES ASSUME T # {} PROVE FALSE
  OBVIOUS
<1>2. PICK k \in T : \A j \in T : k <= j
  BY <1>1, LeastNumber
<1>3. k # 0
  <2> DEFINE f == [m \in 0 .. 0 |-> initialRiskControlState]
  <2>1. \A m \in 0 .. 0 : m = 0
    OBVIOUS
  <2>2. Folds(records, 0, f)
    BY <2>1 DEF Folds
  <2> QED
    BY <2>2
<1>4. k - 1 \in Nat /\ k - 1 \notin T
  BY <1>2, <1>3
<1>5. PICK g : Folds(records, k - 1, g)
  BY <1>4
<1> DEFINE f == [m \in 0 .. k |-> IF m = k THEN applyRiskRecord(g[k - 1], records[k])
                                  ELSE g[m]]
<1>6. ASSUME NEW m \in 0 .. k
      PROVE  f[m] = IF m = 0 THEN initialRiskControlState
                    ELSE applyRiskRecord(f[m - 1], records[m])
  <2>1. CASE m = k
    <3>1. f[m] = applyRiskRecord(g[k - 1], records[k]) /\ f[m - 1] = g[k - 1]
      BY <1>3, <2>1
    <3> QED
      BY <1>3, <2>1, <3>1
  <2>2. CASE m # k
    <3>1. m \in 0 .. (k - 1) /\ f[m] = g[m]
      BY <2>2
    <3>2. g[m] = IF m = 0 THEN initialRiskControlState
                 ELSE applyRiskRecord(g[m - 1], records[m])
      BY <1>5, <3>1 DEF Folds
    <3>3. m # 0 => m - 1 \in 0 .. k /\ m - 1 # k /\ f[m - 1] = g[m - 1]
      BY <3>1
    <3> QED
      BY <3>1, <3>2, <3>3
  <2> QED
    BY <2>1, <2>2
<1>7. f = [m \in 0 .. k |-> f[m]]
  OBVIOUS
<1> HIDE DEF f
<1>8. Folds(records, k, f)
  BY <1>6, <1>7 DEF Folds
<1> QED
  BY <1>8

\* Folds of records that agree, agree.
LEMMA FoldAgrees ==
  ASSUME NEW r, NEW s, NEW n \in Nat, NEW l \in Nat, n <= l, NEW f, NEW g,
         Folds(r, n, f), Folds(s, l, g), \A i \in 1 .. n : r[i] = s[i]
  PROVE  \A m \in 0 .. n : f[m] = g[m]
<1> DEFINE T == {m \in Nat : m <= n /\ f[m] # g[m]}
<1>1. SUFFICES ASSUME T # {} PROVE FALSE
  OBVIOUS
<1>2. PICK k \in T : \A j \in T : k <= j
  BY <1>1, LeastNumber
<1>3. k \in 0 .. n /\ k \in 0 .. l
  BY <1>2
<1>4. f[k] = IF k = 0 THEN initialRiskControlState ELSE applyRiskRecord(f[k - 1], r[k])
  BY <1>3 DEF Folds
<1>5. g[k] = IF k = 0 THEN initialRiskControlState ELSE applyRiskRecord(g[k - 1], s[k])
  BY <1>3 DEF Folds
<1>6. k # 0 => k - 1 \in Nat /\ k - 1 <= n /\ ~(k <= k - 1) /\ r[k] = s[k]
  BY <1>3
<1>7. k # 0 => k - 1 \notin T
  BY <1>2, <1>6
<1>8. k # 0 => f[k - 1] = g[k - 1]
  BY <1>6, <1>7
<1> QED
  BY <1>2, <1>4, <1>5, <1>6, <1>8

\* What reconstructRiskState computes.
LEMMA FoldIs ==
  ASSUME NEW records, Len(records) \in Nat
  PROVE  \E f : Folds(records, Len(records), f)
                /\ reconstructRiskState(records) = f[Len(records)]
<1> DEFINE f == CHOOSE f : Folds(records, Len(records), f)
<1>1. Folds(records, Len(records), f)
  BY ReplayExists
<1>2. reconstructRiskState(records) = f[Len(records)]
  BY DEF reconstructRiskState, Folds
<1> QED
  BY <1>1, <1>2

\* No record.
LEMMA FoldOfNothing ==
  ASSUME NEW records, Len(records) = 0
  PROVE  reconstructRiskState(records) = initialRiskControlState
<1>1. PICK f : Folds(records, 0, f) /\ reconstructRiskState(records) = f[0]
  BY FoldIs
<1> QED
  BY <1>1 DEF Folds

\* One more record.
LEMMA FoldOfOneMore ==
  ASSUME NEW r, NEW s, Len(r) \in Nat, Len(s) = Len(r) + 1,
         \A i \in 1 .. Len(r) : r[i] = s[i]
  PROVE  reconstructRiskState(s) = applyRiskRecord(reconstructRiskState(r), s[Len(s)])
<1>1. PICK f : Folds(r, Len(r), f) /\ reconstructRiskState(r) = f[Len(r)]
  BY FoldIs
<1>2. Len(s) \in Nat /\ Len(r) <= Len(s) /\ Len(s) # 0 /\ Len(s) - 1 = Len(r)
  OBVIOUS
<1>3. PICK g : Folds(s, Len(s), g) /\ reconstructRiskState(s) = g[Len(s)]
  BY <1>2, FoldIs
<1>4. \A m \in 0 .. Len(r) : f[m] = g[m]
  <2> DEFINE n == Len(r)
             l == Len(s)
  <2>1. /\ n \in Nat /\ l \in Nat /\ n <= l /\ Folds(r, n, f) /\ Folds(s, l, g)
        /\ \A i \in 1 .. n : r[i] = s[i]
    BY <1>1, <1>2, <1>3
  <2> HIDE DEF n, l
  <2>2. \A m \in 0 .. n : f[m] = g[m]
    BY <2>1, FoldAgrees
  <2> QED
    BY <2>2 DEF n
<1>5. g[Len(s)] = applyRiskRecord(g[Len(s) - 1], s[Len(s)])
  BY <1>2, <1>3 DEF Folds
<1> QED
  BY <1>1, <1>2, <1>3, <1>4, <1>5

\* A record the journal may hold keeps the type of the state.
LEMMA ApplyType ==
  ASSUME NEW s \in ControlState, NEW r \in RiskRecord
  PROVE  applyRiskRecord(s, r) \in ControlState
<1>1. Equities \subseteq Nat
  BY RiskAssumption
<1>2. /\ s.halted \in BOOLEAN /\ s.trigger \in Causes
      /\ s.baseline \in Capitals /\ s.peak \in Capitals
      /\ s.passed \in Nat /\ s.failed \in Nat
  BY DEF ControlState
<1>3. r.type \in EventTypes /\ r.trigger \in Causes /\ r.capital \in Capitals
  BY DEF RiskRecord
<1>4. "none" \in Causes
  BY DEF Causes
<1>5. (IF r.type = "TRADING_RESUMED" THEN FALSE ELSE s.halted \/ engages(r)) \in BOOLEAN
  BY <1>2 DEF engages
<1>6. (IF r.type = "TRADING_RESUMED" THEN "none"
       ELSE IF ~s.halted /\ engages(r) THEN r.trigger ELSE s.trigger) \in Causes
  BY <1>2, <1>3, <1>4
<1>7. /\ (IF s.baseline = NoCapital THEN r.capital ELSE s.baseline) \in Capitals
      /\ (IF r.capital > s.peak THEN r.capital ELSE s.peak) \in Capitals
  BY <1>2, <1>3
<1>8. /\ (IF r.type = "RISK_CHECK_PASSED" THEN s.passed + 1 ELSE s.passed) \in Nat
      /\ (IF r.type = "RISK_CHECK_FAILED" THEN s.failed + 1 ELSE s.failed) \in Nat
  BY <1>2
<1> QED
  BY <1>5, <1>6, <1>7, <1>8 DEF applyRiskRecord, ControlState

LEMMA FoldType ==
  ASSUME NEW records \in Seq(RiskRecord)
  PROVE  reconstructRiskState(records) \in ControlState
<1> DEFINE L == Len(records)
<1>1. L \in Nat /\ \A i \in 1 .. L : records[i] \in RiskRecord
  BY LenProperties
<1>2. PICK f : Folds(records, L, f) /\ reconstructRiskState(records) = f[L]
  BY <1>1, FoldIs
<1> HIDE DEF L
<1> DEFINE T == {m \in Nat : m <= L /\ f[m] \notin ControlState}
<1>3. SUFFICES ASSUME T # {} PROVE FALSE
  BY <1>1, <1>2
<1>4. PICK k \in T : \A j \in T : k <= j
  BY <1>3, LeastNumber
<1>5. k \in 0 .. L
  BY <1>1, <1>4
<1>6. f[k] = IF k = 0 THEN initialRiskControlState ELSE applyRiskRecord(f[k - 1], records[k])
  BY <1>2, <1>5 DEF Folds
<1>7. initialRiskControlState \in ControlState
  BY DEF initialRiskControlState, ControlState, Causes, Capitals
<1>8. k # 0 => k - 1 \in Nat /\ k - 1 <= L /\ ~(k <= k - 1) /\ records[k] \in RiskRecord
  BY <1>1, <1>5
<1>9. k # 0 => k - 1 \notin T
  BY <1>4, <1>8
<1>10. k # 0 => f[k - 1] \in ControlState
  BY <1>8, <1>9
<1> QED
  BY <1>4, <1>6, <1>7, <1>8, <1>10, ApplyType

-----------------------------------------------------------------------------
(* The journal of the engine. *)

Line == [parsed : Seq(RiskRecord), nl : BOOLEAN]

\* A journal is readable, with at most its last line torn, or broken for good.
Shape(f) == IsSequence(f) /\ (Broken(f) \/ Intact(f) \/ TornLast(f))

\* The number a running process gives its next record: an intact last line it has not
\* counted was left without its newline.
InStep(f, seq) ==
  Intact(f) => seq = Len(f) \/ (Unterminated(f) /\ seq = Len(f) - 1)

\* Every line is one record and its newline (NothingTorn, of any file).
Clean(f) == \A k \in DOMAIN f : f[k].nl /\ Len(f[k].parsed) = 1

\* A restart finds the engine halted: the journal is broken, or ends with a record that
\* engages the halt.
HoldsHalt(f) ==
  \/ Broken(f)
  \/ Intact(f) /\ Len(f) > 0 /\ engages(f[Len(f)].parsed[1])

\* The live state s is the fold r of the journal, but for a halt that is only in memory.
Tracks(s, r, h) ==
  /\ s.baseline = r.baseline /\ s.peak = r.peak
  /\ s.passed = r.passed /\ s.failed = r.failed
  /\ h # "memory" => s = r


LEMMA LinesAreSequence ==
  ASSUME NEW f \in Seq(Line)
  PROVE  IsSequence(f) /\ Len(f) \in Nat /\ DOMAIN f = 1 .. Len(f)
  BY SequenceOf, LenProperties

\* What is read from a journal that can be read.
LEMMA ReadType ==
  ASSUME NEW f \in Seq(Line), Intact(f) \/ TornLast(f)
  PROVE  readAll(f) \in Seq(RiskRecord)
<1>1. IsSequence(f) /\ Len(f) \in Nat /\ \A i \in 1 .. Len(f) : f[i] \in Line
  BY LinesAreSequence, LenProperties
<1> DEFINE s == readAll(f)
           n == Len(s)
<1>2. IsSequence(s) /\ n \in 0 .. Len(f)
      /\ \A i \in 1 .. n : s[i] = f[i].parsed[1] /\ Sound(f, i)
  <2>1. CASE Intact(f)
    BY <1>1, <2>1, ReadIntact DEF Intact
  <2>2. CASE TornLast(f)
    <3>1. IsSequence(s) /\ n = Len(f) - 1 /\ \A i \in 1 .. Len(f) - 1 : s[i] = f[i].parsed[1]
      BY <1>1, <2>2, ReadTorn
    <3>2. Len(f) > 0 /\ \A i \in 1 .. Len(f) - 1 : Sound(f, i)
      BY <2>2 DEF TornLast
    <3> QED
      BY <1>1, <3>1, <3>2
  <2> QED
    BY <2>1, <2>2
<1>3. s \in Seq(Entries(s))
  BY <1>2 DEF IsSequence
<1> HIDE DEF s
<1>4. n \in Nat /\ s = [i \in 1 .. n |-> s[i]]
  BY <1>3, LenProperties
<1>5. ASSUME NEW i \in 1 .. n PROVE s[i] \in RiskRecord
  <2>1. f[i] \in Line /\ f[i].parsed # <<>> /\ s[i] = f[i].parsed[1]
    BY <1>1, <1>2 DEF Sound
  <2>2. f[i].parsed \in Seq(RiskRecord) /\ f[i].parsed # <<>>
    BY <2>1 DEF Line
  <2>3. Len(f[i].parsed) \in Nat \ {0}
    BY <2>2, EmptySeq
  <2> QED
    BY <2>1, <2>2, <2>3, LenProperties
<1>6. s \in [1 .. n -> RiskRecord]
  BY <1>4, <1>5
<1>7. s \in Seq(RiskRecord)
  BY <1>4, <1>6
<1> QED
  BY <1>7 DEF s

\* An append keeps the type of the journal.
LEMMA AppendType ==
  ASSUME NEW f \in Seq(Line), NEW rec \in RiskRecord, NEW part \in Parts
  PROVE  appendFile(f, rec, part) \in Seq(Line)
<1> DEFINE text == [parsed |-> IF part = "torn" \/ Unterminated(f) THEN <<>> ELSE <<rec>>,
                    nl |-> part = "line"]
<1>1. <<>> \in Seq(RiskRecord) /\ <<rec>> \in Seq(RiskRecord)
  OBVIOUS
<1>2. (part = "line") \in BOOLEAN
  OBVIOUS
<1>3. text \in Line
  BY <1>1, <1>2 DEF Line
<1>4. appendFile(f, rec, part) =
        IF part = "none" THEN f
        ELSE IF Unterminated(f) THEN [f EXCEPT ![Len(f)] = text] ELSE Append(f, text)
  BY DEF appendFile
<1> HIDE DEF text
<1>5. [f EXCEPT ![Len(f)] = text] \in Seq(Line)
  <2>1. f \in [1 .. Len(f) -> Line] /\ Len(f) \in Nat
    BY LenProperties
  <2>2. [f EXCEPT ![Len(f)] = text] \in [1 .. Len(f) -> Line]
    BY <1>3, <2>1
  <2> QED
    BY <2>1, <2>2
<1>6. Append(f, text) \in Seq(Line)
  BY <1>3
<1> QED
  BY <1>4, <1>5, <1>6

\* What an append makes of the journal and of the numbering.
LEMMA AppendKeeps ==
  ASSUME NEW f, NEW rec, NEW part \in Parts, NEW new,
         Shape(f), InStep(f, rec.seq), rec.seq \in Nat, new = appendFile(f, rec, part)
  PROVE  /\ Shape(new)
         /\ InStep(new, IF part = "line" THEN rec.seq + 1 ELSE rec.seq)
         /\ part = "line" => ~Unterminated(new)
<1>1. IsSequence(f) /\ (Broken(f) \/ Intact(f) \/ TornLast(f))
  BY DEF Shape
<1>2. /\ IsSequence(new)
      /\ \/ part = "none" /\ new = f
         \/ part # "none" /\ Glued(f, part, new)
         \/ part # "none" /\ Grown(f, rec, part, new)
  BY <1>1, AppendShape
<1>3. part = "line" => ~Unterminated(new)
  BY <1>2 DEF Glued, Grown, Unterminated
<1>4. CASE Broken(f)
  <2>1. Broken(new)
    BY <1>1, <1>4, BrokenStays
  <2>2. ~Intact(new)
    BY <1>2, <2>1, NotIntact
  <2> QED
    BY <1>2, <1>3, <2>1, <2>2 DEF Shape, InStep
<1>5. CASE part = "none" /\ new = f
  BY <1>5, <1>3 DEF InStep
<1>6. CASE ~Broken(f) /\ Glued(f, part, new)
  <2>1. TornLast(new)
    BY <1>1, <1>6, GluedIsTorn
  <2>2. ~Intact(new)
    BY <1>2, <2>1, NotIntact
  <2> QED
    BY <1>2, <1>3, <2>1, <2>2 DEF Shape, InStep
<1>7. CASE ~Broken(f) /\ part # "none" /\ Grown(f, rec, part, new)
  <2>1. ~Unterminated(f)
    BY <1>7 DEF Grown
  <2>2. /\ Len(f) \in Nat /\ Len(new) = Len(f) + 1
        /\ part = "line" \/ Unterminated(new)
        /\ TornLast(f) => Broken(new)
        /\ Intact(f) /\ part = "torn" => TornLast(new)
        /\ Intact(f) /\ part # "torn" /\ rec.seq = Len(f) => Intact(new)
    BY <1>1, <1>7, GrownIs
  <2>3. Intact(f) => rec.seq = Len(f)
    BY <2>1 DEF InStep
  <2>4. Broken(new) \/ TornLast(new) => ~Intact(new)
    BY <1>2, NotIntact
  <2>5. Broken(new) \/ Intact(new) \/ TornLast(new)
    BY <1>1, <1>7, <2>2, <2>3
  <2>6. CASE Intact(new)
    <3>1. Intact(f) /\ part # "torn"
      BY <1>1, <1>7, <2>2, <2>4, <2>6
    <3>2. rec.seq = Len(new) - 1 /\ rec.seq + 1 = Len(new)
      BY <2>2, <2>3, <3>1
    <3> QED
      BY <1>2, <1>3, <2>2, <2>5, <3>2 DEF Shape, InStep
  <2>7. CASE ~Intact(new)
    BY <1>2, <1>3, <2>5, <2>7 DEF Shape, InStep
  <2> QED
    BY <2>6, <2>7
<1> QED
  BY <1>2, <1>4, <1>5, <1>6, <1>7

\* The last record of a halt, written in full to a journal that ends with a newline.
LEMMA HaltIsHeld ==
  ASSUME NEW f, NEW rec, NEW new, Shape(f), InStep(f, rec.seq), ~Unterminated(f),
         engages(rec), new = appendFile(f, rec, "line")
  PROVE  HoldsHalt(new)
<1>1. IsSequence(f) /\ (Broken(f) \/ Intact(f) \/ TornLast(f)) /\ "line" \in Parts
  BY DEF Shape, Parts
<1>2. CASE Broken(f)
  BY <1>1, <1>2, BrokenStays DEF HoldsHalt
<1>3. CASE ~Broken(f)
  <2>1. Grown(f, rec, "line", new)
    <3>1. \/ "line" = "none" /\ new = f
          \/ "line" # "none" /\ Glued(f, "line", new)
          \/ "line" # "none" /\ Grown(f, rec, "line", new)
      BY <1>1, AppendShape
    <3> QED
      BY <3>1 DEF Glued
  <2>2. /\ Len(f) \in Nat /\ Len(new) = Len(f) + 1
        /\ TornLast(f) => Broken(new)
        /\ Intact(f) /\ rec.seq = Len(f) => Intact(new) /\ new[Len(new)].parsed[1] = rec
    BY <1>1, <2>1, GrownIs
  <2>3. Intact(f) => rec.seq = Len(f)
    BY DEF InStep
  <2>4. Len(new) > 0
    BY <2>2
  <2> QED
    BY <1>1, <1>3, <2>2, <2>3, <2>4 DEF HoldsHalt
<1> QED
  BY <1>2, <1>3

\* A journal with nothing torn can be read, in full.
LEMMA CleanIsIntact ==
  ASSUME NEW f \in Seq(Line), Shape(f), Clean(f)
  PROVE  Intact(f) /\ ~Unterminated(f)
<1>1. Len(f) \in Nat /\ DOMAIN f = 1 .. Len(f)
  BY LinesAreSequence
<1>0. Len(<<>>) # 1
  OBVIOUS
<1>2. \A i \in 1 .. Len(f) : f[i].nl /\ f[i].parsed # <<>>
  BY <1>0, <1>1, Zenon DEF Clean
<1>3. ~Broken(f)
  <2>1. \A i \in 1 .. Len(f) - 1 : i \in 1 .. Len(f)
    BY <1>1
  <2> QED
    BY <1>2, <2>1 DEF Broken
<1>4. ~TornLast(f)
  <2>1. Len(f) > 0 => Len(f) \in 1 .. Len(f)
    BY <1>1
  <2> QED
    BY <1>2, <2>1 DEF TornLast
<1>5. f # <<>> => Len(f) \in 1 .. Len(f)
  BY <1>1, EmptySeq
<1> QED
  BY <1>2, <1>3, <1>4, <1>5 DEF Shape, Unterminated

\* A journal with nothing torn after an append had nothing torn before it, and the
\* append wrote nothing or its whole line.
LEMMA CleanStep ==
  ASSUME NEW f \in Seq(Line), NEW rec \in RiskRecord, NEW part \in Parts, NEW new,
         new = appendFile(f, rec, part), Clean(new)
  PROVE  /\ Clean(f)
         /\ \/ part = "none" /\ new = f
            \/ part = "line" /\ Grown(f, rec, part, new)
<1>1. IsSequence(f) /\ Len(f) \in Nat /\ DOMAIN f = 1 .. Len(f)
  BY LinesAreSequence
<1>2. /\ IsSequence(new)
      /\ \/ part = "none" /\ new = f
         \/ part # "none" /\ Glued(f, part, new)
         \/ part # "none" /\ Grown(f, rec, part, new)
  BY <1>1, AppendShape
<1>3. Len(new) \in Nat /\ DOMAIN new = 1 .. Len(new)
  BY <1>2, LenProperties DEF IsSequence
<1>0. Len(<<>>) # 1
  OBVIOUS
<1>4. \A i \in 1 .. Len(new) : new[i].nl /\ new[i].parsed # <<>> /\ Len(new[i].parsed) = 1
  BY <1>0, <1>3, Zenon DEF Clean
<1>5. CASE Glued(f, part, new)
  <2>1. Len(f) # 0
    BY <1>1, <1>5, EmptySeq DEF Glued, Unterminated, IsSequence
  <2>2. Len(new) \in 1 .. Len(new) /\ new[Len(new)].parsed = <<>>
    BY <1>1, <1>5, <2>1 DEF Glued
  <2> QED
    BY <1>4, <2>2
<1>6. CASE Grown(f, rec, part, new)
  <2>1. Len(new) = Len(f) + 1 /\ (\A i \in 1 .. Len(f) : new[i] = f[i])
        /\ new[Len(new)].nl = (part = "line")
    BY <1>6 DEF Grown
  <2>2. Len(new) \in 1 .. Len(new) /\ \A i \in 1 .. Len(f) : i \in 1 .. Len(new)
    BY <1>1, <2>1
  <2>3. Clean(f)
    BY <1>1, <1>4, <2>1, <2>2 DEF Clean
  <2> QED
    BY <1>4, <1>6, <2>1, <2>2, <2>3
<1> QED
  BY <1>2, <1>5, <1>6
-----------------------------------------------------------------------------
(* The sum over a book, which the library folds in an order of its own: the  *)
(* recursion has a solution, does not depend on the order, and changes with  *)
(* one position by that position.                                            *)

Pick(s) == CHOOSE x \in s : TRUE

\* it sums f over each set of S.
Sums(f, S, it) ==
  it = [s \in S |-> IF s = {} THEN 0 ELSE f[Pick(s)] + it[s \ {Pick(s)}]]

UpTo(D, n) == {s \in SUBSET D : Cardinality(s) <= n}

\* A set less one of its elements.
LEMMA OneLess ==
  ASSUME NEW D, IsFiniteSet(D), NEW s \in SUBSET D
  PROVE  /\ IsFiniteSet(s) /\ Cardinality(s) \in Nat
         /\ Cardinality(s) = 0 <=> s = {}
         /\ \A x \in s : s \ {x} \in SUBSET D /\ Cardinality(s \ {x}) = Cardinality(s) - 1
         /\ s # {} => Pick(s) \in s
<1>1. IsFiniteSet(s)
  BY FS_Subset
<1>2. Cardinality(s) \in Nat /\ (Cardinality(s) = 0 <=> s = {})
  BY <1>1, FS_CardinalityType, FS_EmptySet
<1>3. \A x \in s : Cardinality(s \ {x}) = Cardinality(s) - 1
  BY <1>1, FS_RemoveElement
<1>4. s # {} => Pick(s) \in s
  BY DEF Pick
<1> QED
  BY <1>1, <1>2, <1>3, <1>4

LEMMA TotalExists ==
  ASSUME NEW D, IsFiniteSet(D), NEW f
  PROVE  \E it : Sums(f, SUBSET D, it)
<1> DEFINE T == {n \in Nat : ~\E it : Sums(f, UpTo(D, n), it)}
<1>1. ASSUME T # {} PROVE FALSE
  <2>1. PICK n \in T : \A k \in T : n <= k
    BY <1>1, LeastNumber
  <2>2. n # 0
    <3> DEFINE it == [s \in UpTo(D, 0) |-> 0]
    <3>1. \A s \in UpTo(D, 0) : s = {}
      BY OneLess DEF UpTo
    <3>2. it = [s \in UpTo(D, 0) |-> IF s = {} THEN 0 ELSE f[Pick(s)] + it[s \ {Pick(s)}]]
      BY <3>1
    <3>3. Sums(f, UpTo(D, 0), it)
      BY <3>2 DEF Sums
    <3> QED
      BY <3>3
  <2>3. n - 1 \in Nat /\ n - 1 \notin T
    BY <2>1, <2>2
  <2>4. PICK g : Sums(f, UpTo(D, n - 1), g)
    BY <2>3
  <2> DEFINE it == [s \in UpTo(D, n) |->
                      IF s = {} THEN 0 ELSE f[Pick(s)] + g[s \ {Pick(s)}]]
  <2>5. ASSUME NEW s \in UpTo(D, n), s # {}
        PROVE  it[s \ {Pick(s)}] = g[s \ {Pick(s)}]
    <3> DEFINE t == s \ {Pick(s)}
    <3>1. Pick(s) \in s /\ s \in SUBSET D /\ Cardinality(s) \in Nat /\ Cardinality(s) <= n
      BY <2>5, OneLess DEF UpTo
    <3>2. t \in SUBSET D /\ Cardinality(t) = Cardinality(s) - 1
      BY <3>1, OneLess
    <3>3. t \in UpTo(D, n) /\ t \in UpTo(D, n - 1)
      BY <2>3, <3>1, <3>2 DEF UpTo
    <3> HIDE DEF t
    <3>4. g[t] = IF t = {} THEN 0 ELSE f[Pick(t)] + g[t \ {Pick(t)}]
      BY <2>4, <3>3 DEF Sums
    <3>5. it[t] = IF t = {} THEN 0 ELSE f[Pick(t)] + g[t \ {Pick(t)}]
      BY <3>3
    <3>6. it[t] = g[t]
      BY <3>4, <3>5
    <3> QED
      BY <3>6 DEF t
  <2>6. it = [s \in UpTo(D, n) |-> IF s = {} THEN 0 ELSE f[Pick(s)] + it[s \ {Pick(s)}]]
    BY <2>5
  <2>7. Sums(f, UpTo(D, n), it)
    BY <2>6 DEF Sums
  <2> QED
    BY <2>1, <2>7
<1>2. Cardinality(D) \in Nat /\ Cardinality(D) \notin T
  BY <1>1, FS_CardinalityType
<1>3. UpTo(D, Cardinality(D)) = SUBSET D
  BY FS_Subset DEF UpTo
<1> QED
  BY <1>2, <1>3

\* Any element may be taken out first.
Splits(f, D, it) ==
  \A s \in SUBSET D : it[s] \in Nat /\ \A x \in s : it[s] = f[x] + it[s \ {x}]

LEMMA SumSplit ==
  ASSUME NEW D, IsFiniteSet(D), NEW f \in [D -> Nat], NEW it, Sums(f, SUBSET D, it)
  PROVE  Splits(f, D, it)
<1> DEFINE Good(s) == it[s] \in Nat /\ \A x \in s : it[s] = f[x] + it[s \ {x}]
           T == {n \in Nat : \E s \in SUBSET D : Cardinality(s) = n /\ ~Good(s)}
<1>1. SUFFICES ASSUME T # {} PROVE FALSE
  BY OneLess DEF Splits
<1>2. PICK n \in T : \A k \in T : n <= k
  BY <1>1, LeastNumber
<1>3. PICK s \in SUBSET D : Cardinality(s) = n /\ ~Good(s)
  BY <1>2
<1>4. ASSUME NEW t \in SUBSET D, Cardinality(t) = n - 1, n - 1 \in Nat PROVE Good(t)
  <2>1. n - 1 \notin T
    BY <1>2, <1>4
  <2> QED
    BY <1>4, <2>1
<1>5. it[s] = IF s = {} THEN 0 ELSE f[Pick(s)] + it[s \ {Pick(s)}]
  BY DEF Sums
<1>6. CASE s = {}
  BY <1>3, <1>5, <1>6
<1>7. CASE s # {}
  <2> DEFINE c == Pick(s)
  <2>1. c \in s /\ n \in Nat /\ n # 0 /\ n - 1 \in Nat
    BY <1>2, <1>3, <1>7, OneLess
  <2>2. \A x \in s : s \ {x} \in SUBSET D /\ Cardinality(s \ {x}) = n - 1
    BY <1>3, OneLess
  <2>3. \A x \in s : Good(s \ {x})
    BY <1>4, <2>1, <2>2
  <2>4. it[s] = f[c] + it[s \ {c}] /\ it[s \ {c}] \in Nat /\ f[c] \in Nat
    BY <1>5, <1>7, <2>1, <2>3
  <2> HIDE DEF c
  <2>5. ASSUME NEW x \in s PROVE it[s] = f[x] + it[s \ {x}]
    <3>1. CASE x = c
      BY <2>4, <3>1
    <3>2. CASE x # c
      <4> DEFINE r == it[(s \ {x}) \ {c}]
      <4>1. (s \ {c}) \ {x} = (s \ {x}) \ {c}
        OBVIOUS
      <4>2. x \in s \ {c} /\ c \in s \ {x}
        BY <2>1, <3>2
      <4>3. it[s \ {c}] = f[x] + r
        BY <2>1, <2>3, <4>1, <4>2
      <4>4. it[s \ {x}] = f[c] + r
        BY <2>3, <4>2
      <4>5. f[x] \in Nat /\ (s \ {x}) \ {c} \in SUBSET D
        OBVIOUS
      <4>6. r \in Nat
        <5>1. s \ {x} \in SUBSET D /\ Cardinality((s \ {x}) \ {c}) = n - 2 /\ n - 2 \in Nat
          <6>1. /\ Cardinality(s \ {x}) \in Nat
                /\ Cardinality((s \ {x}) \ {c}) = Cardinality(s \ {x}) - 1
                /\ Cardinality((s \ {x}) \ {c}) \in Nat
            <7> DEFINE t == s \ {x}
            <7>1. t \in SUBSET D /\ c \in t
              BY <4>2
            <7> HIDE DEF t
            <7>2. /\ Cardinality(t) \in Nat /\ Cardinality(t \ {c}) \in Nat
                  /\ Cardinality(t \ {c}) = Cardinality(t) - 1
              BY <7>1, OneLess
            <7> QED
              BY <7>2 DEF t
          <6> QED
            BY <2>1, <2>2, <6>1
        <5>2. n - 2 \notin T
          BY <1>2, <5>1
        <5> QED
          BY <4>5, <5>1, <5>2
      <4> QED
        BY <2>4, <4>3, <4>4, <4>5, <4>6
    <3> QED
      BY <3>1, <3>2
  <2>6. it[s] \in Nat
    BY <2>4
  <2> QED
    BY <1>3, <2>5, <2>6
<1> QED
  BY <1>6, <1>7

\* Sums over the same values are the same.
LEMMA SumSame ==
  ASSUME NEW D, IsFiniteSet(D), NEW f, NEW g, NEW it, NEW jt,
         Sums(f, SUBSET D, it), Sums(g, SUBSET D, jt)
  PROVE  \A s \in SUBSET D : (\A x \in s : f[x] = g[x]) => it[s] = jt[s]
<1> DEFINE Bad(s) == (\A x \in s : f[x] = g[x]) /\ it[s] # jt[s]
           T == {n \in Nat : \E s \in SUBSET D : Cardinality(s) = n /\ Bad(s)}
<1>1. SUFFICES ASSUME T # {} PROVE FALSE
  BY OneLess
<1>2. PICK n \in T : \A k \in T : n <= k
  BY <1>1, LeastNumber
<1>3. PICK s \in SUBSET D : Cardinality(s) = n /\ Bad(s)
  BY <1>2
<1>4. /\ it[s] = IF s = {} THEN 0 ELSE f[Pick(s)] + it[s \ {Pick(s)}]
      /\ jt[s] = IF s = {} THEN 0 ELSE g[Pick(s)] + jt[s \ {Pick(s)}]
  BY DEF Sums
<1>5. s # {}
  BY <1>3, <1>4
<1> DEFINE t == s \ {Pick(s)}
<1>6. Pick(s) \in s /\ t \in SUBSET D /\ Cardinality(t) = n - 1 /\ n - 1 \in Nat
  BY <1>3, <1>5, OneLess
<1>7. n - 1 \notin T
  BY <1>2, <1>6
<1>8. it[t] = jt[t]
  BY <1>3, <1>6, <1>7
<1> QED
  BY <1>3, <1>4, <1>5, <1>6, <1>8

LEMMA TotalIs ==
  ASSUME NEW D, IsFiniteSet(D), NEW f \in [D -> Nat]
  PROVE  \E it : Sums(f, SUBSET D, it) /\ SumFunction(f) = it[D]
<1> DEFINE it == CHOOSE it : Sums(f, SUBSET D, it)
<1>1. Sums(f, SUBSET D, it)
  BY TotalExists
<1>2. DOMAIN f = D
  OBVIOUS
<1>3. SumFunction(f) = it[D]
  BY <1>2 DEF SumFunction, SumFunctionOnSet, FoldFunctionOnSet, MapThenFoldSet, Sums, Pick
<1> QED
  BY <1>1, <1>3

\* One position changes.
LEMMA SumChange ==
  ASSUME NEW D, IsFiniteSet(D), NEW f \in [D -> Nat], NEW x \in D, NEW n \in Nat
  PROVE  /\ SumFunction(f) \in Nat
         /\ SumFunction([f EXCEPT ![x] = n]) = SumFunction(f) - f[x] + n
<1> DEFINE g == [f EXCEPT ![x] = n]
<1>1. g \in [D -> Nat] /\ g[x] = n /\ f[x] \in Nat /\ \A y \in D \ {x} : g[y] = f[y]
  OBVIOUS
<1> HIDE DEF g
<1>2. PICK it : Sums(f, SUBSET D, it) /\ SumFunction(f) = it[D]
  BY TotalIs
<1>3. PICK jt : Sums(g, SUBSET D, jt) /\ SumFunction(g) = jt[D]
  BY <1>1, TotalIs
<1>4. D \in SUBSET D /\ D \ {x} \in SUBSET D
  OBVIOUS
<1>5. it[D] \in Nat /\ it[D \ {x}] \in Nat /\ it[D] = f[x] + it[D \ {x}]
  <2>1. Splits(f, D, it)
    BY <1>2, SumSplit
  <2> QED
    BY <1>4, <2>1 DEF Splits
<1>6. jt[D] = g[x] + jt[D \ {x}]
  <2>1. Splits(g, D, jt)
    BY <1>1, <1>3, SumSplit
  <2> QED
    BY <1>4, <2>1 DEF Splits
<1>7. it[D \ {x}] = jt[D \ {x}]
  BY <1>1, <1>2, <1>3, <1>4, SumSame
<1>8. SumFunction(g) = SumFunction(f) - f[x] + n
  BY <1>1, <1>2, <1>3, <1>5, <1>6, <1>7
<1> QED
  BY <1>2, <1>5, <1>8 DEF g

-----------------------------------------------------------------------------
(* The engine.  A halt is two engaging records, so the last one is written   *)
(* to a journal that ends with a newline: the file then ends with it, or is  *)
(* broken.  A halted engine appends nothing until it is reset.               *)

Within(o, b, e) ==
  LET after == grossExposure([b EXCEPT ![o.symbol] = o.notional])
  IN /\ e > 0
     /\ after < Limits.maxLeverage * e + Cent
     /\ after < Leverage * (e + Cent)
     /\ (2 * o.notional * Ratio - e) * Limits.allocationOf
          < 2 * Limits.allocation * Ratio * e
     /\ o.notional <= Limits.maxPositionNotional
     /\ o.qty <= Limits.maxPositionSize

FileInv ==
  /\ Shape(file)
  /\ Running /\ store = "file" => InStep(file, nextSeq)
  /\ Running /\ store = "memory" => Broken(file)

OpInv ==
  /\ op \in {"down", "idle"} => todo = <<>>
  /\ op \notin {"down", "idle"} => todo # <<>>
  /\ op = "reset" => Len(todo) = 1
  /\ op = "pass" => Len(todo) = 1 /\ todo[1].type = "RISK_CHECK_PASSED"
  /\ op \in {"pass", "reject", "halt"} => halted \in {"no", "lost"}
  /\ op = "reset" => todo[1].type = "TRADING_RESUMED"
  /\ op = "halt" => /\ engages(todo[Len(todo)])
                    /\ Len(todo) = 1 /\ store = "file" => ~Unterminated(file)
  /\ approved => op = "idle"

\* An order that passed the checks still respects them when it is approved.
GateInv == approved \/ op = "pass" => Within(order, book, equity)

HaltInv ==
  /\ Running /\ halted \in {"memory", "durable"} => state.halted
  /\ halted = "durable" => HoldsHalt(file)
  /\ ~Running => halted # "memory"

TruthInv ==
  store = "file" /\ Clean(file) =>
    /\ Running => Tracks(state, reconstructRiskState(readAll(file)), halted)
    /\ approved => Len(file) > 0 /\ file[Len(file)].parsed[1].type = "RISK_CHECK_PASSED"

EngineInv == TypeOK /\ FileInv /\ OpInv /\ HaltInv /\ TruthInv /\ GateInv

LEMMA TriggerType ==
  ASSUME NEW capital, NEW pnl, NEW peak, NEW failures \in SUBSET HealthFaults
  PROVE  evaluateTriggers(capital, pnl, peak, failures) \in Causes
<1>1. DOMAIN HealthTriggers = 1 .. 4
  BY DEF HealthTriggers
<1> DEFINE S == {i \in DOMAIN HealthTriggers : HealthTriggers[i] \in failures}
<1>2. ASSUME failures # {} PROVE HealthTriggers[Min(S)] \in Triggers
  <2>1. PICK h \in failures : TRUE
    BY <1>2
  <2>2. h \in {HealthTriggers[i] : i \in DOMAIN HealthTriggers}
    BY <2>1, RiskAssumption
  <2>3. PICK i \in DOMAIN HealthTriggers : h = HealthTriggers[i]
    BY <2>2
  <2>4. S # {} /\ S \in SUBSET Nat
    BY <1>1, <2>1, <2>3
  <2>5. \E m \in S : \A k \in S : m <= k
    BY <2>4, LeastNumber
  <2>6. Min(S) \in S
    BY <2>5 DEF Min
  <2>7. Min(S) \in DOMAIN HealthTriggers
    BY <2>6
  <2> QED
    BY <2>7 DEF Triggers
<1> HIDE DEF S
<1>3. {"DAILY_LOSS_BREACH", "DRAWDOWN_BREACH", "LEVERAGE_BREACH"} \subseteq Causes
      /\ "none" \in Causes /\ Triggers \subseteq Causes
  BY DEF Triggers, Causes
<1>4. CASE failures = {}
  BY <1>3, <1>4 DEF evaluateTriggers
<1>5. CASE failures # {}
  <2>1. HealthTriggers[Min(S)] \in Causes
    BY <1>2, <1>3, <1>5
  <2> QED
    BY <1>3, <1>5, <2>1 DEF evaluateTriggers, S
<1> QED
  BY <1>4, <1>5

LEMMA InputType ==
  ASSUME NEW type \in EventTypes, NEW trigger \in Causes, NEW capital \in Capitals
  PROVE  Input(type, trigger, capital) \in InputRecord
         /\ Input(type, trigger, capital).type = type
  BY DEF Input, InputRecord

LEMMA HaltRecordsAre ==
  ASSUME NEW trigger \in Causes, NEW capital \in Capitals, NEW t,
         t = haltRecords(trigger, capital)
  PROVE  t \in Seq(InputRecord) /\ Len(t) \in Nat /\ Len(t) >= 2 /\ engages(t[Len(t)])
<1> DEFINE a == Input("KILL_SWITCH_TRIGGERED", trigger, capital)
           b == Input("TRADING_HALTED", trigger, capital)
           d == Input("DRAWDOWN_LIMIT_BREACHED", "none", capital)
           l == Input("LEVERAGE_LIMIT_BREACHED", "none", capital)
<1>1. a \in InputRecord /\ b \in InputRecord /\ d \in InputRecord /\ l \in InputRecord
      /\ b.type = "TRADING_HALTED"
  <2>1. /\ {"KILL_SWITCH_TRIGGERED", "TRADING_HALTED", "DRAWDOWN_LIMIT_BREACHED",
            "LEVERAGE_LIMIT_BREACHED"} \subseteq EventTypes
        /\ "none" \in Causes
    BY DEF EventTypes, Causes
  <2>2. a \in InputRecord
    BY <2>1, InputType
  <2>3. b \in InputRecord /\ b.type = "TRADING_HALTED"
    BY <2>1, InputType
  <2>4. d \in InputRecord
    BY <2>1, InputType
  <2>5. l \in InputRecord
    BY <2>1, InputType
  <2> QED
    BY <2>2, <2>3, <2>4, <2>5
<1>2. t = <<d>> \o <<a, b>> \/ t = <<l>> \o <<a, b>> \/ t = <<>> \o <<a, b>>
  BY DEF haltRecords
<1>3. engages(b)
  BY <1>1 DEF engages
<1> HIDE DEF a, b, d, l
<1>4. CASE t = <<d>> \o <<a, b>>
  <2>1. <<d>> \in Seq(InputRecord) /\ <<a, b>> \in Seq(InputRecord)
        /\ Len(<<d>>) = 1 /\ Len(<<a, b>>) = 2 /\ <<a, b>>[2] = b
    BY <1>1
  <2>2. t \in Seq(InputRecord) /\ Len(t) = 3 /\ t[3] = <<a, b>>[3 - 1]
    BY <1>4, <2>1, ConcatProperties
  <2> QED
    BY <1>3, <2>1, <2>2
<1>5. CASE t = <<l>> \o <<a, b>>
  <2>1. <<l>> \in Seq(InputRecord) /\ <<a, b>> \in Seq(InputRecord)
        /\ Len(<<l>>) = 1 /\ Len(<<a, b>>) = 2 /\ <<a, b>>[2] = b
    BY <1>1
  <2>2. t \in Seq(InputRecord) /\ Len(t) = 3 /\ t[3] = <<a, b>>[3 - 1]
    BY <1>5, <2>1, ConcatProperties
  <2> QED
    BY <1>3, <2>1, <2>2
<1>6. CASE t = <<>> \o <<a, b>>
  <2>1. t = <<a, b>>
    BY <1>6
  <2> QED
    BY <1>1, <1>3, <2>1
<1> QED
  BY <1>2, <1>4, <1>5, <1>6

LEMMA RejectRecordsAre ==
  ASSUME NEW reason, NEW capital \in Capitals, NEW t, t = rejectRecords(reason, capital)
  PROVE  t \in Seq(InputRecord) /\ t # <<>>
<1> DEFINE a == Input("RISK_CHECK_FAILED", "none", capital)
           b == Input(breachEvent(reason), "none", capital)
<1>1. breachEvent(reason) \in EventTypes
  BY DEF breachEvent, EventTypes
<1>2. a \in InputRecord /\ b \in InputRecord
  BY <1>1, InputType DEF EventTypes, Causes
<1>3. t = <<a>> \o <<>> \/ t = <<a>> \o <<b>>
  BY DEF rejectRecords
<1> HIDE DEF a, b
<1>4. <<a>> \in Seq(InputRecord) /\ <<b>> \in Seq(InputRecord) /\ <<>> \in Seq(InputRecord)
      /\ Len(<<a>>) = 1 /\ Len(<<b>>) = 1 /\ Len(<<>>) = 0
  BY <1>2
<1>5. CASE t = <<a>> \o <<>>
  <2>1. t \in Seq(InputRecord) /\ Len(t) = 1
    BY <1>4, <1>5, ConcatProperties
  <2> QED
    BY <1>4, <2>1
<1>6. CASE t = <<a>> \o <<b>>
  <2>1. t \in Seq(InputRecord) /\ Len(t) = 2
    BY <1>4, <1>6, ConcatProperties
  <2> QED
    BY <1>4, <2>1
<1> QED
  BY <1>3, <1>5, <1>6

\* Rounding moves a number by half a step at most, and up only at the half.
LEMMA QuantizeIs ==
  ASSUME NEW x \in Int, NEW d \in Nat \ {0}
  PROVE  /\ quantize(x, d) \in Int
         /\ 2 * x < 2 * (d * quantize(x, d)) + d
         /\ x \in Nat => quantize(x, d) \in Nat
<1> DEFINE n == 2 * x + d
           m == 2 * d
           q == n \div m
<1>1. n \in Int /\ m \in Nat \ {0}
  OBVIOUS
<1>2. q \in Int /\ n = m * q + (n % m) /\ n % m \in 0 .. m - 1
  <2> HIDE DEF n, m
  <2> QED
    BY <1>1
<1>3. n < m * q + m
  <2> HIDE DEF n, q
  <2>1. m * q \in Int /\ n % m < m /\ n % m \in Int /\ m \in Int /\ n \in Int
    BY <1>1, <1>2
  <2> HIDE DEF m
  <2> QED
    BY <1>2, <2>1
<1>4. m * q = 2 * (d * q)
  <2> HIDE DEF n, q
  <2> QED
    BY <1>2
<1>5. 2 * x < 2 * (d * q) + d
  <2>1. d * q \in Int
    BY <1>2
  <2> HIDE DEF q
  <2> QED
    BY <1>3, <1>4, <2>1
<1>6. x \in Nat => q \in Nat
  <2> SUFFICES ASSUME x \in Nat, q < 0 PROVE FALSE
    BY <1>2
  <2> HIDE DEF q
  <2>1. d * q <= -d
    BY <1>2
  <2> QED
    BY <1>2, <1>5, <2>1
<1> QED
  BY <1>2, <1>5, <1>6 DEF quantize

\* The checks bound the book after the order, not only the order.
LEMMA PassedIsWithin ==
  ASSUME NEW o, NEW b \in [Symbols -> Nat], NEW e \in Nat, NEW pnl,
         o.symbol \in Symbols, o.notional \in Nat, o.qty \in Nat,
         evaluatePreTrade(o, projectOrder(b, buildCapitalSnapshot(b, e), o),
                          buildCapitalSnapshot(b, e), pnl) = "PASSED"
  PROVE  Within(o, b, e)
<1> DEFINE c == buildCapitalSnapshot(b, e)
           p == projectOrder(b, c, o)
           g == grossExposure(b)
           after == grossExposure([b EXCEPT ![o.symbol] = o.notional])
           prior == b[o.symbol]
           D == Leverage * Cent
           qg == quantize(g, Cent)
           qu == quantize(g, D)
           qa == quantize(Cent * qg - prior + o.notional, Cent)
           qm == quantize(o.notional - prior, D)
           qc == quantize(o.notional * Ratio, e)
<1>1. g \in Nat /\ after = g - prior + o.notional /\ prior \in Nat
  <2>1. IsFiniteSet(Symbols)
    BY LimitsAssumption
  <2>2. /\ SumFunction(b) \in Nat
        /\ SumFunction([b EXCEPT ![o.symbol] = o.notional])
             = SumFunction(b) - b[o.symbol] + o.notional
    BY <2>1, SumChange
  <2> QED
    BY <2>2 DEF grossExposure
<1>2. c.equity = e /\ c.gross = Cent * qg /\ c.available = e - Cent * qu
  BY DEF buildCapitalSnapshot
<1>3. /\ p.grossAfter = Cent * qa
      /\ p.requiredMargin = IF o.notional > prior THEN Cent * qm ELSE 0
      /\ e > 0 => p.concentration = qc
  BY <1>2 DEF projectOrder
<1>4. /\ e > 0 /\ ~(o.qty > Limits.maxPositionSize)
      /\ ~(o.notional > Limits.maxPositionNotional)
      /\ ~(Cent * qa > Limits.maxLeverage * e)
      /\ ~(p.requiredMargin > e - Cent * qu)
      /\ ~(qc * Limits.allocationOf > Limits.allocation * Ratio)
  BY <1>2, <1>3 DEF evaluatePreTrade
<1>5. /\ Limits.maxPositionSize \in Nat /\ Limits.maxPositionNotional \in Nat
      /\ Limits.maxLeverage \in Nat /\ Limits.allocation \in Nat
      /\ Limits.allocationOf \in Nat \ {0} /\ Leverage \in Nat \ {0}
      /\ Cent \in Nat \ {0} /\ Ratio \in Nat \ {0}
  BY LimitsAssumption
<1>6. D \in Nat \ {0}
  BY <1>5
<1> HIDE DEF c, p, g, after, prior
<1>7. after < Limits.maxLeverage * e + Cent
  <2>1. qg \in Int /\ 2 * g < 2 * (Cent * qg) + Cent
    BY <1>1, <1>5, QuantizeIs
  <2>2. Cent * qg - prior + o.notional \in Int /\ Cent * qg \in Int
    BY <1>1, <1>5, <2>1
  <2>3. qa \in Int /\ 2 * (Cent * qg - prior + o.notional) < 2 * (Cent * qa) + Cent
    BY <1>5, <2>2, QuantizeIs
  <2>4. Cent * qa \in Int /\ Limits.maxLeverage * e \in Int
    BY <1>5, <2>3
  <2> HIDE DEF qg, qa
  <2> QED
    BY <1>1, <1>4, <1>5, <2>1, <2>2, <2>3, <2>4
<1>8. after < Leverage * (e + Cent)
  <2>1. qu \in Int /\ 2 * g < 2 * (D * qu) + D
    <3> HIDE DEF D
    <3>1. g \in Int
      BY <1>1
    <3> QED
      BY <1>6, <3>1, QuantizeIs
  <2>2. PICK r \in Int : /\ r <= e - Cent * qu /\ \E k \in Int : r = Cent * k
                         /\ 2 * (o.notional - prior) < 2 * (Leverage * r) + D
    <3>1. CASE o.notional > prior
      <4>1. o.notional - prior \in Int
        BY <1>1
      <4>2. qm \in Int /\ 2 * (o.notional - prior) < 2 * (D * qm) + D
        BY <1>6, <4>1, QuantizeIs
      <4>3. Cent * qm \in Int /\ D * qm = Leverage * (Cent * qm) /\ Cent * qu \in Int
        <5> HIDE DEF qm, qu
        <5> QED
          BY <1>5, <2>1, <4>2
      <4> HIDE DEF D, qm, qu
      <4> QED
        BY <1>3, <1>4, <3>1, <4>2, <4>3
    <3>2. CASE ~(o.notional > prior)
      <4>1. Cent * qu \in Int
        BY <1>5, <2>1
      <4>2. 0 = Cent * 0 /\ Leverage * 0 = 0
        BY <1>5
      <4> HIDE DEF D, qu
      <4>3. 2 * (o.notional - prior) < 2 * (Leverage * 0) + D
        BY <1>1, <1>6, <3>2, <4>2
      <4>4. 0 <= e - Cent * qu
        BY <1>3, <1>4, <3>2, <4>1
      <4> QED
        BY <4>2, <4>3, <4>4
    <3> QED
      BY <3>1, <3>2
  <2>3. D * qu = Leverage * (Cent * qu) /\ Cent * qu \in Int
    <3> HIDE DEF qu
    <3> QED
      BY <1>5, <2>1
  <2>4. Leverage * r <= Leverage * (e - Cent * qu)
        /\ Leverage * r \in Int /\ Leverage * (Cent * qu) \in Int
        /\ Leverage * (e - Cent * qu) = Leverage * e - Leverage * (Cent * qu)
        /\ Leverage * e \in Int
    <3> DEFINE u == Cent * qu
    <3>1. u \in Int
      BY <2>3
    <3> HIDE DEF u, qu
    <3>2. r <= e - u
      BY <2>2 DEF u
    <3>3. Leverage * r <= Leverage * (e - u) /\ Leverage * (e - u) = Leverage * e - Leverage * u
          /\ Leverage * r \in Int /\ Leverage * u \in Int /\ Leverage * e \in Int
      BY <1>5, <3>1, <3>2
    <3> QED
      BY <3>3 DEF u
  <2>5. Leverage * (e + Cent) = Leverage * e + D
    BY <1>5
  <2> HIDE DEF D, qu
  <2> QED
    BY <1>1, <1>6, <2>1, <2>2, <2>3, <2>4, <2>5
<1>9. (2 * o.notional * Ratio - e) * Limits.allocationOf
        < 2 * Limits.allocation * Ratio * e
  <2> DEFINE t == o.notional * Ratio
             w == Limits.allocationOf
             l == Limits.allocation * Ratio
  <2>1. t \in Nat /\ w \in Nat \ {0} /\ l \in Nat /\ e \in Nat \ {0}
    BY <1>4, <1>5
  <2>2. qc \in Int /\ 2 * t < 2 * (e * qc) + e /\ qc * w <= l
    <3>1. qc \in Int /\ 2 * t < 2 * (e * qc) + e
      <4>1. t \in Int /\ qc = quantize(t, e)
        BY <2>1
      <4> HIDE DEF t, qc
      <4> QED
        BY <2>1, <4>1, QuantizeIs
    <3>2. qc * w \in Int
      BY <2>1, <3>1
    <3> HIDE DEF qc, w, l
    <3> QED
      BY <1>4, <2>1, <3>1, <3>2 DEF w, l
  <2>3. 2 * o.notional * Ratio = 2 * t /\ 2 * Limits.allocation * Ratio * e = 2 * (l * e)
    BY <1>5
  <2> HIDE DEF qc, t, w, l
  <2>4. (2 * t - e) * w < 2 * (e * qc) * w
    <3> DEFINE y == 2 * t - e
               z == 2 * (e * qc)
    <3>1. y \in Int /\ z \in Int /\ y < z
      BY <2>1, <2>2
    <3> HIDE DEF y, z
    <3>2. y * w < z * w
      BY <2>1, <3>1
    <3> QED
      BY <3>2 DEF y, z
  <2>5. 2 * (e * qc) * w = 2 * (e * (qc * w)) /\ e * (qc * w) <= l * e
    <3> DEFINE k == qc * w
    <3>1. k \in Int /\ k <= l
      BY <2>1, <2>2
    <3>2. e * qc * w = e * k
      BY <2>1, <2>2
    <3> HIDE DEF k
    <3>3. e * k <= l * e
      BY <2>1, <3>1
    <3> QED
      BY <2>1, <2>2, <3>2, <3>3 DEF k
  <2>6. (2 * t - e) * w \in Int /\ e * (qc * w) \in Int /\ l * e \in Int
    BY <2>1, <2>2
  <2> QED
    BY <2>3, <2>4, <2>5, <2>6 DEF w
<1>10. o.notional <= Limits.maxPositionNotional /\ o.qty <= Limits.maxPositionSize
  BY <1>4, <1>5
<1> QED
  BY <1>4, <1>7, <1>8, <1>9, <1>10 DEF Within, after

-----------------------------------------------------------------------------
LEMMA EngineStarts == Init => EngineInv
<1> SUFFICES ASSUME Init PROVE EngineInv
  OBVIOUS
<1>1. /\ file = <<>> /\ store = "file" /\ nextSeq = 0 /\ op = "down" /\ todo = <<>>
      /\ state = initialRiskControlState /\ order = NoOrder /\ approved = FALSE
      /\ book = [s \in Symbols |-> 0] /\ equity \in Equities /\ halted = "no"
  BY DEF Init
<1>2. initialRiskControlState \in ControlState
  BY DEF initialRiskControlState, ControlState, Causes, Capitals
<1>3. TypeOK
  <2>1. /\ file \in Seq([parsed : Seq(RiskRecord), nl : BOOLEAN]) /\ todo \in Seq(InputRecord)
        /\ book \in [Symbols -> Nat] /\ state \in ControlState /\ nextSeq \in Nat
    BY <1>1, <1>2
  <2>2. /\ store \in {"file", "memory"} /\ op \in Ops /\ approved \in BOOLEAN
        /\ order \in {sizePosition(p) : p \in Proposals} \cup {NoOrder}
        /\ equity \in Equities /\ halted \in Halts
    BY <1>1, Zenon DEF Ops, Halts
  <2> QED
    BY <2>1, <2>2 DEF TypeOK
<1>4. Shape(<<>>)
  <2>1. <<>> \in Seq(Line) /\ Len(<<>>) = 0
    OBVIOUS
  <2>2. IsSequence(<<>>)
    BY <2>1, SequenceOf
  <2>3. Intact(<<>>)
    BY <2>1 DEF Intact
  <2> QED
    BY <2>2, <2>3 DEF Shape
<1> QED
  BY <1>1, <1>3, <1>4 DEF EngineInv, FileInv, OpInv, HaltInv, TruthInv, GateInv, Running

\* A journal that ends with an engaging record folds to a halted state.
LEMMA HeldIsHalted ==
  ASSUME NEW f \in Seq(Line), HoldsHalt(f), ~Broken(f)
  PROVE  reconstructRiskState(readAll(f)).halted
<1>1. Intact(f) /\ Len(f) > 0 /\ engages(f[Len(f)].parsed[1]) /\ IsSequence(f) /\ Len(f) \in Nat
  BY LinesAreSequence DEF HoldsHalt
<1> DEFINE r == readAll(f)
           rec == f[Len(f)].parsed[1]
<1>2. Len(r) = Len(f) /\ r[Len(f)] = rec
  BY <1>1, ReadIntact
<1>3. PICK g : Folds(r, Len(r), g) /\ reconstructRiskState(r) = g[Len(r)]
  BY <1>1, <1>2, FoldIs
<1>4. g[Len(r)] = applyRiskRecord(g[Len(r) - 1], rec)
  <2> HIDE DEF r, rec
  <2>1. Len(r) \in Nat \ {0} /\ Len(r) \in 0 .. Len(r) /\ r[Len(r)] = rec
    BY <1>1, <1>2
  <2>2. g[Len(r)] = IF Len(r) = 0 THEN initialRiskControlState
                    ELSE applyRiskRecord(g[Len(r) - 1], r[Len(r)])
    BY <1>3, <2>1 DEF Folds
  <2> QED
    BY <2>1, <2>2
<1>5. rec.type # "TRADING_RESUMED"
  BY <1>1 DEF engages
<1>6. engages(rec)
  BY <1>1
<1>7. applyRiskRecord(g[Len(r) - 1], rec).halted = (g[Len(r) - 1].halted \/ engages(rec))
  BY <1>5 DEF applyRiskRecord
<1> QED
  BY <1>3, <1>4, <1>6, <1>7

LEMMA RecoverKeeps == ASSUME EngineInv, Recover PROVE EngineInv'
<1>1. /\ op = "down" /\ readAllSucceeds(file) /\ store' = "file"
      /\ nextSeq' = Len(readAll(file)) /\ state' = reconstructRiskState(readAll(file))
      /\ op' = "idle"
      /\ UNCHANGED <<file, todo, order, approved, book, equity, halted>>
  BY DEF Recover, market
<1>2. TypeOK /\ file \in Seq(Line) /\ Shape(file) /\ IsSequence(file)
  BY DEF EngineInv, FileInv, TypeOK, Shape, Line
<1>3. ~Broken(file) /\ (Intact(file) \/ TornLast(file))
  BY <1>1, <1>2, ReadBroken DEF Shape
<1>4. readAll(file) \in Seq(RiskRecord)
  BY <1>2, <1>3, ReadType
<1>5. state' \in ControlState /\ nextSeq' \in Nat
  BY <1>1, <1>4, FoldType, LenProperties
<1>6. TypeOK'
  BY <1>1, <1>2, <1>5 DEF TypeOK, Ops
<1>7. FileInv'
  <2>1. Intact(file) => nextSeq' = Len(file)
    BY <1>1, <1>2, ReadIntact
  <2> QED
    BY <1>1, <1>2, <2>1 DEF FileInv, InStep
<1>8. todo = <<>> /\ approved = FALSE /\ halted # "memory"
  BY <1>1, <1>2 DEF EngineInv, OpInv, HaltInv, Running, TypeOK
<1>9. OpInv'
  BY <1>1, <1>8 DEF OpInv
<1>10. HaltInv'
  <2>1. halted = "durable" => HoldsHalt(file)
    BY DEF EngineInv, HaltInv
  <2>2. halted = "durable" => state'.halted
    BY <1>1, <1>2, <1>3, <2>1, HeldIsHalted
  <2> QED
    BY <1>1, <1>8, <2>1, <2>2 DEF HaltInv, Running
<1>11. TruthInv'
  BY <1>1, <1>8 DEF TruthInv, Tracks
<1>12. GateInv'
  BY <1>1, <1>8 DEF GateInv
<1> QED
  BY <1>6, <1>7, <1>9, <1>10, <1>11, <1>12 DEF EngineInv

LEMMA RecoverHaltedKeeps == ASSUME EngineInv, RecoverHalted PROVE EngineInv'
<1>1. /\ op = "down" /\ ~readAllSucceeds(file) /\ store' = "memory" /\ nextSeq' = 0
      /\ state' = [initialRiskControlState EXCEPT
                     !.halted = TRUE, !.trigger = "JOURNAL_INTEGRITY_FAILURE"]
      /\ op' = "idle"
      /\ UNCHANGED <<file, todo, order, approved, book, equity, halted>>
  BY DEF RecoverHalted, market
<1>2. TypeOK /\ file \in Seq(Line) /\ Shape(file) /\ IsSequence(file)
  BY DEF EngineInv, FileInv, TypeOK, Shape, Line
<1>3. Broken(file)
  BY <1>1, <1>2, ReadIntact, ReadTorn DEF Shape
<1>4. state' = [halted |-> TRUE, trigger |-> "JOURNAL_INTEGRITY_FAILURE",
                baseline |-> NoCapital, peak |-> NoCapital, passed |-> 0, failed |-> 0]
  BY <1>1 DEF initialRiskControlState
<1>5. "JOURNAL_INTEGRITY_FAILURE" \in Causes
  <2>1. 3 \in DOMAIN HealthTriggers /\ HealthTriggers[3] = "JOURNAL_INTEGRITY_FAILURE"
    BY DEF HealthTriggers
  <2> QED
    BY <2>1 DEF Causes, Triggers
<1>6. state' \in ControlState /\ state'.halted = TRUE
  BY <1>4, <1>5 DEF ControlState, Capitals
<1>7. TypeOK'
  BY <1>1, <1>2, <1>6 DEF TypeOK, Ops
<1>8. FileInv'
  BY <1>1, <1>2, <1>3 DEF FileInv
<1>9. todo = <<>> /\ approved = FALSE
  BY <1>1, <1>2 DEF EngineInv, OpInv, TypeOK
<1>10. OpInv'
  BY <1>1, <1>9 DEF OpInv
<1>11. HaltInv'
  BY <1>1, <1>3, <1>6 DEF HaltInv, HoldsHalt, Running
<1>12. TruthInv' /\ GateInv'
  BY <1>1, <1>9 DEF TruthInv, GateInv
<1> QED
  BY <1>7, <1>8, <1>10, <1>11, <1>12 DEF EngineInv

LEMMA EvaluateKeeps ==
  ASSUME EngineInv, NEW p \in Proposals, NEW failures \in SUBSET HealthFaults,
         Evaluate(p, failures)
  PROVE  EngineInv'
<1> DEFINE o == sizePosition(p)
           capital  == buildCapitalSnapshot(book, equity)
           baseline == IF state.baseline = NoCapital THEN equity ELSE state.baseline
           peak     == IF equity > state.peak THEN equity ELSE state.peak
           trip     == evaluateTriggers(capital, equity - baseline, peak, failures)
           verdict  == evaluatePreTrade(o, projectOrder(book, capital, o), capital,
                                        equity - baseline)
<1>1. /\ op = "idle" /\ ~approved /\ ~state.halted /\ order' = o
      /\ IF trip # "none"
         THEN op' = "halt" /\ todo' = haltRecords(trip, equity)
         ELSE IF verdict = "PASSED"
         THEN op' = "pass" /\ todo' = <<Input("RISK_CHECK_PASSED", "none", equity)>>
         ELSE op' = "reject" /\ todo' = rejectRecords(verdict, equity)
      /\ UNCHANGED <<file, store, nextSeq, state, approved, book, equity, halted>>
  BY DEF Evaluate, market
<1>2. trip \in Causes
  BY TriggerType
<1>3. verdict = "PASSED" => Within(o, book, equity)
  <2>1. /\ p \in [symbol : Symbols, notional : Nat, price : Nat \ {0}]
        /\ book \in [Symbols -> Nat] /\ equity \in Nat
    BY RiskAssumption DEF EngineInv, TypeOK
  <2>2. quantize(p.notional, p.price) \in Nat
    BY <2>1, QuantizeIs
  <2>3. o.symbol \in Symbols /\ o.notional \in Nat /\ o.qty \in Nat
    BY <2>1, <2>2 DEF sizePosition
  <2> HIDE DEF o
  <2> QED
    BY <2>1, <2>3, PassedIsWithin
<1> HIDE DEF o, capital, baseline, peak, trip, verdict
<1>4. TypeOK /\ equity \in Capitals /\ "none" \in Causes
  BY DEF EngineInv, TypeOK, Capitals, Causes
<1>5. o \in {sizePosition(q) : q \in Proposals}
  BY DEF o
<1>6. halted \in {"no", "lost"}
  BY <1>1, <1>4 DEF EngineInv, HaltInv, Running, TypeOK, Halts
<1>7. op' \in {"halt", "pass", "reject"} /\ op' \in Ops
  BY <1>1 DEF Ops
<1>8. /\ todo' \in Seq(InputRecord) /\ todo' # <<>>
      /\ op' = "pass" => Len(todo') = 1 /\ todo'[1].type = "RISK_CHECK_PASSED"
      /\ op' = "halt" => engages(todo'[Len(todo')]) /\ Len(todo') # 1
  <2>1. CASE trip # "none"
    <3>1. op' = "halt" /\ todo' = haltRecords(trip, equity)
      BY <1>1, <2>1
    <3>2. /\ todo' \in Seq(InputRecord) /\ Len(todo') \in Nat /\ Len(todo') >= 2
          /\ engages(todo'[Len(todo')])
      BY <1>2, <1>4, <3>1, HaltRecordsAre
    <3> QED
      BY <3>1, <3>2
  <2>2. CASE trip = "none" /\ verdict = "PASSED"
    <3>1. op' = "pass" /\ todo' = <<Input("RISK_CHECK_PASSED", "none", equity)>>
      BY <1>1, <2>2
    <3>2. Input("RISK_CHECK_PASSED", "none", equity) \in InputRecord
          /\ Input("RISK_CHECK_PASSED", "none", equity).type = "RISK_CHECK_PASSED"
      BY <1>4, InputType DEF EventTypes
    <3> QED
      BY <3>1, <3>2
  <2>3. CASE trip = "none" /\ verdict # "PASSED"
    <3>1. op' = "reject" /\ todo' = rejectRecords(verdict, equity)
      BY <1>1, <2>3
    <3> QED
      BY <1>4, <3>1, RejectRecordsAre
  <2> QED
    BY <2>1, <2>2, <2>3
<1>9. TypeOK'
  BY <1>1, <1>4, <1>5, <1>7, <1>8 DEF TypeOK
<1>10. FileInv'
  BY <1>1, <1>7 DEF EngineInv, FileInv, Running
<1>11. OpInv'
  BY <1>1, <1>6, <1>7, <1>8 DEF OpInv
<1>12. HaltInv'
  BY <1>1, <1>6, <1>7 DEF EngineInv, HaltInv, Running
<1>13. TruthInv'
  BY <1>1, <1>7 DEF EngineInv, TruthInv, Running
<1>14. GateInv'
  <2>1. op' = "pass" => verdict = "PASSED"
    BY <1>1
  <2> QED
    BY <1>1, <1>3, <2>1 DEF GateInv
<1> QED
  BY <1>9, <1>10, <1>11, <1>12, <1>13, <1>14 DEF EngineInv

LEMMA ResetKeeps == ASSUME EngineInv, Reset PROVE EngineInv'
<1> DEFINE r == Input("TRADING_RESUMED", "none", NoCapital)
<1>1. /\ op = "idle" /\ ~approved /\ op' = "reset" /\ todo' = <<r>>
      /\ UNCHANGED <<file, store, nextSeq, state, order, approved, book, equity, halted>>
  BY DEF Reset, market
<1>2. r \in InputRecord /\ r.type = "TRADING_RESUMED"
  BY InputType DEF EventTypes, Causes, Capitals
<1> HIDE DEF r
<1>3. todo' \in Seq(InputRecord) /\ todo' # <<>> /\ Len(todo') = 1 /\ todo'[1] = r
  BY <1>1, <1>2
<1>4. TypeOK'
  BY <1>1, <1>3 DEF EngineInv, TypeOK, Ops
<1>5. FileInv' /\ HaltInv' /\ TruthInv' /\ GateInv'
  BY <1>1 DEF EngineInv, FileInv, HaltInv, TruthInv, GateInv, Running
<1>6. OpInv'
  BY <1>1, <1>2, <1>3 DEF OpInv
<1> QED
  BY <1>4, <1>5, <1>6 DEF EngineInv

\* Folding the same record keeps the live state on the journal's; a reset also brings
\* a halt that was only in memory back to it.
LEMMA ApplyTracks ==
  ASSUME NEW s, NEW r, NEW h, NEW rec, Tracks(s, r, h),
         h # "memory" \/ rec.type = "TRADING_RESUMED"
  PROVE  applyRiskRecord(s, rec) = applyRiskRecord(r, rec)
<1>1. CASE h # "memory"
  BY <1>1 DEF Tracks
<1>2. CASE rec.type = "TRADING_RESUMED"
  BY <1>2 DEF Tracks, applyRiskRecord
<1> QED
  BY <1>1, <1>2

\* The journal a record is appended to in full, when nothing is torn.
LEMMA CleanAppend ==
  ASSUME NEW f \in Seq(Line), NEW rec \in RiskRecord, NEW new,
         Shape(f), InStep(f, rec.seq), new = appendFile(f, rec, "line"), Clean(new)
  PROVE  /\ Clean(f) /\ Len(new) > 0 /\ new[Len(new)].parsed[1] = rec
         /\ reconstructRiskState(readAll(new))
              = applyRiskRecord(reconstructRiskState(readAll(f)), rec)
<1>1. "line" \in Parts /\ IsSequence(f)
  BY LinesAreSequence DEF Parts
<1>2. Clean(f) /\ (\/ "line" = "none" /\ new = f
                   \/ "line" = "line" /\ Grown(f, rec, "line", new))
  BY <1>1, CleanStep
<1>3. Clean(f) /\ Grown(f, rec, "line", new)
  BY <1>2
<1>4. Intact(f) /\ ~Unterminated(f)
  BY <1>3, CleanIsIntact
<1>5. rec.seq = Len(f)
  BY <1>4 DEF InStep
<1>6. /\ Len(f) \in Nat /\ Len(new) = Len(f) + 1 /\ \A i \in 1 .. Len(f) : new[i] = f[i]
      /\ Intact(new) /\ new[Len(new)].parsed[1] = rec
  BY <1>1, <1>3, <1>4, <1>5, GrownIs
<1>7. IsSequence(new)
  BY <1>1, AppendShape
<1>8. Len(readAll(f)) = Len(f) /\ \A i \in 1 .. Len(f) : readAll(f)[i] = f[i].parsed[1]
  BY <1>1, <1>4, ReadIntact
<1>9. Len(readAll(new)) = Len(new) /\ \A i \in 1 .. Len(new) : readAll(new)[i] = new[i].parsed[1]
  BY <1>6, <1>7, ReadIntact
<1> DEFINE r == readAll(f)
           s == readAll(new)
<1>10. Len(r) \in Nat /\ Len(s) = Len(r) + 1
  BY <1>6, <1>8, <1>9
<1>11. \A i \in 1 .. Len(r) : r[i] = s[i]
  <2>1. \A i \in 1 .. Len(f) : i \in 1 .. Len(new)
    BY <1>6
  <2> QED
    BY <1>6, <1>8, <1>9, <2>1
<1>12. s[Len(s)] = rec
  <2>1. Len(new) \in 1 .. Len(new)
    BY <1>6
  <2> QED
    BY <1>6, <1>9, <2>1
<1> HIDE DEF r, s
<1>13. reconstructRiskState(s) = applyRiskRecord(reconstructRiskState(r), s[Len(s)])
  BY <1>10, <1>11, FoldOfOneMore
<1>14. Len(new) > 0
  BY <1>6
<1> QED
  BY <1>3, <1>6, <1>12, <1>13, <1>14 DEF r, s

\* The record an operation appends next.
LEMMA NextRecordIs ==
  ASSUME TypeOK, OpInv, todo # <<>>
  PROVE  /\ Len(todo) \in Nat \ {0} /\ op \notin {"down", "idle"} /\ ~approved
         /\ NextRecord \in RiskRecord /\ NextRecord.seq = nextSeq
         /\ NextRecord.type = todo[1].type
         /\ todo[Len(todo)].trigger \in Causes
<1>1. todo \in Seq(InputRecord) /\ nextSeq \in Nat
  BY DEF TypeOK
<1>2. Len(todo) \in Nat \ {0} /\ Head(todo) = todo[1]
      /\ todo[1] \in InputRecord /\ todo[Len(todo)] \in InputRecord
  BY <1>1, EmptySeq, LenProperties
<1>3. NextRecord \in RiskRecord /\ NextRecord.seq = nextSeq /\ NextRecord.type = todo[1].type
  BY <1>1, <1>2 DEF NextRecord, InputRecord, RiskRecord
<1>4. todo[Len(todo)].trigger \in Causes
  BY <1>2 DEF InputRecord
<1>5. op \notin {"down", "idle"} /\ ~approved
  BY DEF OpInv
<1> QED
  BY <1>2, <1>3, <1>4, <1>5

LEMMA AppendAndFoldKeeps == ASSUME EngineInv, AppendAndFold PROVE EngineInv'
<1> DEFINE rec == NextRecord
<1>1. /\ todo # <<>>
      /\ file' = IF store = "file" THEN appendFile(file, rec, "line") ELSE file
      /\ nextSeq' = nextSeq + 1 /\ state' = applyRiskRecord(state, rec)
      /\ todo' = Tail(todo) /\ UNCHANGED <<store, book, equity>>
  BY DEF AppendAndFold, market
<1>2. Len(todo) = 1 =>
        /\ op' = "idle" /\ approved' = (op = "pass")
        /\ order' = IF op = "pass" THEN order ELSE NoOrder
        /\ halted' = CASE op = "halt"  -> "durable"
                       [] op = "reset" -> "no"
                       [] OTHER        -> halted
  BY DEF AppendAndFold
<1>3. Len(todo) # 1 => UNCHANGED <<op, order, approved, halted>>
  BY DEF AppendAndFold
<1>4. TypeOK /\ FileInv /\ OpInv /\ HaltInv /\ TruthInv /\ GateInv /\ file \in Seq(Line)
  BY DEF EngineInv, TypeOK, Line
<1>5. /\ Len(todo) \in Nat \ {0} /\ op \notin {"down", "idle"} /\ ~approved
      /\ rec \in RiskRecord /\ rec.seq = nextSeq /\ rec.type = todo[1].type
  BY <1>1, <1>4, NextRecordIs
<1> HIDE DEF rec
<1>6. nextSeq \in Nat /\ todo \in Seq(InputRecord) /\ store \in {"file", "memory"}
      /\ op \in {"pass", "reject", "halt", "reset"} /\ "line" \in Parts
  BY <1>4, <1>5 DEF TypeOK, Ops, Parts
<1>7. /\ Tail(todo) \in Seq(InputRecord) /\ Len(Tail(todo)) = Len(todo) - 1
      /\ \A i \in 1 .. Len(todo) - 1 : Tail(todo)[i] = todo[i + 1]
  BY <1>1, <1>6
<1>8. Running /\ Running'
  BY <1>2, <1>3, <1>5 DEF Running
<1>9. store = "file" => Shape(file) /\ InStep(file, rec.seq)
  BY <1>4, <1>5, <1>8 DEF FileInv
<1>10. store = "file" => Shape(file') /\ InStep(file', nextSeq') /\ ~Unterminated(file')
  <2>1. HAVE store = "file"
  <2>2. file' = appendFile(file, rec, "line")
    BY <1>1, <2>1
  <2> QED
    BY <1>1, <1>5, <1>6, <1>9, <2>1, <2>2, AppendKeeps
<1>11. store = "memory" => file' = file /\ Broken(file) /\ Shape(file)
  BY <1>1, <1>4, <1>8 DEF FileInv
<1>12. TypeOK'
  <2>1. file' \in Seq(Line)
    BY <1>1, <1>4, <1>5, <1>6, AppendType
  <2>2. state' \in ControlState
    BY <1>1, <1>4, <1>5, ApplyType DEF TypeOK
  <2>3. op' \in Ops /\ approved' \in BOOLEAN /\ halted' \in Halts
        /\ order' \in {sizePosition(p) : p \in Proposals} \cup {NoOrder}
    BY <1>2, <1>3, <1>4 DEF TypeOK, Ops, Halts
  <2> QED
    BY <1>1, <1>4, <1>6, <1>7, <2>1, <2>2, <2>3 DEF TypeOK, Line
<1>13. FileInv'
  BY <1>1, <1>6, <1>10, <1>11 DEF FileInv
<1>14. OpInv'
  <2>1. CASE Len(todo) = 1
    <3>1. todo' = <<>> /\ op' = "idle"
      BY <1>1, <1>2, <1>7, <2>1, EmptySeq
    <3> QED
      BY <3>1 DEF OpInv
  <2>2. CASE Len(todo) # 1
    <3>1. op' = op /\ approved' = FALSE /\ halted' = halted /\ op \in {"reject", "halt"}
      BY <1>3, <1>4, <1>5, <1>6, <2>2 DEF OpInv, TypeOK
    <3>2. Len(todo') \in Nat \ {0} /\ todo' # <<>>
      <4>1. Len(todo') = Len(todo) - 1 /\ Len(<<>>) = 0
        BY <1>1, <1>7
      <4>2. Len(todo') \in Nat \ {0}
        BY <1>5, <2>2, <4>1
      <4> QED
        BY <4>1, <4>2
    <3>3. todo'[Len(todo')] = todo[Len(todo)]
      BY <1>1, <1>5, <1>7, <2>2
    <3>4. store' = "file" => ~Unterminated(file')
      BY <1>1, <1>10
    <3> QED
      BY <1>4, <3>1, <3>2, <3>3, <3>4 DEF OpInv
  <2> QED
    BY <2>1, <2>2
<1>15. HaltInv'
  <2>1. CASE Len(todo) = 1 /\ op = "halt"
    <3>1. engages(rec)
      <4>1. engages(todo[1])
        BY <1>4, <2>1 DEF OpInv
      <4> QED
        BY <1>5, <4>1 DEF engages
    <3>2. state'.halted
      BY <1>1, <3>1 DEF applyRiskRecord, engages
    <3>3. HoldsHalt(file')
      <4>1. CASE store = "file"
        <5>1. ~Unterminated(file)
          BY <1>4, <2>1, <4>1 DEF OpInv
        <5>2. file' = appendFile(file, rec, "line")
          BY <1>1, <4>1
        <5> QED
          BY <1>9, <3>1, <4>1, <5>1, <5>2, HaltIsHeld
      <4>2. CASE store = "memory"
        BY <1>11, <4>2 DEF HoldsHalt
      <4> QED
        BY <1>6, <4>1, <4>2
    <3> QED
      BY <1>8, <3>2, <3>3 DEF HaltInv
  <2>2. CASE ~(Len(todo) = 1 /\ op = "halt")
    <3>1. halted' \in {"no", "lost"}
      BY <1>2, <1>3, <1>4, <1>6, <2>2 DEF OpInv
    <3> QED
      BY <1>8, <3>1 DEF HaltInv
  <2> QED
    BY <2>1, <2>2
<1>16. TruthInv'
  <2> SUFFICES ASSUME store = "file", Clean(file')
               PROVE  /\ Tracks(state', reconstructRiskState(readAll(file')), halted')
                      /\ approved' => Len(file') > 0
                                      /\ file'[Len(file')].parsed[1].type = "RISK_CHECK_PASSED"
    BY <1>1 DEF TruthInv
  <2> DEFINE r == reconstructRiskState(readAll(file))
             q == reconstructRiskState(readAll(file'))
  <2>1. file' = appendFile(file, rec, "line")
    BY <1>1
  <2>2. /\ Clean(file) /\ Len(file') > 0 /\ file'[Len(file')].parsed[1] = rec
        /\ q = applyRiskRecord(r, rec)
    BY <1>4, <1>5, <1>9, <2>1, CleanAppend
  <2>3. Tracks(state, r, halted)
    BY <1>4, <1>8, <2>2 DEF TruthInv
  <2> HIDE DEF r, q
  <2>4. halted # "memory" \/ rec.type = "TRADING_RESUMED"
    BY <1>4, <1>5, <1>6 DEF OpInv
  <2>5. state' = q
    BY <1>1, <2>2, <2>3, <2>4, ApplyTracks
  <2>6. Tracks(state', q, halted')
    BY <2>5 DEF Tracks
  <2>7. approved' => op = "pass"
    BY <1>2, <1>3, <1>5
  <2>8. approved' => rec.type = "RISK_CHECK_PASSED"
    BY <1>4, <1>5, <2>7 DEF OpInv
  <2> QED
    BY <2>2, <2>6, <2>8 DEF q
<1>17. GateInv'
  <2>1. approved' \/ op' = "pass" => op = "pass" /\ order' = order
    BY <1>2, <1>3, <1>4, <1>5 DEF OpInv
  <2> QED
    BY <1>1, <1>4, <2>1 DEF GateInv
<1> QED
  BY <1>12, <1>13, <1>14, <1>15, <1>16, <1>17 DEF EngineInv

LEMMA AppendRejectedKeeps == ASSUME EngineInv, AppendRejected PROVE EngineInv'
<1> DEFINE rec == NextRecord
<1>1. /\ todo # <<>> /\ store = "file" /\ state' = stateAfterFailure /\ op' = "idle"
      /\ todo' = <<>> /\ order' = NoOrder
      /\ halted' = IF op = "halt" /\ halted # "durable" THEN "memory"
                   ELSE IF ResumeWritten THEN "no" ELSE halted
      /\ UNCHANGED <<store, nextSeq, approved, book, equity>>
  BY DEF AppendRejected, market
<1>2. PICK part \in FailedParts : file' = appendFile(file, rec, part)
  BY DEF AppendRejected
<1>3. part \in Parts /\ part # "line"
  BY RiskAssumption
<1>4. TypeOK /\ FileInv /\ OpInv /\ HaltInv /\ TruthInv /\ file \in Seq(Line)
  BY DEF EngineInv, TypeOK, Line
<1>5. /\ op \notin {"down", "idle"} /\ ~approved
      /\ rec \in RiskRecord /\ rec.seq = nextSeq /\ todo[Len(todo)].trigger \in Causes
  BY <1>1, <1>4, NextRecordIs
<1> HIDE DEF rec
<1>6. /\ nextSeq \in Nat /\ state \in ControlState /\ approved = FALSE
      /\ op \in {"pass", "reject", "halt", "reset"} /\ halted \in Halts
  BY <1>4, <1>5 DEF TypeOK, Ops
<1>7. Running /\ Running' /\ Shape(file) /\ InStep(file, rec.seq)
  BY <1>1, <1>4, <1>5 DEF FileInv, Running
<1>8. Shape(file') /\ InStep(file', nextSeq)
  BY <1>2, <1>3, <1>5, <1>6, <1>7, AppendKeeps
<1>9. /\ op = "halt" => state' = [state EXCEPT !.halted = TRUE, !.trigger = todo[Len(todo)].trigger]
      /\ op # "halt" => state' = state
  BY <1>1 DEF stateAfterFailure
<1>10. /\ state' \in ControlState /\ (op = "halt" => state'.halted)
       /\ state'.baseline = state.baseline /\ state'.peak = state.peak
       /\ state'.passed = state.passed /\ state'.failed = state.failed
  BY <1>5, <1>6, <1>9 DEF ControlState
<1>11. op # "reset" => halted \in {"no", "lost"}
  BY <1>4, <1>6 DEF OpInv
<1>12. /\ op = "halt" => halted' = "memory"
       /\ op # "halt" => halted' = halted \/ halted' = "no"
       /\ op = "reset" /\ halted' # "no" => file' = file
       /\ file' = file /\ op # "halt" => halted' = halted
  BY <1>1, <1>11 DEF ResumeWritten
<1>13. TypeOK'
  <2>1. file' \in Seq(Line)
    BY <1>2, <1>3, <1>4, <1>5, AppendType
  <2>2. /\ todo' \in Seq(InputRecord) /\ op' \in Ops /\ halted' \in Halts
        /\ order' \in {sizePosition(p) : p \in Proposals} \cup {NoOrder}
    BY <1>1, <1>6, <1>12 DEF Ops, Halts
  <2> QED
    BY <1>1, <1>4, <1>10, <2>1, <2>2 DEF TypeOK, Line
<1>14. FileInv'
  BY <1>1, <1>8 DEF FileInv
<1>15. OpInv'
  BY <1>1 DEF OpInv
<1>16. HaltInv'
  <2>1. CASE op = "halt"
    BY <1>7, <1>10, <1>12, <2>1 DEF HaltInv
  <2>2. CASE op = "reset"
    BY <1>4, <1>7, <1>9, <1>12, <2>2 DEF HaltInv
  <2>3. CASE op \in {"pass", "reject"}
    BY <1>7, <1>11, <1>12, <2>3 DEF HaltInv
  <2> QED
    BY <1>6, <2>1, <2>2, <2>3
<1>17. TruthInv'
  <2> SUFFICES ASSUME Clean(file')
               PROVE  Tracks(state', reconstructRiskState(readAll(file')), halted')
    BY <1>1, <1>6 DEF TruthInv
  <2>1. Clean(file) /\ file' = file
    BY <1>2, <1>3, <1>4, <1>5, CleanStep
  <2> DEFINE r == reconstructRiskState(readAll(file))
  <2>2. Tracks(state, r, halted)
    BY <1>1, <1>4, <1>7, <2>1 DEF TruthInv
  <2> HIDE DEF r
  <2>3. Tracks(state', r, halted')
    BY <1>9, <1>10, <1>12, <2>1, <2>2 DEF Tracks
  <2> QED
    BY <2>1, <2>3 DEF r
<1>18. GateInv'
  BY <1>1, <1>6 DEF GateInv
<1> QED
  BY <1>13, <1>14, <1>15, <1>16, <1>17, <1>18 DEF EngineInv

LEMMA CrashKeeps == ASSUME EngineInv, Crash PROVE EngineInv'
<1> DEFINE rec == NextRecord
<1>1. /\ op # "down" /\ state' = initialRiskControlState /\ nextSeq' = 0 /\ op' = "down"
      /\ todo' = <<>> /\ order' = NoOrder /\ approved' = FALSE
      /\ halted' = IF ResumeWritten THEN "no"
                   ELSE IF halted = "memory" THEN "lost" ELSE halted
      /\ UNCHANGED store
  BY DEF Crash
<1>12. book' \in [Symbols -> Nat] /\ equity' \in Equities
  <2>1. UNCHANGED <<book, equity>> \/ OpenAccount
    BY DEF Crash, market
  <2>2. book \in [Symbols -> Nat] /\ equity \in Equities /\ InitialCash \in Equities
    BY RiskAssumption DEF EngineInv, TypeOK
  <2> QED
    BY <2>1, <2>2 DEF OpenAccount
<1>2. TypeOK /\ FileInv /\ OpInv /\ HaltInv /\ file \in Seq(Line)
  BY DEF EngineInv, TypeOK, Line
<1>3. CASE UNCHANGED file
  <2>1. state' \in ControlState
    BY <1>1 DEF initialRiskControlState, ControlState, Causes, Capitals
  <2>2. halted' \in {"no", "lost"} \/ (halted' = halted /\ halted # "memory")
    BY <1>1
  <2>3. /\ todo' \in Seq(InputRecord) /\ op' \in Ops /\ halted' \in Halts
        /\ order' \in {sizePosition(p) : p \in Proposals} \cup {NoOrder}
    BY <1>1, <1>2, <2>2 DEF TypeOK, Ops, Halts
  <2>4. TypeOK'
    BY <1>1, <1>12, <1>2, <1>3, <2>1, <2>3 DEF TypeOK
  <2>5. FileInv'
    BY <1>1, <1>2, <1>3 DEF FileInv, Running
  <2>6. OpInv' /\ TruthInv' /\ GateInv'
    BY <1>1 DEF OpInv, TruthInv, GateInv, Running
  <2>7. HaltInv'
    BY <1>1, <1>2, <1>3, <2>2 DEF HaltInv, Running
  <2> QED
    BY <2>4, <2>5, <2>6, <2>7 DEF EngineInv
<1>4. CASE /\ todo # <<>> /\ store = "file"
           /\ \E part \in TornParts : file' = appendFile(file, rec, part)
  <2>1. PICK part \in TornParts : file' = appendFile(file, rec, part)
    BY <1>4
  <2>2. part \in Parts
    BY RiskAssumption
  <2>3. op \notin {"down", "idle"} /\ rec \in RiskRecord /\ rec.seq = nextSeq
    BY <1>2, <1>4, NextRecordIs
  <2> HIDE DEF rec
  <2>4. Shape(file) /\ InStep(file, rec.seq) /\ nextSeq \in Nat
    BY <1>2, <1>4, <2>3 DEF FileInv, Running, TypeOK
  <2>5. Shape(file')
    BY <2>1, <2>2, <2>3, <2>4, AppendKeeps
  <2>6. file' \in Seq(Line)
    BY <1>2, <2>1, <2>2, <2>3, AppendType
  <2>7. op # "reset" => halted \in {"no", "lost"}
    BY <1>2, <2>3 DEF OpInv, TypeOK, Ops
  <2>8. halted' = "durable" => halted = "durable" /\ file' = file
    BY <1>1, <2>7 DEF ResumeWritten
  <2>9. state' \in ControlState
    BY <1>1 DEF initialRiskControlState, ControlState, Causes, Capitals
  <2>10. halted' \in {"no", "lost"} \/ (halted' = halted /\ halted # "memory")
    BY <1>1
  <2>11. /\ todo' \in Seq(InputRecord) /\ op' \in Ops /\ halted' \in Halts
         /\ order' \in {sizePosition(p) : p \in Proposals} \cup {NoOrder}
    BY <1>1, <1>2, <2>10 DEF TypeOK, Ops, Halts
  <2>12. TypeOK'
    BY <1>1, <1>12, <1>2, <2>6, <2>9, <2>11 DEF TypeOK, Line
  <2>13. FileInv' /\ OpInv' /\ TruthInv' /\ GateInv'
    BY <1>1, <2>5 DEF FileInv, OpInv, TruthInv, GateInv, Running
  <2>14. HaltInv'
    BY <1>1, <1>2, <2>8, <2>10 DEF HaltInv, Running
  <2> QED
    BY <2>12, <2>13, <2>14 DEF EngineInv
<1> QED
  BY <1>3, <1>4 DEF Crash

LEMMA FillKeeps == ASSUME EngineInv, Fill \/ NotFilled PROVE EngineInv'
<1>1. /\ approved /\ order' = NoOrder /\ approved' = FALSE
      /\ UNCHANGED <<file, store, nextSeq, state, op, todo, halted>>
      /\ equity' \in Equities
      /\ book' = book \/ book' = [book EXCEPT ![order.symbol] = order.qty * order.price]
  BY DEF Fill, NotFilled, market, EngineInv, TypeOK
<1>2. TypeOK /\ op = "idle"
  BY <1>1 DEF EngineInv, OpInv
<1>3. order.qty * order.price \in Nat
  <2>1. order = NoOrder \/ \E p \in Proposals : order = sizePosition(p)
    BY <1>2 DEF TypeOK
  <2>2. ASSUME NEW p \in Proposals
        PROVE  quantize(p.notional, p.price) \in Nat /\ p.price \in Nat
    <3> DEFINE x == p.notional
               d == p.price
    <3>1. x \in Nat /\ x \in Int /\ d \in Nat \ {0}
      BY RiskAssumption
    <3> HIDE DEF x, d
    <3>2. quantize(x, d) \in Nat
      BY <3>1, QuantizeIs
    <3> QED
      BY <3>1, <3>2 DEF x, d
  <2>3. order.qty \in Nat /\ order.price \in Nat
    BY <2>1, <2>2 DEF NoOrder, sizePosition
  <2> QED
    BY <2>3
<1>4. book' \in [Symbols -> Nat]
  BY <1>1, <1>2, <1>3 DEF TypeOK
<1>5. TypeOK'
  BY <1>1, <1>2, <1>4 DEF TypeOK
<1>6. FileInv' /\ OpInv' /\ HaltInv' /\ TruthInv' /\ GateInv'
  BY <1>1, <1>2 DEF EngineInv, FileInv, OpInv, HaltInv, TruthInv, GateInv, Running
<1> QED
  BY <1>5, <1>6 DEF EngineInv

LEMMA EngineStep == EngineInv /\ [Next]_vars => EngineInv'
<1> SUFFICES ASSUME EngineInv, [Next]_vars PROVE EngineInv'
  OBVIOUS
<1>1. CASE UNCHANGED vars
  <2>1. UNCHANGED <<file, store, nextSeq, state, op, todo, order, approved, book, equity, halted>>
    BY <1>1 DEF vars
  <2>2. TypeOK' /\ Running' = Running
    BY <2>1 DEF EngineInv, TypeOK, Running
  <2>3. FileInv' /\ OpInv' /\ HaltInv' /\ TruthInv' /\ GateInv'
    BY <2>1, <2>2 DEF EngineInv, FileInv, OpInv, HaltInv, TruthInv, GateInv
  <2> QED
    BY <2>2, <2>3 DEF EngineInv
<1>2. CASE Recover
  BY <1>2, RecoverKeeps
<1>3. CASE RecoverHalted
  BY <1>3, RecoverHaltedKeeps
<1>4. CASE \E p \in Proposals : \E failures \in SUBSET HealthFaults : Evaluate(p, failures)
  BY <1>4, EvaluateKeeps
<1>5. CASE Reset
  BY <1>5, ResetKeeps
<1>6. CASE AppendAndFold
  BY <1>6, AppendAndFoldKeeps
<1>7. CASE AppendRejected
  BY <1>7, AppendRejectedKeeps
<1>8. CASE Fill \/ NotFilled
  BY <1>8, FillKeeps
<1>9. CASE Crash
  BY <1>9, CrashKeeps
<1> QED
  BY <1>1, <1>2, <1>3, <1>4, <1>5, <1>6, <1>7, <1>8, <1>9 DEF Next

\* The inductive invariant of the engine on its journal: file, numbering, running
\* operation, halt, live state and approved order, through torn appends and crashes.
THEOREM EngineIsSound == Spec => []EngineInv
<1>1. Init => EngineInv
  BY EngineStarts
<1>2. EngineInv /\ [Next]_vars => EngineInv'
  BY EngineStep
<1> QED
  BY <1>1, <1>2, PTL DEF Spec

\* For any pattern of torn, rejected and interrupted appends and of restarts, a halt
\* that halt() completed holds in every later process until a reset, and one that could
\* not be journaled holds in its own (risk/engine.ts, buildRiskGate).
THEOREM HaltIsKept == Spec => []HaltSurvives
<1>1. EngineInv => HaltSurvives
  BY DEF EngineInv, HaltInv, HaltSurvives
<1> QED
  BY <1>1, EngineIsSound, PTL

\* For journals of any length: as long as no append was torn, what a restart folds from
\* the journal is the live state between operations, and every approved order has its
\* PASS in it (appendAndFold, reconstructRiskState).
THEOREM JournalIsTrusted == Spec => []JournalIsTruth
<1>1. ASSUME EngineInv PROVE JournalIsTruth
  <2>1. TypeOK /\ FileInv /\ OpInv /\ HaltInv /\ TruthInv /\ file \in Seq(Line)
    BY <1>1 DEF EngineInv, TypeOK, Line
  <2>2. Shape(file)
    BY <2>1 DEF FileInv
  <2>3. NothingTorn = Clean(file)
    BY DEF NothingTorn, Clean
  <2>4. Clean(file) => /\ Intact(file) /\ ~Unterminated(file) /\ readAllSucceeds(file)
                       /\ Len(readAll(file)) = Len(file) /\ Len(file) \in Nat
                       /\ \A i \in 1 .. Len(file) : readAll(file)[i] = file[i].parsed[1]
    BY <2>1, <2>2, CleanIsIntact, LinesAreSequence, ReadIntact
  <2>5. RecoveredIsLive
    <3>1. SUFFICES ASSUME op = "idle", store = "file", Clean(file)
                   PROVE  /\ readAllSucceeds(file)
                          /\ \/ state = reconstructRiskState(readAll(file))
                             \/ halted = "memory" /\ state.halted
      BY <2>3 DEF RecoveredIsLive
    <3>2. Running
      BY <3>1 DEF Running
    <3>3. Tracks(state, reconstructRiskState(readAll(file)), halted)
      BY <2>1, <3>1, <3>2 DEF TruthInv
    <3>4. halted = "memory" => state.halted
      BY <2>1, <3>2 DEF HaltInv
    <3> QED
      BY <2>4, <3>1, <3>3, <3>4 DEF Tracks
  <2>6. ApprovedIsDurable
    <3>1. SUFFICES ASSUME approved, store = "file", Clean(file)
                   PROVE  /\ readAllSucceeds(file)
                          /\ nextSeq > 0 /\ Len(readAll(file)) = nextSeq
                          /\ readAll(file)[nextSeq].type = "RISK_CHECK_PASSED"
      BY <2>3 DEF ApprovedIsDurable
    <3>2. op = "idle" /\ Running
      BY <2>1, <3>1 DEF OpInv, Running
    <3>3. nextSeq = Len(file)
      BY <2>1, <2>4, <3>1, <3>2 DEF FileInv, InStep
    <3>4. Len(file) > 0 /\ file[Len(file)].parsed[1].type = "RISK_CHECK_PASSED"
      BY <2>1, <3>1 DEF TruthInv
    <3>5. Len(file) \in 1 .. Len(file)
      BY <2>4, <3>1, <3>4
    <3> QED
      BY <2>4, <3>1, <3>3, <3>4, <3>5
  <2> QED
    BY <2>1, <2>5, <2>6 DEF JournalIsTruth
<1> QED
  BY <1>1, EngineIsSound, PTL

\* For any symbols, limits, leverage, book, cent and ratio step: the book after an
\* approved order, summed from scratch and not rounded, is within leverage and margin up
\* to a cent, and the symbol within its size and, up to half a step, its share
\* (evaluatePreTrade on projectOrder, risk/gate.ts).
THEOREM ApprovedFits == Spec => []ApprovedWithinLimits
<1>1. EngineInv => ApprovedWithinLimits
  BY DEF EngineInv, GateInv, Within, ApprovedWithinLimits
<1> QED
  BY <1>1, EngineIsSound, PTL
=============================================================================

---------------------------- MODULE CommonProofs ----------------------------
(***************************************************************************)
(* Lemmas the proofs of several components rest on.  What readAll returns  *)
(* of a journal and what appendFile does to it, for journals of any        *)
(* length: a journal is intact, torn in its last line, or broken before    *)
(* its last line, and broken journals stay broken.  And what the folds of  *)
(* the community modules compute: FoldLeft runs through its sequence step  *)
(* by step, and a sum over a finite set does not depend on the order in    *)
(* which the elements are taken.                                           *)
(***************************************************************************)
EXTENDS JournalFile, Integers, FiniteSetsExt, SequencesExt, FiniteSetTheorems,
        SequenceTheorems, NaturalsInduction, WellFoundedInduction, TLAPS

Entries(s) == {s[i] : i \in DOMAIN s}
IsSequence(s) == s \in Seq(Entries(s))

\* Line i parses, to the record with its number.
Sound(file, i) == file[i].parsed # <<>> /\ file[i].parsed[1].seq = i - 1

Intact(file)   == \A i \in 1 .. Len(file) : Sound(file, i)
TornLast(file) == /\ Len(file) > 0 /\ file[Len(file)].parsed = <<>>
                  /\ \A i \in 1 .. Len(file) - 1 : Sound(file, i)
Broken(file)   == \E i \in 1 .. Len(file) - 1 : file[i].parsed = <<>>

\* An append continues an unterminated last line, which then never parses, ...
Glued(file, part, new) ==
  /\ Unterminated(file) /\ Len(new) = Len(file)
  /\ \A i \in 1 .. Len(file) - 1 : new[i] = file[i]
  /\ new[Len(new)].parsed = <<>>
  /\ new[Len(new)].nl = (part = "line")

\* ... or starts a line of its own.
Grown(file, rec, part, new) ==
  /\ ~Unterminated(file) /\ Len(new) = Len(file) + 1
  /\ \A i \in 1 .. Len(file) : new[i] = file[i]
  /\ new[Len(new)].parsed = IF part = "torn" THEN <<>> ELSE <<rec>>
  /\ new[Len(new)].nl = (part = "line")

\* A sequence over any set is one over its own entries.
LEMMA SequenceOf ==
  ASSUME NEW S, NEW s \in Seq(S)
  PROVE  IsSequence(s)
<1>1. s \in [1 .. Len(s) -> S] /\ Len(s) \in Nat /\ DOMAIN s = 1 .. Len(s)
  BY LenProperties
<1>2. s \in [1 .. Len(s) -> Entries(s)]
  BY <1>1 DEF Entries
<1> QED
  BY <1>1, <1>2 DEF IsSequence

\* Appending keeps the entries and adds one.
LEMMA AppendEntry ==
  ASSUME NEW s, NEW e, IsSequence(s)
  PROVE  /\ IsSequence(Append(s, e))
         /\ Len(s) \in Nat /\ Len(Append(s, e)) = Len(s) + 1
         /\ \A i \in 1 .. Len(s) : Append(s, e)[i] = s[i]
         /\ Append(s, e)[Len(s) + 1] = e
<1> DEFINE S == Entries(s) \cup {e}
<1>1. s \in Seq(Entries(s))
  BY DEF IsSequence
<1>2. s \in Seq(S) /\ e \in S /\ Len(s) \in Nat
  BY <1>1, LenProperties
<1> HIDE DEF S
<1>3. Append(s, e) \in Seq(S)
  BY <1>2, AppendProperties
<1>4. IsSequence(Append(s, e))
  BY <1>3, SequenceOf
<1> QED
  BY <1>2, <1>4, AppendProperties

\* A function on 1..n is a sequence of n entries.
LEMMA FunctionIsSequence ==
  ASSUME NEW n \in Nat, NEW s, s = [i \in 1 .. n |-> s[i]]
  PROVE  IsSequence(s) /\ Len(s) = n /\ DOMAIN s = 1 .. n
<1>1. s \in [1 .. n -> Entries(s)]
  BY DEF Entries
<1>2. s \in Seq(Entries(s))
  BY <1>1
<1> QED
  BY <1>1, <1>2, LenProperties DEF IsSequence

\* The file after an append: unchanged, its unterminated last line replaced by one
\* that does not parse, or one line longer.
LEMMA AppendShape ==
  ASSUME NEW file, NEW rec, NEW part \in Parts, NEW new,
         IsSequence(file), new = appendFile(file, rec, part)
  PROVE  /\ IsSequence(new)
         /\ \/ part = "none" /\ new = file
            \/ part # "none" /\ Glued(file, part, new)
            \/ part # "none" /\ Grown(file, rec, part, new)
<1> DEFINE text == [parsed |-> IF part = "torn" \/ Unterminated(file) THEN <<>>
                               ELSE <<rec>>,
                    nl |-> part = "line"]
<1>1. /\ text.nl = (part = "line")
      /\ Unterminated(file) => text.parsed = <<>>
      /\ ~Unterminated(file) => text.parsed = IF part = "torn" THEN <<>> ELSE <<rec>>
  OBVIOUS
<1>2. new = IF part = "none" THEN file
            ELSE IF Unterminated(file) THEN [file EXCEPT ![Len(file)] = text]
            ELSE Append(file, text)
  BY DEF appendFile
<1> HIDE DEF text
<1>3. CASE part = "none"
  BY <1>2, <1>3
<1>4. CASE part # "none" /\ Unterminated(file)
  <2>1. file # <<>> /\ file \in Seq(Entries(file))
    BY <1>4 DEF Unterminated, IsSequence
  <2>2. Len(file) \in Nat \ {0}
    BY <2>1, EmptySeq
  <2>3. file \in [1 .. Len(file) -> Entries(file)]
    BY <2>1, LenProperties
  <2>4. new = [i \in 1 .. Len(file) |-> IF i = Len(file) THEN text ELSE file[i]]
    BY <1>2, <1>4, <2>3
  <2>5. new = [i \in 1 .. Len(file) |-> new[i]]
    BY <2>4
  <2>6. IsSequence(new) /\ Len(new) = Len(file)
    BY <2>2, <2>5, FunctionIsSequence
  <2>7. \A i \in 1 .. Len(file) - 1 : i \in 1 .. Len(file) /\ i # Len(file)
    BY <2>2
  <2>8. \A i \in 1 .. Len(file) - 1 : new[i] = file[i]
    BY <2>4, <2>7
  <2>9. new[Len(file)] = text
    BY <2>2, <2>4
  <2> QED
    BY <1>1, <1>4, <2>6, <2>8, <2>9 DEF Glued
<1>5. CASE part # "none" /\ ~Unterminated(file)
  <2>1. new = Append(file, text)
    BY <1>2, <1>5
  <2> QED
    BY <1>1, <1>5, <2>1, AppendEntry DEF Grown
<1> QED
  BY <1>3, <1>4, <1>5

\* An intact journal is read in full.
LEMMA ReadIntact ==
  ASSUME NEW file, IsSequence(file), Intact(file)
  PROVE  /\ readAllSucceeds(file) /\ IsSequence(readAll(file))
         /\ Len(readAll(file)) = Len(file)
         /\ \A i \in 1 .. Len(file) : readAll(file)[i] = file[i].parsed[1]
<1>1. Len(file) \in Nat
  BY LenProperties DEF IsSequence
<1>2. DOMAIN file = 1 .. Len(file)
  BY LenProperties DEF IsSequence
<1>3. Unparseable(file) = {}
  BY <1>2 DEF Intact, Sound, Unparseable
<1>4. Cardinality(Unparseable(file)) = 0
  BY <1>3, FS_EmptySet
<1>5. readAll(file) = [i \in 1 .. Len(file) |-> file[i].parsed[1]]
  BY <1>1, <1>4 DEF readAll
<1>6. readAll(file) = [i \in 1 .. Len(file) |-> readAll(file)[i]]
  BY <1>5
<1>7. readAllSucceeds(file)
  BY <1>2, <1>3 DEF readAllSucceeds, Intact, Sound
<1> QED
  BY <1>1, <1>5, <1>6, <1>7, FunctionIsSequence

\* A torn last line is dropped.
LEMMA ReadTorn ==
  ASSUME NEW file, IsSequence(file), TornLast(file)
  PROVE  /\ readAllSucceeds(file) /\ IsSequence(readAll(file))
         /\ Len(readAll(file)) = Len(file) - 1
         /\ \A i \in 1 .. Len(file) - 1 : readAll(file)[i] = file[i].parsed[1]
<1>1. Len(file) \in Nat \ {0}
  BY LenProperties DEF IsSequence, TornLast
<1>2. DOMAIN file = 1 .. Len(file)
  BY LenProperties DEF IsSequence
<1>3. \A i \in 1 .. Len(file) : i # Len(file) => i \in 1 .. Len(file) - 1
  BY <1>1
<1>4. Unparseable(file) = {Len(file)}
  <2>1. \A i \in 1 .. Len(file) : file[i].parsed = <<>> <=> i = Len(file)
    BY <1>3 DEF TornLast, Sound
  <2>2. Len(file) \in 1 .. Len(file)
    BY <1>1
  <2> QED
    BY <1>2, <2>1, <2>2 DEF Unparseable
<1>5. Cardinality(Unparseable(file)) = 1
  BY <1>4, FS_Singleton
<1> DEFINE n == Len(file) - 1
<1>6. n \in Nat
  BY <1>1
<1>7. readAll(file) = [i \in 1 .. n |-> file[i].parsed[1]]
  BY <1>1, <1>5 DEF readAll
<1>8. readAll(file) = [i \in 1 .. n |-> readAll(file)[i]]
  BY <1>7
<1>9. readAllSucceeds(file)
  BY <1>2, <1>4, <1>3 DEF readAllSucceeds, TornLast, Sound
<1> HIDE DEF n
<1>10. /\ IsSequence(readAll(file)) /\ Len(readAll(file)) = n
       /\ \A i \in 1 .. n : readAll(file)[i] = file[i].parsed[1]
  BY <1>6, <1>7, <1>8, FunctionIsSequence
<1> QED
  BY <1>9, <1>10 DEF n

\* A line that does not parse before the last one makes the journal unreadable.
LEMMA ReadBroken ==
  ASSUME NEW file, IsSequence(file), Broken(file)
  PROVE  ~readAllSucceeds(file)
<1>1. Len(file) \in Nat
  BY LenProperties DEF IsSequence
<1>2. DOMAIN file = 1 .. Len(file)
  BY LenProperties DEF IsSequence
<1>3. PICK i \in 1 .. Len(file) - 1 : file[i].parsed = <<>>
  BY DEF Broken
<1>4. i \in 1 .. Len(file) /\ i # Len(file)
  BY <1>1
<1>5. i \in Unparseable(file)
  BY <1>2, <1>3, <1>4 DEF Unparseable
<1> QED
  BY <1>4, <1>5 DEF readAllSucceeds

\* No append repairs a broken journal.
LEMMA BrokenStays ==
  ASSUME NEW file, NEW rec, NEW part \in Parts, NEW new,
         IsSequence(file), new = appendFile(file, rec, part), Broken(file)
  PROVE  Broken(new)
<1>1. Len(file) \in Nat
  BY LenProperties DEF IsSequence
<1>2. PICK i \in 1 .. Len(file) - 1 : file[i].parsed = <<>>
  BY DEF Broken
<1>3. i \in 1 .. Len(file) /\ i \in 1 .. Len(file) + 1 - 1
  BY <1>1
<1>4. \/ new = file
      \/ Glued(file, part, new)
      \/ Grown(file, rec, part, new)
  BY AppendShape
<1>5. new[i] = file[i] /\ i \in 1 .. Len(new) - 1
  BY <1>1, <1>3, <1>4 DEF Glued, Grown
<1> QED
  BY <1>2, <1>5 DEF Broken

\* A torn or broken journal has a line that does not parse.
LEMMA NotIntact ==
  ASSUME NEW f, IsSequence(f), Broken(f) \/ TornLast(f)
  PROVE  ~Intact(f)
<1>1. Len(f) \in Nat
  BY LenProperties DEF IsSequence
<1>2. CASE Broken(f)
  <2>1. PICK i \in 1 .. Len(f) - 1 : f[i].parsed = <<>>
    BY <1>2 DEF Broken
  <2>2. i \in 1 .. Len(f)
    BY <1>1
  <2> QED
    BY <2>1, <2>2 DEF Intact, Sound
<1>3. CASE TornLast(f)
  <2>1. Len(f) \in 1 .. Len(f)
    BY <1>1, <1>3 DEF TornLast
  <2> QED
    BY <1>3, <2>1 DEF TornLast, Intact, Sound
<1> QED
  BY <1>2, <1>3

\* A line glued to the last one tears an intact or torn journal.
LEMMA GluedIsTorn ==
  ASSUME NEW f, NEW part, NEW new, IsSequence(f), Glued(f, part, new),
         Intact(f) \/ TornLast(f)
  PROVE  /\ TornLast(new) /\ Len(new) = Len(f) /\ Len(f) \in Nat \ {0}
         /\ \A i \in 1 .. Len(f) - 1 : new[i] = f[i]
         /\ Unterminated(new) => part # "line"
<1>1. Len(f) \in Nat \ {0}
  BY EmptySeq DEF IsSequence, Glued, Unterminated
<1>2. \A i \in 1 .. Len(f) - 1 : i \in 1 .. Len(f)
  BY <1>1
<1>3. \A i \in 1 .. Len(f) - 1 : Sound(f, i)
  BY <1>2 DEF Intact, TornLast
<1>4. \A i \in 1 .. Len(f) - 1 : new[i] = f[i]
  BY DEF Glued
<1>5. \A i \in 1 .. Len(f) - 1 : Sound(new, i)
  BY <1>3, <1>4 DEF Sound
<1>6. TornLast(new)
  BY <1>1, <1>5 DEF Glued, TornLast
<1>7. Unterminated(new) => part # "line"
  BY DEF Glued, Unterminated
<1> QED
  BY <1>1, <1>4, <1>6, <1>7 DEF Glued

\* A line of its own extends an intact journal and breaks a torn one.
LEMMA GrownIs ==
  ASSUME NEW f, NEW rec, NEW part, NEW new, IsSequence(f), Grown(f, rec, part, new)
  PROVE  /\ Len(f) \in Nat /\ Len(new) = Len(f) + 1
         /\ \A i \in 1 .. Len(f) : new[i] = f[i]
         /\ part = "line" \/ Unterminated(new)
         /\ TornLast(f) => Broken(new)
         /\ Intact(f) /\ part = "torn" => TornLast(new)
         /\ Intact(f) /\ part # "torn" /\ rec.seq = Len(f)
              => Intact(new) /\ new[Len(new)].parsed[1] = rec
<1>1. Len(f) \in Nat /\ Len(new) = Len(f) + 1
  BY LenProperties DEF IsSequence, Grown
<1>2. \A i \in 1 .. Len(f) : new[i] = f[i]
  BY DEF Grown
<1>3. part = "line" \/ Unterminated(new)
  <2>1. new # <<>>
    BY <1>1
  <2> QED
    BY <2>1 DEF Grown, Unterminated
<1>4. ASSUME TornLast(f) PROVE Broken(new)
  <2>1. Len(f) \in 1 .. Len(f) /\ Len(f) \in 1 .. Len(new) - 1
    BY <1>1, <1>4 DEF TornLast
  <2> QED
    BY <1>2, <1>4, <2>1 DEF TornLast, Broken
<1>5. ASSUME Intact(f) PROVE \A i \in 1 .. Len(f) : Sound(new, i)
  BY <1>2, <1>5 DEF Intact, Sound
<1>6. ASSUME Intact(f), part = "torn" PROVE TornLast(new)
  <2>1. Len(new) > 0 /\ Len(new) - 1 = Len(f)
    BY <1>1
  <2>2. new[Len(new)].parsed = <<>>
    BY <1>6 DEF Grown
  <2> QED
    BY <1>5, <1>6, <2>1, <2>2 DEF TornLast
<1>7. ASSUME Intact(f), part # "torn", rec.seq = Len(f)
      PROVE  Intact(new) /\ new[Len(new)].parsed[1] = rec
  <2>1. new[Len(new)].parsed = <<rec>>
    BY <1>7 DEF Grown
  <2>2. new[Len(new)].parsed # <<>> /\ new[Len(new)].parsed[1] = rec
    BY <2>1
  <2>3. rec.seq = Len(new) - 1
    BY <1>1, <1>7
  <2>4. Sound(new, Len(new))
    BY <2>2, <2>3 DEF Sound
  <2>5. \A i \in 1 .. Len(new) : i \in 1 .. Len(f) \/ i = Len(new)
    BY <1>1
  <2> QED
    BY <1>5, <1>7, <2>2, <2>4, <2>5 DEF Intact
<1> QED
  BY <1>1, <1>2, <1>3, <1>4, <1>6, <1>7

-----------------------------------------------------------------------------
\* A set of numbers that is not empty has a least one.
LEMMA LeastNumber ==
  ASSUME NEW S \in SUBSET Nat, S # {}
  PROVE  \E m \in S : \A k \in S : m <= k
<1>1. IsWellFoundedOn(OpToRel(<, Nat), Nat)
  BY NatLessThanWellFounded
<1>2. PICK m \in S : \A k \in S : ~(<<k, m>> \in OpToRel(<, Nat))
  BY <1>1, WFMin
<1>3. \A k \in S : ~(k < m)
  BY <1>2 DEF OpToRel
<1> QED
  BY <1>3

\* The maximum of a set of integers is the member no other exceeds.
LEMMA MaxIs ==
  ASSUME NEW s \in SUBSET Int, NEW m \in s, \A k \in s : k <= m
  PROVE  Max(s) = m
<1>1. m \in s /\ \A k \in s : m >= k
  OBVIOUS
<1>2. \A x \in s : (\A k \in s : x >= k) => x = m
  OBVIOUS
<1> QED
  BY <1>1, <1>2 DEF Max

\* What FoldLeft defines by recursion on the sets of positions.
Folded(it, n, b, T) ==
  \A s \in SUBSET (1 .. n) :
    it[s] = IF s = {} THEN b ELSE T[<<Max(s), it[s \ {Max(s)}]>>]

\* The positions of a sequence that are left have a last one.
LEMMA MaxOfPositions ==
  ASSUME NEW n \in Nat, NEW s \in SUBSET (1 .. n), s # {}
  PROVE  Max(s) \in s /\ \A k \in s : k <= Max(s)
<1>1. s \in SUBSET Int
  OBVIOUS
<1> DEFINE up == {k \in Nat : \A j \in s : j <= k}
<1>2. up \in SUBSET Nat /\ n \in up
  OBVIOUS
<1>3. PICK m \in up : \A k \in up : m <= k
  <2> HIDE DEF up
  <2> QED
    BY <1>2, LeastNumber
<1>4. m \in s
  <2> SUFFICES ASSUME m \notin s PROVE FALSE
    OBVIOUS
  <2>1. \A j \in s : j <= m - 1
    BY <1>1, <1>3
  <2>2. PICK j \in s : TRUE
    OBVIOUS
  <2>3. m - 1 \in Nat
    BY <2>1, <2>2, <1>3
  <2>4. m - 1 \in up
    BY <2>1, <2>3
  <2> QED
    BY <2>4, <1>3
<1> QED
  BY <1>1, <1>3, <1>4, MaxIs

\* There is a function that folds every set of positions from the last one down: the
\* recursion FoldLeft unfolds to has a solution, whatever the steps.
LEMMA FoldExists ==
  ASSUME NEW A, NEW b \in A, NEW n \in Nat, NEW T \in [(1 .. n) \X A -> A]
  PROVE  \E it \in [SUBSET (1 .. n) -> A] : Folded(it, n, b, T)
<1> DEFINE Good(m) == \E it \in [SUBSET (1 .. m) -> A] : Folded(it, m, b, T)
           bad == {m \in Nat : m <= n /\ ~Good(m)}
<1>1. Good(0)
  <2> DEFINE it == [s \in SUBSET (1 .. 0) |-> b]
  <2>1. it \in [SUBSET (1 .. 0) -> A]
    OBVIOUS
  <2>2. \A s \in SUBSET (1 .. 0) : s = {} /\ it[s] = b
    OBVIOUS
  <2> HIDE DEF it
  <2>3. Folded(it, 0, b, T)
    BY <2>2 DEF Folded
  <2> QED
    BY <2>1, <2>3
<1>2. ASSUME NEW m \in Nat, m + 1 <= n, Good(m) PROVE Good(m + 1)
  <2>1. PICK it \in [SUBSET (1 .. m) -> A] : Folded(it, m, b, T)
    BY <1>2
  <2> DEFINE new == [s \in SUBSET (1 .. m + 1) |->
                       IF m + 1 \in s THEN T[<<m + 1, it[s \ {m + 1}]>>] ELSE it[s]]
  <2>2. \A s \in SUBSET (1 .. m + 1) :
          /\ s \ {m + 1} \in SUBSET (1 .. m)
          /\ m + 1 \notin s => s \in SUBSET (1 .. m)
          /\ m + 1 \in s => new[s] = T[<<m + 1, it[s \ {m + 1}]>>]
          /\ m + 1 \notin s => new[s] = it[s]
          /\ new[s \ {m + 1}] = it[s \ {m + 1}]
    <3> TAKE s \in SUBSET (1 .. m + 1)
    <3>1. s \ {m + 1} \in SUBSET (1 .. m) /\ s \ {m + 1} \in SUBSET (1 .. m + 1)
          /\ m + 1 \notin s \ {m + 1}
      OBVIOUS
    <3>2. m + 1 \notin s => s \in SUBSET (1 .. m)
      BY <3>1
    <3> QED
      BY <3>1, <3>2
  <2>3. new \in [SUBSET (1 .. m + 1) -> A]
    <3>1. \A s \in SUBSET (1 .. m + 1) : new[s] \in A
      <4> TAKE s \in SUBSET (1 .. m + 1)
      <4>1. it[s \ {m + 1}] \in A /\ (m + 1 \notin s => it[s] \in A)
        BY <2>2
      <4>2. <<m + 1, it[s \ {m + 1}]>> \in (1 .. n) \X A
        BY <4>1, <1>2
      <4> HIDE DEF new
      <4> QED
        BY <4>1, <4>2, <2>2
    <3> QED
      BY <3>1
  <2> HIDE DEF new
  <2>4. Folded(new, m + 1, b, T)
    <3> SUFFICES ASSUME NEW s \in SUBSET (1 .. m + 1)
                 PROVE  new[s] = IF s = {} THEN b ELSE T[<<Max(s), new[s \ {Max(s)}]>>]
      BY DEF Folded
    <3>1. CASE m + 1 \in s
      <4>1. s \in SUBSET Int /\ \A k \in s : k <= m + 1
        OBVIOUS
      <4>2. Max(s) = m + 1
        BY <4>1, <3>1, MaxIs
      <4> QED
        BY <4>2, <3>1, <2>2
    <3>2. CASE m + 1 \notin s
      <4>1. s \in SUBSET (1 .. m) /\ new[s] = it[s]
        BY <2>2, <3>2
      <4>2. it[s] = IF s = {} THEN b ELSE T[<<Max(s), it[s \ {Max(s)}]>>]
        BY <4>1, <2>1 DEF Folded
      <4>3. s \ {Max(s)} \in SUBSET (1 .. m + 1) /\ m + 1 \notin s \ {Max(s)}
        BY <3>2
      <4>4. new[s \ {Max(s)}] = it[s \ {Max(s)}]
        BY <4>3, <2>2
      <4> QED
        BY <4>1, <4>2, <4>4
    <3> QED
      BY <3>1, <3>2
  <2> QED
    BY <2>3, <2>4
<1> HIDE DEF Good
<1>3. bad \in SUBSET Nat
  OBVIOUS
<1>4. bad = {}
  <2> SUFFICES ASSUME bad # {} PROVE FALSE
    OBVIOUS
  <2>1. PICK m \in bad : \A k \in bad : m <= k
    <3> HIDE DEF bad
    <3> QED
      BY <1>3, LeastNumber
  <2>2. m \in Nat /\ m <= n /\ ~Good(m) /\ m # 0
    BY <2>1, <1>1
  <2>3. m - 1 \in Nat /\ m - 1 < m
    BY <2>2
  <2>4. Good(m - 1)
    BY <2>1, <2>2, <2>3
  <2>5. Good((m - 1) + 1)
    BY <1>2, <2>2, <2>3, <2>4
  <2>6. (m - 1) + 1 = m
    BY <2>2
  <2> QED
    BY <2>2, <2>5, <2>6
<1>5. Good(n)
  BY <1>4
<1> QED
  BY <1>5 DEF Good

(* Set sums. *)
Summed(it, f, S) ==
  \A s \in SUBSET S :
    it[s] = IF s = {} THEN 0
            ELSE f[CHOOSE x \in s : TRUE] + it[s \ {CHOOSE x \in s : TRUE}]

Small(S, m) == {s \in SUBSET S : Cardinality(s) <= m}

\* The recursion a sum over a finite set unfolds to has a solution.
LEMMA SumExists ==
  ASSUME NEW S, IsFiniteSet(S), NEW f, \A x \in S : f[x] \in Int
  PROVE  \E it \in [SUBSET S -> Int] : Summed(it, f, S)
<1> DEFINE c(s) == CHOOSE x \in s : TRUE
           Good(m) == \E it \in [Small(S, m) -> Int] :
                        \A s \in Small(S, m) :
                          it[s] = IF s = {} THEN 0 ELSE f[c(s)] + it[s \ {c(s)}]
           bad == {m \in Nat : ~Good(m)}
<1>1. \A s \in SUBSET S : IsFiniteSet(s) /\ Cardinality(s) \in Nat
  BY FS_Subset, FS_CardinalityType
<1>2. \A s \in SUBSET S : s # {} => /\ c(s) \in s /\ c(s) \in S
                                   /\ s \ {c(s)} \in SUBSET S
                                   /\ Cardinality(s \ {c(s)}) = Cardinality(s) - 1
  BY <1>1, FS_RemoveElement
<1>3. \A s \in SUBSET S : Cardinality(s) <= 0 <=> s = {}
  BY <1>1, FS_EmptySet
<1> HIDE DEF c
<1>4. Good(0)
  <2> DEFINE it == [s \in Small(S, 0) |-> 0]
  <2>1. it \in [Small(S, 0) -> Int] /\ \A s \in Small(S, 0) : s = {} /\ it[s] = 0
    BY <1>3 DEF Small
  <2> HIDE DEF it
  <2> QED
    BY <2>1
<1>5. ASSUME NEW m \in Nat, Good(m) PROVE Good(m + 1)
  <2>1. PICK it \in [Small(S, m) -> Int] :
          \A s \in Small(S, m) : it[s] = IF s = {} THEN 0 ELSE f[c(s)] + it[s \ {c(s)}]
    BY <1>5
  <2> DEFINE new == [s \in Small(S, m + 1) |->
                       IF s = {} THEN 0 ELSE f[c(s)] + it[s \ {c(s)}]]
  <2>2. \A s \in Small(S, m + 1) : s # {} => s \ {c(s)} \in Small(S, m) /\ c(s) \in S
    BY <1>1, <1>2 DEF Small
  <2>3. Small(S, m) \subseteq Small(S, m + 1)
    BY <1>1 DEF Small
  <2>4. new \in [Small(S, m + 1) -> Int]
    BY <2>2
  <2>5. \A s \in Small(S, m) : new[s] = it[s]
    BY <2>1, <2>3
  <2>6. \A s \in Small(S, m + 1) : new[s] = IF s = {} THEN 0 ELSE f[c(s)] + it[s \ {c(s)}]
    OBVIOUS
  <2> HIDE DEF new
  <2>7. \A s \in Small(S, m + 1) :
          new[s] = IF s = {} THEN 0 ELSE f[c(s)] + new[s \ {c(s)}]
    BY <2>2, <2>5, <2>6
  <2> QED
    BY <2>4, <2>7
<1> HIDE DEF Good
<1>6. bad \in SUBSET Nat
  OBVIOUS
<1>7. bad = {}
  <2> SUFFICES ASSUME bad # {} PROVE FALSE
    OBVIOUS
  <2>1. PICK m \in bad : \A k \in bad : m <= k
    <3> HIDE DEF bad
    <3> QED
      BY <1>6, LeastNumber
  <2>2. m \in Nat /\ ~Good(m) /\ m # 0
    BY <2>1, <1>4
  <2>3. m - 1 \in Nat /\ m - 1 < m /\ (m - 1) + 1 = m
    BY <2>2
  <2>4. Good(m - 1)
    BY <2>1, <2>2, <2>3
  <2> QED
    BY <1>5, <2>2, <2>3, <2>4
<1>8. Cardinality(S) \in Nat
  BY FS_CardinalityType
<1>9. Good(Cardinality(S))
  BY <1>7, <1>8
<1>10. Small(S, Cardinality(S)) = SUBSET S
  BY FS_Subset DEF Small
<1> QED
  BY <1>9, <1>10 DEF Good, Summed, c

\* Whichever element is taken first.
AnyFirst(it, f, S) == \A s \in SUBSET S : \A x \in s : it[s] = f[x] + it[s \ {x}]

\* In a sum over a finite set any element may be taken first, not only the chosen one.
LEMMA SumAny ==
  ASSUME NEW S, IsFiniteSet(S), NEW f, \A x \in S : f[x] \in Int,
         NEW it \in [SUBSET S -> Int], Summed(it, f, S)
  PROVE  AnyFirst(it, f, S)
<1> DEFINE c(s) == CHOOSE x \in s : TRUE
           AnyTaken(s) == \A x \in s : it[s] = f[x] + it[s \ {x}]
           bad == {n \in Nat : \E s \in SUBSET S : Cardinality(s) = n /\ ~AnyTaken(s)}
<1>1. \A s \in SUBSET S : IsFiniteSet(s) /\ Cardinality(s) \in Nat
  BY FS_Subset, FS_CardinalityType
<1>2. \A s \in SUBSET S : s # {} => c(s) \in s /\ it[s] = f[c(s)] + it[s \ {c(s)}]
  BY DEF Summed
<1>3. \A s \in SUBSET S : \A x \in s : /\ s \ {x} \in SUBSET S
                                     /\ Cardinality(s \ {x}) = Cardinality(s) - 1
  BY <1>1, FS_RemoveElement
<1> HIDE DEF c
<1>4. bad \in SUBSET Nat
  OBVIOUS
<1>5. ASSUME bad # {} PROVE FALSE
  <2>1. PICK n \in bad : \A k \in bad : n <= k
    <3> HIDE DEF bad
    <3> QED
      BY <1>4, <1>5, LeastNumber
  <2>2. PICK s \in SUBSET S : Cardinality(s) = n /\ ~AnyTaken(s)
    BY <2>1
  <2>3. PICK x \in s : it[s] # f[x] + it[s \ {x}]
    BY <2>2
  <2> DEFINE y == c(s)
  <2>4. y \in s /\ it[s] = f[y] + it[s \ {y}] /\ x # y
    BY <1>2, <2>3
  <2> HIDE DEF y
  <2>5. \A z \in s : s \ {z} \in SUBSET S /\ AnyTaken(s \ {z})
    <3> TAKE z \in s
    <3>1. s \ {z} \in SUBSET S /\ Cardinality(s \ {z}) \in Nat /\ Cardinality(s \ {z}) < n
      BY <1>1, <1>3, <2>2
    <3>2. Cardinality(s \ {z}) \notin bad
      <4> HIDE DEF bad
      <4>1. n \in Nat
        BY <1>4, <2>1
      <4> QED
        BY <2>1, <3>1, <4>1
    <3> QED
      BY <3>1, <3>2
  <2>6. it[s \ {y}] = f[x] + it[(s \ {y}) \ {x}]
    BY <2>3, <2>4, <2>5
  <2>7. it[s \ {x}] = f[y] + it[(s \ {x}) \ {y}]
    BY <2>3, <2>4, <2>5
  <2>8. (s \ {x}) \ {y} = (s \ {y}) \ {x} /\ (s \ {x}) \ {y} \in SUBSET S
    OBVIOUS
  <2>9. f[x] \in Int /\ f[y] \in Int /\ it[(s \ {y}) \ {x}] \in Int
    BY <2>4, <2>8
  <2>10. it[(s \ {x}) \ {y}] = it[(s \ {y}) \ {x}]
    BY <2>8
  <2> DEFINE z == it[(s \ {y}) \ {x}]
  <2>11. it[s] = f[y] + (f[x] + z) /\ it[s \ {x}] = f[y] + z /\ z \in Int
    BY <2>4, <2>6, <2>7, <2>9, <2>10
  <2> HIDE DEF z
  <2>12. it[s] = f[x] + it[s \ {x}]
    BY <2>9, <2>11
  <2> QED
    BY <2>3, <2>12
<1>6. \A s \in SUBSET S : AnyTaken(s)
  BY <1>1, <1>5
<1> QED
  BY <1>6 DEF AnyFirst

\* Sums of what agrees are equal.
LEMMA SumAgrees ==
  ASSUME NEW S, NEW R, NEW V \in SUBSET S, V \in SUBSET R, IsFiniteSet(V),
         NEW f, NEW g, \A x \in V : f[x] = g[x],
         NEW it, Summed(it, f, S), NEW jt, Summed(jt, g, R)
  PROVE  it[V] = jt[V]
<1> DEFINE c(s) == CHOOSE x \in s : TRUE
           bad == {n \in Nat : \E s \in SUBSET V : Cardinality(s) = n /\ it[s] # jt[s]}
<1>1. \A s \in SUBSET V : IsFiniteSet(s) /\ Cardinality(s) \in Nat
  BY FS_Subset, FS_CardinalityType
<1>2. \A s \in SUBSET V : /\ s = {} => it[s] = 0 /\ jt[s] = 0
                         /\ s # {} => /\ c(s) \in s
                                      /\ it[s] = f[c(s)] + it[s \ {c(s)}]
                                      /\ jt[s] = g[c(s)] + jt[s \ {c(s)}]
  BY DEF Summed
<1>3. \A s \in SUBSET V : \A x \in s : /\ s \ {x} \in SUBSET V
                                     /\ Cardinality(s \ {x}) = Cardinality(s) - 1
  BY <1>1, FS_RemoveElement
<1> HIDE DEF c
<1>4. bad \in SUBSET Nat
  OBVIOUS
<1>5. ASSUME bad # {} PROVE FALSE
  <2>1. PICK n \in bad : \A k \in bad : n <= k
    <3> HIDE DEF bad
    <3> QED
      BY <1>4, <1>5, LeastNumber
  <2>2. PICK s \in SUBSET V : Cardinality(s) = n /\ it[s] # jt[s]
    BY <2>1
  <2>3. s # {} /\ c(s) \in s
    <3>1. it[{}] = 0 /\ jt[{}] = 0
      BY DEF Summed
    <3>2. s # {}
      BY <2>2, <3>1
    <3> QED
      BY <1>2, <3>2
  <2> DEFINE u == s \ {c(s)}
  <2>4. u \in SUBSET V /\ Cardinality(u) \in Nat /\ Cardinality(u) < n
    BY <1>1, <1>3, <2>2, <2>3
  <2>5. it[u] = jt[u]
    BY <2>1, <2>4
  <2>6. f[c(s)] = g[c(s)]
    BY <2>3
  <2> QED
    BY <1>2, <2>2, <2>3, <2>5, <2>6
<1> QED
  BY <1>1, <1>5

\* The sum of f over a finite set.
SumOf(f, S) == (CHOOSE it \in [SUBSET S -> Int] : Summed(it, f, S))[S]

\* SumOf is the value of a function that satisfies the recursion.
LEMMA SumIs ==
  ASSUME NEW S, IsFiniteSet(S), NEW f, \A x \in S : f[x] \in Int
  PROVE  \E it \in [SUBSET S -> Int] : Summed(it, f, S) /\ SumOf(f, S) = it[S]
<1> DEFINE it == CHOOSE it \in [SUBSET S -> Int] : Summed(it, f, S)
<1>1. it \in [SUBSET S -> Int] /\ Summed(it, f, S)
  BY SumExists
<1> QED
  BY <1>1 DEF SumOf

\* What a sum over a finite set is: an integer, zero over nothing, the same for equal
\* summands, and any summand plus the sum of the others.
LEMMA SumFacts ==
  ASSUME NEW S, IsFiniteSet(S), NEW f, \A x \in S : f[x] \in Int
  PROVE  /\ SumOf(f, S) \in Int
         /\ S = {} => SumOf(f, S) = 0
         /\ \A g : (\A x \in S : g[x] = f[x]) => SumOf(g, S) = SumOf(f, S)
         /\ \A y \in S : SumOf(f, S) = f[y] + SumOf(f, S \ {y})
<1>1. PICK it \in [SUBSET S -> Int] : Summed(it, f, S) /\ SumOf(f, S) = it[S]
  BY SumIs
<1>2. SumOf(f, S) \in Int /\ (S = {} => SumOf(f, S) = 0)
  BY <1>1 DEF Summed
<1>3. ASSUME NEW g, \A x \in S : g[x] = f[x] PROVE SumOf(g, S) = SumOf(f, S)
  <2>1. PICK jt \in [SUBSET S -> Int] : Summed(jt, g, S) /\ SumOf(g, S) = jt[S]
    BY <1>3, SumIs
  <2> QED
    BY <1>1, <1>3, <2>1, SumAgrees
<1>4. ASSUME NEW y \in S PROVE SumOf(f, S) = f[y] + SumOf(f, S \ {y})
  <2>1. IsFiniteSet(S \ {y}) /\ S \ {y} \in SUBSET S
    BY FS_Subset
  <2>2. PICK jt \in [SUBSET (S \ {y}) -> Int] :
          Summed(jt, f, S \ {y}) /\ SumOf(f, S \ {y}) = jt[S \ {y}]
    BY <2>1, SumIs
  <2>3. it[S \ {y}] = jt[S \ {y}]
    BY <1>1, <2>1, <2>2, SumAgrees
  <2>4. it[S] = f[y] + it[S \ {y}]
    <3>1. Summed(it, f, S) /\ it \in [SUBSET S -> Int] /\ IsFiniteSet(S)
          /\ \A x \in S : f[x] \in Int
      BY <1>1
    <3>2. AnyFirst(it, f, S)
      BY <3>1, SumAny, Zenon
    <3>3. S \in SUBSET S /\ y \in S
      OBVIOUS
    <3> QED
      BY <3>2, <3>3 DEF AnyFirst
  <2> QED
    BY <1>1, <2>2, <2>3, <2>4
<1> QED
  BY <1>2, <1>3, <1>4

\* Changing one summand.
LEMMA SumMoves ==
  ASSUME NEW S, IsFiniteSet(S), NEW f, \A x \in S : f[x] \in Int, NEW y \in S,
         NEW g, \A x \in S \ {y} : g[x] = f[x], g[y] \in Int
  PROVE  SumOf(g, S) = SumOf(f, S) - f[y] + g[y]
<1> DEFINE R == S \ {y}
<1>1. IsFiniteSet(R) /\ R \in SUBSET S
  BY FS_Subset
<1>2. \A x \in S : g[x] \in Int
  OBVIOUS
<1>3. SumOf(f, S) = f[y] + SumOf(f, R) /\ SumOf(g, S) = g[y] + SumOf(g, R)
  BY <1>2, SumFacts
<1>4. SumOf(g, R) = SumOf(f, R) /\ SumOf(f, R) \in Int
  BY <1>1, SumFacts
<1> QED
  BY <1>3, <1>4

\* A run of n steps through A that starts with b.
IsRun(c, n, A, b, T) ==
  /\ c \in [0 .. n -> A] /\ c[0] = b
  /\ \A i \in 1 .. n : c[i] = T[<<i, c[i - 1]>>]

\* T takes n steps in A from b; g satisfies the recursion of FoldLeft.
StepsIn(A, n, b, T) == n \in Nat /\ b \in A /\ T \in [(1 .. n) \X A -> A]
Recurses(g, n, A, b, T) ==
  /\ g[{}] = b
  /\ \A s \in SUBSET (1 .. n) : s # {} /\ g[s \ {Max(s)}] \in A
                                => g[s] = T[<<Max(s), g[s \ {Max(s)}]>>]

\* A fold over a sequence is the last value of a run that takes one step per entry.
LEMMA FoldRuns ==
  ASSUME NEW A, NEW n, NEW b, NEW T, StepsIn(A, n, b, T), NEW g, Recurses(g, n, A, b, T)
  PROVE  \E c : IsRun(c, n, A, b, T) /\ c[n] = g[1 .. n]
<1>0. n \in Nat /\ b \in A /\ T \in [(1 .. n) \X A -> A] /\ g[{}] = b
  BY DEF StepsIn, Recurses
<1> DEFINE c == [i \in 0 .. n |-> g[1 .. i]]
           bad == {i \in Nat : i <= n /\ c[i] \notin A}
<1>1. \A i \in 0 .. n : c[i] = g[1 .. i]
  OBVIOUS
<1>2. c[0] = b
  <2>1. 1 .. 0 = {} /\ 0 \in 0 .. n
    BY <1>0
  <2> QED
    BY <1>0, <2>1
<1>3. ASSUME NEW i \in 1 .. n, c[i - 1] \in A
      PROVE  c[i] \in A /\ c[i] = T[<<i, c[i - 1]>>]
  <2>1. 1 .. i \in SUBSET (1 .. n) /\ 1 .. i # {} /\ 1 .. i \in SUBSET Int
        /\ i \in 1 .. i /\ \A k \in 1 .. i : k <= i
    BY <1>0
  <2>2. Max(1 .. i) = i
    BY <2>1, MaxIs
  <2>3. (1 .. i) \ {i} = 1 .. (i - 1) /\ i - 1 \in 0 .. n /\ i \in 0 .. n
    BY <1>0
  <2>4. g[1 .. (i - 1)] = c[i - 1] /\ g[1 .. i] = c[i]
    BY <1>1, <2>3
  <2> HIDE DEF c
  <2>5. c[i] = T[<<i, c[i - 1]>>]
    BY <1>3, <2>1, <2>2, <2>3, <2>4 DEF Recurses
  <2>6. <<i, c[i - 1]>> \in (1 .. n) \X A
    BY <1>3
  <2> QED
    BY <1>0, <2>5, <2>6
<1> HIDE DEF c
<1>4. bad \in SUBSET Nat
  OBVIOUS
<1>5. bad = {}
  <2> SUFFICES ASSUME bad # {} PROVE FALSE
    OBVIOUS
  <2>1. PICK m \in bad : \A k \in bad : m <= k
    <3> HIDE DEF bad
    <3> QED
      BY <1>4, LeastNumber
  <2>2. m \in 1 .. n /\ m - 1 \in Nat /\ m - 1 < m /\ m - 1 <= n
    BY <2>1, <1>0, <1>2
  <2>3. c[m - 1] \in A
    BY <2>1, <2>2
  <2> QED
    BY <1>3, <2>1, <2>2, <2>3
<1>6. \A i \in 0 .. n : c[i] \in A
  BY <1>0, <1>5
<1>7. \A i \in 1 .. n : i - 1 \in 0 .. n
  BY <1>0
<1>8. c \in [0 .. n -> A]
  BY <1>6 DEF c
<1>9. IsRun(c, n, A, b, T)
  BY <1>2, <1>3, <1>6, <1>7, <1>8 DEF IsRun
<1>10. n \in 0 .. n
  BY <1>0
<1> QED
  BY <1>1, <1>9, <1>10

\* Two runs with the same steps are the same.
SameSteps(T, U, A, m, n) ==
  /\ m \in Nat /\ n \in Nat /\ m <= n
  /\ \A i \in 1 .. m : \A a \in A : T[<<i, a>>] = U[<<i, a>>]

\* Two runs that take the same steps from the same value agree as far as both go.
LEMMA RunIsUnique ==
  ASSUME NEW A, NEW b, NEW m, NEW n, NEW T, NEW U, SameSteps(T, U, A, m, n),
         NEW c, IsRun(c, m, A, b, T), NEW d, IsRun(d, n, A, b, U)
  PROVE  \A i \in 0 .. m : c[i] = d[i]
<1>0. m \in Nat /\ n \in Nat /\ m <= n
  BY DEF SameSteps
<1> DEFINE bad == {i \in Nat : i <= m /\ c[i] # d[i]}
<1>1. bad \in SUBSET Nat
  OBVIOUS
<1>2. ASSUME bad # {} PROVE FALSE
  <2>1. PICK k \in bad : \A j \in bad : k <= j
    <3> HIDE DEF bad
    <3> QED
      BY <1>1, <1>2, LeastNumber
  <2>2. k \in 1 .. m /\ k \in 1 .. n /\ k - 1 \in 0 .. m /\ k - 1 < k
    BY <1>0, <2>1 DEF IsRun
  <2>3. c[k - 1] = d[k - 1] /\ c[k - 1] \in A
    BY <2>1, <2>2 DEF IsRun
  <2>4. c[k] = d[k]
    BY <2>2, <2>3 DEF IsRun, SameSteps
  <2> QED
    BY <2>1, <2>4
<1> QED
  BY <1>0, <1>2

=============================================================================

----------------------------- MODULE JournalFile -----------------------------
(***************************************************************************)
(* The JSON-lines journal both durable stores share (FileRiskEventStore    *)
(* and FileMarketEventStore): appendFile of one line per record, readAll   *)
(* at boot.  A file is the sequence of its lines.  A line holds the record *)
(* it parses to, if it parses, and whether it ends with a newline.         *)
(*                                                                         *)
(* An append that is rejected, or cut short by a crash, leaves a prefix of *)
(* its line: nothing, a piece that does not parse ("torn"), or everything  *)
(* but the newline ("whole").  Neither store ever truncates the file, so   *)
(* whatever is appended next continues an unterminated line.               *)
(***************************************************************************)
EXTENDS Naturals, Sequences, FiniteSets

\* How much of the line reached the file.
Parts == {"none", "torn", "whole", "line"}

Unterminated(file) == file # <<>> /\ ~file[Len(file)].nl

appendFile(file, rec, part) ==
  LET text == [parsed |-> IF part = "torn" \/ Unterminated(file) THEN <<>>
                          ELSE <<rec>>,
               nl |-> part = "line"]
  IN IF part = "none" THEN file
     ELSE IF Unterminated(file) THEN [file EXCEPT ![Len(file)] = text]
     ELSE Append(file, text)

Unparseable(file) == {i \in DOMAIN file : file[i].parsed = <<>>}

\* readAll rejects a line that does not parse unless it is the last one, and a
\* record whose seq is not its position.
readAllSucceeds(file) ==
  /\ Unparseable(file) \subseteq {Len(file)}
  /\ \A i \in DOMAIN file \ Unparseable(file) : file[i].parsed[1].seq = i - 1

\* The records readAll returns when it succeeds: a last line that does not parse
\* is taken for a torn write and dropped.
readAll(file) ==
  [i \in 1 .. Len(file) - Cardinality(Unparseable(file)) |-> file[i].parsed[1]]

=============================================================================

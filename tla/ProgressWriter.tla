---------------------------- MODULE ProgressWriter ----------------------------
(***************************************************************************)
(* main.go: rsyncProgressWriter takes rsync's output as it comes out of    *)
(* the pipe, cut anywhere, and applies each field that whitespace ends to  *)
(* the sync, under the lock the worker's updates read it with.             *)
(* What rsync prints is a sequence of words, each known with the field it  *)
(* is meant for and its value: the reference the parser is checked with.   *)
(***************************************************************************)
EXTENDS Integers, Sequences, SequencesExt, TLC

CONSTANTS Words,        \* rsync's words: [text, field, value]
          Ignored,      \* the field of a word that says nothing
          MaxWords,
          MaxToken,     \* maxScannerTokenSize
          MaxUint

VARIABLES words,        \* all that rsync prints
          word, col,    \* the word Write is at, and how much of it is behind
          writing,      \* whether a Write is under way
          pending, discarding,
          sync          \* currentSync

writerVars == <<words, word, col, writing, pending, discarding, sync>>

Space == " "

NoSync == [Progress |-> 0, Speed |-> 0, TimeLeft |-> <<>>, Downloaded |-> 0]
Number == {"Progress", "Speed", "Downloaded"}

WriterTypeOK ==
  /\ word \in 1..(Len(words) + 1) /\ col \in Nat
  /\ Len(pending) <= MaxToken
  /\ discarding \in BOOLEAN /\ writing \in BOOLEAN
  /\ \A f \in Number : sync[f] \in 0..MaxUint

WriterInit ==
  /\ words \in SeqOf(Words, MaxWords)
  /\ word = 1 /\ col = 0 /\ writing = FALSE
  /\ pending = <<>> /\ discarding = FALSE
  /\ sync = NoSync

-----------------------------------------------------------------------------
Digit == {ToString(i) : i \in 0..9}
Err == -1

Decimal(t) ==
  LET val[n \in 0..Len(t)] ==
        IF n = 0 THEN 0
        ELSE 10 * val[n - 1] + (CHOOSE i \in 0..9 : ToString(i) = t[n])
  IN  val[Len(t)]

ParseUint(t) ==
  IF t = <<>> \/ ~(ToSet(t) \subseteq Digit) THEN Err
  ELSE IF Decimal(t) > MaxUint THEN Err ELSE Decimal(t)

(* A number and perhaps a unit.                                            *)
FromHumanSize(t) ==
  IF t # <<>> /\ Last(t) = "k"
  THEN LET v == ParseUint(Front(t)) IN IF v = Err THEN Err ELSE 1000 * v
  ELSE ParseUint(t)

isDigitsAndCommas(t, allowCommas) ==
  ToSet(t) \subseteq Digit \cup (IF allowCommas THEN {","} ELSE {})

isRsyncDuration(t) ==
  \E i, j \in DOMAIN t :
    /\ 1 < i /\ i + 1 < j /\ j < Len(t)
    /\ t[i] = ":" /\ t[j] = ":"
    /\ \A n \in DOMAIN t \ {i, j} : isDigitsAndCommas(<<t[n]>>, FALSE)

isRsyncByteCount(t) == t # <<>> /\ isDigitsAndCommas(t, TRUE)

(* A token says a field's value; a number that cannot be read says nothing.*)
Says(field, v) == [field |-> IF v = Err THEN Ignored ELSE field, value |-> v]

HasSuffix(t, s) == Len(t) >= Len(s) /\ SubSeq(t, Len(t) - Len(s) + 1, Len(t)) = s

TrimSuffix(t, s) == SubSeq(t, 1, Len(t) - Len(s))

parseRsyncProgressToken(t) ==
  CASE HasSuffix(t, <<"%">>) -> Says("Progress", ParseUint(TrimSuffix(t, <<"%">>)))
    [] HasSuffix(t, <<"/", "s">>) ->
         Says("Speed", FromHumanSize(TrimSuffix(t, <<"/", "s">>)))
    [] isRsyncDuration(t) -> [field |-> "TimeLeft", value |-> t]
    [] isRsyncByteCount(t) ->
         Says("Downloaded", ParseUint(SelectSeq(t, LAMBDA c : c # ",")))
    [] OTHER -> [field |-> Ignored, value |-> t]

Store(token) ==
  IF token.field = Ignored THEN sync ELSE [sync EXCEPT ![token.field] = token.value]

(* Words are known for what the parser takes them for.                     *)
Read(w) ==
  LET token == parseRsyncProgressToken(w.text) IN
  token.field = w.field /\ (w.field # Ignored => token.value = w.value)

ASSUME WriterAssumption ==
  /\ {MaxWords, MaxToken, MaxUint} \subseteq Nat
  /\ Ignored \notin DOMAIN NoSync
  /\ \A w \in Words :
       /\ w.text \in Seq(ToSet(w.text)) /\ w.text # <<>> /\ Space \notin ToSet(w.text)
       /\ Len(w.text) <= MaxToken => Read(w)
       /\ w.field \in Number => w.value \in 0..MaxUint

-----------------------------------------------------------------------------
Printed == word <= Len(words)
Text == words[word].text

(* A word's bytes, and the whitespace after it.                            *)
char == IF col < Len(Text) THEN Text[col + 1] ELSE Space

NextChar ==
  IF col < Len(Text) THEN col' = col + 1 /\ word' = word ELSE col' = 0 /\ word' = word + 1

(* rsync's output reaches the writer in pieces that begin and end anywhere.*)
(* Mutant: a Write begins with an empty buffer.                            *)
WriteMutant ==
  /\ ~writing /\ Printed /\ writing' = TRUE /\ pending' = <<>>
  /\ UNCHANGED <<words, word, col, discarding, sync>>

Write ==
  /\ ~writing /\ Printed /\ writing' = TRUE
  /\ UNCHANGED <<words, word, col, pending, discarding, sync>>

WriteReturns ==
  /\ writing /\ writing' = FALSE
  /\ UNCHANGED <<words, word, col, pending, discarding, sync>>

applyPending ==
  /\ pending' = <<>>
  /\ sync' = IF pending = <<>> THEN sync ELSE Store(parseRsyncProgressToken(pending))

(* Mutant: off by one.                                                     *)
TooLargeMutant == Len(pending) > MaxToken

TooLarge == Len(pending) >= MaxToken

(* One turn of the loop over the bytes.                                    *)
WriteChar ==
  /\ writing /\ Printed /\ NextChar
  /\ \/ char = Space /\ applyPending /\ discarding' = FALSE
     \/ char # Space /\ discarding /\ UNCHANGED <<pending, discarding, sync>>
     \/ /\ char # Space /\ ~discarding /\ TooLarge
        /\ pending' = <<>> /\ discarding' = TRUE /\ UNCHANGED sync
     \/ /\ char # Space /\ ~discarding /\ ~TooLarge
        /\ pending' = Append(pending, char) /\ UNCHANGED <<discarding, sync>>
  /\ UNCHANGED <<words, writing>>

WriterNext == Write \/ WriteChar \/ WriteReturns

WriterSpec == WriterInit /\ [][WriterNext]_writerVars

-----------------------------------------------------------------------------
Complete == {i \in 1..(word - 1) : Len(words[i].text) <= MaxToken}

Said(f) == {i \in Complete : words[i].field = f}
Latest(S) == CHOOSE i \in S : \A n \in S : n <= i

(* At every moment, in the middle of a Write too, the sync a reader sees   *)
(* has in each field the value of the last word for it that is complete    *)
(* and not too long: however the output was cut, whatever else was in it,  *)
(* no field comes from a part of a word.                                   *)
FieldsFollowWords ==
  \A f \in DOMAIN sync :
    sync[f] = IF Said(f) = {} THEN NoSync[f] ELSE words[Latest(Said(f))].value
=============================================================================

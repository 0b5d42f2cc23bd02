------------------------------- MODULE Proquint -------------------------------
(***************************************************************************)
(* The printed form of an identifier and its way back                      *)
(* (lib/src/proquint.cc: uint2quint, quint2uint; lib/src/identifiable.cc:  *)
(* str_id; lib/src/workspace.cc: getGraph by name), one letter per step.   *)
(* A uint32_t is the sequence of its 16 digits to the base 4, the highest  *)
(* first: a consonant stands for two digits, a vowel for one, and a shift  *)
(* to the left loses the highest digits.                                   *)
(***************************************************************************)
EXTENDS Naturals, Sequences, SequencesExt

CONSTANTS
  Words,     \* the identifiers to convert
  sepChar,   \* the separator str_id asks for
  Garbage    \* a character of the buffer nobody has written

Digit == 0 .. 3
Word == [1 .. 16 -> Digit]

uint2consonant ==
  <<"b", "d", "f", "g", "h", "j", "k", "l", "m", "n", "p", "r", "s", "t", "v", "z">>
uint2vowel == <<"a", "i", "o", "u">>

(* str_id asks for a hyphen.                                               *)
ASSUME ProquintAssumption ==
  /\ Words \subseteq Word
  /\ sepChar \notin ToSet(uint2consonant) \cup ToSet(uint2vowel)

VARIABLES
  word,   \* the identifier to print
  rest,   \* local i of uint2quint: what is left of it
  quint,  \* the characters written, then the name that is read
  next,   \* the character to read, 0 while the name is being written
  res     \* local of quint2uint
nameVars == <<word, rest, quint, next, res>>

NameInit ==
  /\ word \in Words
  /\ rest = word
  /\ quint = <<>>
  /\ next = 0
  /\ res = [d \in 1 .. 16 |-> 0]

(* u << 2 * n, with the low digits given by ds.                            *)
Shift(u, n, ds) == SubSeq(u, n + 1, 16) \o ds

Writing(lengths) == next = 0 /\ Len(quint) \in lengths

(* HANDLE_CONSONANT.                                                       *)
HandleConsonant ==
  /\ Writing({0, 2, 4, 6, 8, 10})
  /\ quint' = Append(quint, uint2consonant[4 * rest[1] + rest[2] + 1])
  /\ rest' = Shift(rest, 2, <<0, 0>>)
  /\ UNCHANGED <<word, next, res>>

(* HANDLE_VOWEL.                                                           *)
HandleVowel ==
  /\ Writing({1, 3, 7, 9})
  /\ quint' = Append(quint, uint2vowel[rest[1] + 1])
  /\ rest' = Shift(rest, 1, <<0>>)
  /\ UNCHANGED <<word, next, res>>

Separate ==
  /\ Writing({5})
  /\ quint' = Append(quint, sepChar)
  /\ UNCHANGED <<word, rest, next, res>>

(* Mutant: the name is cut one character short.                            *)
StrIdShort ==
  /\ Writing({11})
  /\ quint' = SubSeq(quint \o <<Garbage>>, 1, 10)
  /\ next' = 1
  /\ UNCHANGED <<word, rest, res>>

(* str_id ends the name after eleven characters; uint2quint does not.      *)
StrId ==
  /\ Writing({11})
  /\ quint' = SubSeq(quint \o <<Garbage>>, 1, 11)
  /\ next' = 1
  /\ UNCHANGED <<word, rest, res>>

(* One round of quint2uint's loop.                                         *)
Value(c) == (CHOOSE n \in 1 .. 16 : uint2consonant[n] = c) - 1

ReadConsonant ==
  /\ next \in 1 .. Len(quint) /\ quint[next] \in ToSet(uint2consonant)
  /\ LET v == Value(quint[next]) IN res' = Shift(res, 2, <<v \div 4, v % 4>>)
  /\ next' = next + 1
  /\ UNCHANGED <<word, rest, quint>>

ReadVowel ==
  /\ next \in 1 .. Len(quint) /\ quint[next] \in ToSet(uint2vowel)
  /\ \E v \in Digit :
       /\ uint2vowel[v + 1] = quint[next]
       /\ res' = Shift(res, 1, <<v>>)
  /\ next' = next + 1
  /\ UNCHANGED <<word, rest, quint>>

ReadOther ==
  /\ next \in 1 .. Len(quint)
  /\ quint[next] \notin ToSet(uint2consonant) \cup ToSet(uint2vowel)
  /\ next' = next + 1
  /\ UNCHANGED <<word, rest, quint, res>>

NameNext ==
  \/ HandleConsonant \/ HandleVowel \/ Separate \/ StrId
  \/ ReadConsonant \/ ReadVowel \/ ReadOther

NameSpec == NameInit /\ [][NameNext]_nameVars

(* The name of an identifier is read as that identifier (identifiable.cc,  *)
(* workspace.cc), digits arriving in order from the highest: names are     *)
(* one-to-one, as NodeGraph takes them to be.                              *)
RoundTrip ==
  /\ next > Len(quint) => res = word
  /\ \E n \in 0 .. 16 : res = [d \in 1 .. 16 - n |-> 0] \o SubSeq(word, 1, n)
===============================================================================

--------------------------- MODULE StlStringFind ---------------------------
(***************************************************************************)
(* The searches, comparisons and input of basic_string, std/bastring.cc.   *)
(* Positions count from 0, as in the code; a string is a sequence.         *)
(***************************************************************************)
EXTENDS Integers, Sequences, FiniteSets, FiniteSetsExt, SequencesExt

CONSTANTS CharLess(_, _),  \* how string_char_traits orders two characters
          Npos             \* larger than every position

\* The first place of a set from pos on, or npos.
FirstFrom(places, pos) ==
    LET hits == {x \in places : x >= pos} IN IF hits = {} THEN Npos ELSE Min(hits)

\* xpos = min(length() - n, pos), then downwards.
LastUpTo(places, pos) ==
    LET hits == {x \in places : x <= pos} IN IF hits = {} THEN Npos ELSE Max(hits)

\* Where s is.  The first character is compared even if s is empty: it would be
\* found only where a terminator happens to be, and is not found here.
Occurrences(chars, s) ==
    {x \in 0 .. Len(chars) - Len(s) :
        /\ s # << >> /\ chars[x + 1] = s[1]
        /\ SubSeq(chars, x + 1, x + Len(s)) = s}

FindStopsEarly(chars, s, pos) ==
    FirstFrom(Occurrences(chars, s) \ {Len(chars) - Len(s)}, pos)
Find(chars, s, pos) == FirstFrom(Occurrences(chars, s), pos)

RFind(chars, s, pos) == LastUpTo(Occurrences(chars, s), pos)

\* _find() of each character in s.
CharsIn(chars, s) == {x \in 0 .. Len(chars) - 1 : chars[x + 1] \in ToSet(s)}
CharsNotIn(chars, s) == (0 .. Len(chars) - 1) \ CharsIn(chars, s)

FindFirstOf(chars, s, pos) == FirstFrom(CharsIn(chars, s), pos)
FindFirstNotOf(chars, s, pos) == FirstFrom(CharsNotIn(chars, s), pos)
FindLastOf(chars, s, pos) == LastUpTo(CharsIn(chars, s), pos)
FindLastNotOf(chars, s, pos) == LastUpTo(CharsNotIn(chars, s), pos)

\* compare(): of rlen characters first, then of the lengths, unless n cut it.
Compare(chars, str, pos, n) ==
    LET rlen == Min({Len(chars) - pos, n, Len(str)})
        differ == {i \in 1 .. rlen : chars[pos + i] # str[i]}
        i == Min(differ)
    IN  CASE differ # {} -> IF CharLess(chars[pos + i], str[i]) THEN -1 ELSE 1
          [] differ = {} /\ rlen = n -> 0
          [] OTHER -> Len(chars) - pos - Len(str)

\* The relational operators are comparisons of whole strings.
StringLess(a, b) == Compare(a, b, 0, Npos) < 0
StringEqual(a, b) == Compare(a, b, 0, Npos) = 0

\* operator>>: up to a delimiter, which stays, the end of the input, or one
\* less than the width, which is 0 if there is none.
ReadWord(input, delims, width) ==
    LET stop == FirstFrom({x \in 0 .. Len(input) - 1 : input[x + 1] \in delims}, 0)
        most == IF width > 1 THEN width - 1 ELSE Npos
        n == Min({stop, most, Len(input)})
    IN  [word |-> SubSeq(input, 1, n), rest |-> SubSeq(input, n + 1, Len(input)),
         eof |-> n = Len(input) /\ n < most, fail |-> n = 0]

\* getline(): the delimiter is taken and left out.
GetLine(input, delim) ==
    LET stop == FirstFrom({x \in 0 .. Len(input) - 1 : input[x + 1] = delim}, 0)
        n == Min({stop, Len(input)})
    IN  [word |-> SubSeq(input, 1, n), rest |-> SubSeq(input, n + 2, Len(input)),
         eof |-> stop = Npos, fail |-> input = << >>]

-----------------------------------------------------------------------------
\* The searches find what their names say: the first or last place, also when
\* the place asked for is behind the end, that the two directions agree, and that
\* the comparison is an order consistent with them.
SearchesOfStrings(a, b, places) ==
    /\ \A pos \in places :
          LET at == Find(a, b, pos)
              back == RFind(a, b, pos)
          IN  /\ b # << >> => (at # Npos <=> \E x \in pos .. Len(a) : IsPrefix(b, SubSeq(a, x + 1, Len(a))))
              /\ at # Npos => at >= pos /\ RFind(a, b, at) = at
              /\ back # Npos => back <= pos /\ Find(a, b, back) = back
              /\ Len(b) = 1 => /\ FindFirstOf(a, b, pos) = at
                               /\ FindLastOf(a, b, pos) = back
              /\ FirstFrom({FindFirstOf(a, b, pos), FindFirstNotOf(a, b, pos)}, 0)
                    = IF pos < Len(a) THEN pos ELSE Npos
              /\ a # << >> => Min({pos, Len(a) - 1})
                                 \in {FindLastOf(a, b, pos), FindLastNotOf(a, b, pos)}
    /\ Compare(a, b, 0, Npos) = 0 <=> a = b
    /\ StringLess(a, b) => ~StringLess(b, a)
    /\ \A d \in ToSet(a) :
          LET line == GetLine(a, d)
              word == ReadWord(a, {d}, 0)
          IN  word.word = line.word /\ word.rest = <<d>> \o line.rest

=============================================================================

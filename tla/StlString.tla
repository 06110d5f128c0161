------------------------------ MODULE StlString ------------------------------
(***************************************************************************)
(* basic_string of std/bastring.h: strings share a representation with a   *)
(* count of references until one of them is changed.  A representation a   *)
(* reference or an iterator was given out of is `selfish', and copied at   *)
(* once instead of shared.  One action per operation on a string.          *)
(***************************************************************************)
EXTENDS StlStringFind

CONSTANTS Strings,    \* the variables of the program
          MinRes,     \* 16, the capacity of the smallest representation
          Letters,    \* the characters
          MaxLength   \* bound: the longest string

ASSUME StringAssumption ==
    /\ IsFiniteSet(Strings) /\ MinRes \in Nat \ {0} /\ MaxLength \in Nat
    /\ Npos \in Nat /\ Npos > MaxLength
    /\ \A c, d \in Letters : CharLess(c, d) => ~ CharLess(d, c)

VARIABLES dat,        \* string -> its representation, 0 is nilRep, Gone: destroyed
          reps,       \* representation -> its fields; ref = 0: deleted
          lent,       \* representations with a valid reference outside
          meant       \* history: string -> what an unshared string would hold

stringVars == <<dat, reps, lent, meant>>

Gone == -1
Alive == {s \in Strings : dat[s] # Gone}
Deleted == [chars |-> << >>, res |-> 0, ref |-> 0, selfish |-> FALSE]
Chars(s) == reps[dat[s]].chars

StringInit ==
    /\ dat = [s \in Strings |-> Gone]
    /\ reps = [r \in 0 .. Cardinality(Strings) + 1 |->
                 IF r = 0 THEN [Deleted EXCEPT !.ref = 1] ELSE Deleted]
    /\ lent = {} /\ meant = [s \in Strings |-> << >>]

\* frob_size(): the smallest power of two of the smallest capacity that is
\* enough; one bound of it is the length and its terminator.
FrobSize(n) == Min({MinRes * 2 ^ k : k \in 0 .. n} \cap {r \in 1 .. MinRes * 2 ^ n : r >= n})

Fresh(rs) == Min({r \in DOMAIN rs \ {0} : rs[r].ref = 0})

Created(chars) == [chars |-> chars, res |-> FrobSize(Len(chars) + 1), ref |-> 1,
                   selfish |-> FALSE]

\* release() deletes with the last reference.
Release(rs, r) ==
    IF rs[r].ref = 1 THEN [rs EXCEPT ![r] = Deleted] ELSE [rs EXCEPT ![r].ref = @ - 1]

\* grab(): clone() of a selfish one.
GrabShares(rs, r) == [reps |-> [rs EXCEPT ![r].ref = @ + 1], at |-> r]
Grab(rs, r) ==
    IF rs[r].selfish
    THEN [reps |-> [rs EXCEPT ![Fresh(rs)] = Created(rs[r].chars)], at |-> Fresh(rs)]
    ELSE [reps |-> [rs EXCEPT ![r].ref = @ + 1], at |-> r]

\* check_realloc(): n is the length to come.
CheckRealloc(rep, n) ==
    \/ rep.ref > 1
    \/ n + 1 > rep.res
    \/ 2 * Max({n + 1, MinRes}) < rep.res

\* replace(), alloc(): new characters, in a new representation or in place.  The
\* old one has lost its selfish flag either way.
Rewritten(rs, r, chars) ==
    LET forgot == [rs EXCEPT ![r].selfish = FALSE]
        p == Fresh(rs)
    IN  IF CheckRealloc(rs[r], Len(chars))
        THEN [reps |-> Release([forgot EXCEPT ![p] = Created(chars)], r), at |-> p]
        ELSE [reps |-> [forgot EXCEPT ![r].chars = chars], at |-> r]

\* selfish(): unique(), then the flag.
Selfish(rs, r) ==
    LET own == IF rs[r].ref > 1 THEN Rewritten(rs, r, rs[r].chars)
               ELSE [reps |-> rs, at |-> r]
    IN  [own EXCEPT !.reps[own.at].selfish = TRUE]

\* What replace() of n1 characters at pos makes of a string.
Spliced(chars, pos, n1, source) ==
    SubSeq(chars, 1, pos) \o source
        \o SubSeq(chars, pos + Min({n1, Len(chars) - pos}) + 1, Len(chars))

\* Storage that was deleted is not referred to any more.
Become(s, own, value) ==
    /\ dat' = [dat EXCEPT ![s] = own.at] /\ reps' = own.reps
    /\ meant' = [meant EXCEPT ![s] = value]

Construct(s) ==
    /\ s \notin Alive /\ Become(s, Grab(reps, 0), << >>) /\ UNCHANGED lent

CopyConstruct(s, t) ==
    /\ s \notin Alive /\ t \in Alive
    /\ Become(s, Grab(reps, dat[t]), meant[t]) /\ UNCHANGED lent

\* operator=: releases before it grabs.
Assign(s, t) ==
    /\ s # t /\ {s, t} \subseteq Alive
    /\ Become(s, Grab(Release(reps, dat[s]), dat[t]), meant[t])
    /\ lent' = lent \ {dat[s]}

Destroy(s) ==
    /\ s \in Alive /\ dat' = [dat EXCEPT ![s] = Gone]
    /\ reps' = Release(reps, dat[s]) /\ lent' = lent \ {dat[s]}
    /\ meant' = [meant EXCEPT ![s] = << >>]

Swap(s, t) ==
    /\ {s, t} \subseteq Alive
    /\ dat' = [dat EXCEPT ![s] = dat[t], ![t] = dat[s]]
    /\ meant' = [meant EXCEPT ![s] = meant[t], ![t] = meant[s]]
    /\ UNCHANGED <<reps, lent>>

\* replace() by other characters or by copies of one; append, assign, insert,
\* erase and resize are calls of it.  A position behind the end throws.
Replace(s, pos, n1, source) ==
    /\ s \in Alive /\ pos <= Len(Chars(s))
    /\ Len(Spliced(Chars(s), pos, n1, source)) <= MaxLength
    /\ Become(s, Rewritten(reps, dat[s], Spliced(Chars(s), pos, n1, source)),
              Spliced(meant[s], pos, n1, source))
    /\ lent' = lent \ {dat[s]}

\* replace() by a part of a string: all of it for all is operator=.  A string's
\* own characters come from what is moved first, unless the end is replaced.
ReplaceByString(s, pos, n1, t, pos2, n2) ==
    /\ {s, t} \subseteq Alive /\ pos2 <= Len(Chars(t))
    /\ IF pos = 0 /\ n1 >= Len(Chars(s)) /\ pos2 = 0 /\ n2 >= Len(Chars(t))
       THEN Assign(s, t)
       ELSE /\ s = t => pos = Len(Chars(s))
            /\ Replace(s, pos, n1, SubSeq(Chars(t), pos2 + 1, Min({pos2 + n2, Len(Chars(t))})))

\* A non-const operator[], begin() or end(), or an insert or erase that returns
\* an iterator: a reference goes out.
Borrow(s) ==
    LET own == Selfish(reps, dat[s])
    IN  /\ s \in Alive /\ Become(s, own, meant[s])
        /\ lent' = (lent \ {dat[s]}) \cup {own.at}

\* The program writes through a reference it was given.
WriteThrough(s, i, c) ==
    /\ s \in Alive /\ dat[s] \in lent /\ i \in DOMAIN Chars(s)
    /\ reps' = [reps EXCEPT ![dat[s]].chars[i] = c]
    /\ meant' = [meant EXCEPT ![s][i] = c]
    /\ UNCHANGED <<dat, lent>>

Sources == {<< >>} \cup UNION {{<<c>>, <<c, c>>} : c \in Letters}
Places == 0 .. MaxLength
Counts == {0, 1, Npos}

StringNext ==
    \/ \E s \in Strings : Construct(s) \/ Destroy(s) \/ Borrow(s)
    \/ \E s, t \in Strings : CopyConstruct(s, t) \/ Assign(s, t) \/ Swap(s, t)
    \/ \E s \in Strings, pos \in Places, n1 \in Counts, source \in Sources :
          Replace(s, pos, n1, source)
    \/ \E s, t \in Strings, pos, pos2 \in Places, n1 \in Counts, n2 \in {1, Npos} :
          ReplaceByString(s, pos, n1, t, pos2, n2)
    \/ \E s \in Strings, i \in 1 .. MaxLength, c \in Letters : WriteThrough(s, i, c)

StringSpec == StringInit /\ [][StringNext]_stringVars

-----------------------------------------------------------------------------
Sharers(r) == {s \in Alive : dat[s] = r}

\* Sharing is never seen: every string has the value it would have if none were
\* shared, whatever was copied, assigned, changed or written through a reference
\* in between; a representation counts its strings (nilRep itself as one more),
\* is freed with the last, has room for the terminator c_str() writes, and is
\* not shared while a reference into it is outside.
SharingUnseen ==
    /\ \A s \in Alive : Chars(s) = meant[s]
    /\ \A r \in DOMAIN reps :
          /\ reps[r].ref = Cardinality(Sharers(r)) + (IF r = 0 THEN 1 ELSE 0)
          /\ reps[r].ref > 0 /\ reps[r].chars # << >> => Len(reps[r].chars) < reps[r].res
    /\ \A r \in lent : reps[r].ref = 1

\* Searching a string, comparing two and reading one agree with each other and with
\* what they look for, for all strings that come about.
StringsFound == \A s, t \in Alive : SearchesOfStrings(Chars(s), Chars(t), Places)

=============================================================================

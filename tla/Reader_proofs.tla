----------------------------- MODULE Reader_proofs -----------------------------
(***************************************************************************)
(* Proofs about the reader of records: what it counts as open is what the  *)
(* text has opened, and what it takes for a section is what stands between *)
(* two bars outside every string.  The text a program signs is read back,  *)
(* so a part shows that what is written is a text.  The last parts are     *)
(* about the tree that is read: what Strict reads has lost nothing, and    *)
(* the builder would take it; and what the reader reports of its syntax is *)
(* what the text shows.                                                    *)
(***************************************************************************)
EXTENDS Tool_proofs, FiniteSetTheorems

-----------------------------------------------------------------------------
(***************************************************************************)
(* Quotes and nesting, as a text is read further.                          *)
(***************************************************************************)
\* t is s and what follows it.
Continues(t, s) ==
  /\ s \in Seq(Symbols) /\ t \in Seq(Symbols)
  /\ Len(s) <= Len(t)
  /\ \A i \in 1 .. Len(s) : t[i] = s[i]

\* The backslashes right before position i.
Backslashes(s, i) == {k \in 1 .. i - 1 : \A m \in k .. i - 1 : s[m] = BACKSLASH}

\* A string is open at the end of s.
Unclosed(s) == Cardinality(Quotes(s)) % 2 = 1

Opening(s) == {i \in DOMAIN s : s[i] \in {LBRACE, "["} /\ ~Quoted(s, i)}
Closing(s) == {i \in DOMAIN s : s[i] \in {RBRACE, "]"} /\ ~Quoted(s, i)}

\* The symbols that open and close are different ones.
LEMMA SymbolsDiffer ==
  /\ QUOTE \notin {LBRACE, "[", RBRACE, "]", BACKSLASH, ":", "|", "-", "+", ".", "e", "OCMF"}
  /\ QUOTE \notin {"true", "false", "null", "0", "1", "2", "3", "nl", "ff"}
  /\ BACKSLASH \notin {LBRACE, "[", RBRACE, "]", ":", "|", "-", "+", ".", "e", "OCMF"}
  /\ BACKSLASH \notin {"true", "false", "null", "0", "1", "2", "3", "nl", "ff"}
  /\ LBRACE \notin {"[", RBRACE, "]", ":", "|", "-", "+", ".", "e", "OCMF"}
  /\ LBRACE \notin {"true", "false", "null", "0", "1", "2", "3", "nl", "ff"}
  /\ RBRACE \notin {"[", "]", ":", "|", "-", "+", ".", "e", "OCMF"}
  /\ RBRACE \notin {"true", "false", "null", "0", "1", "2", "3", "nl", "ff"}
  /\ COMMA \notin {LBRACE, "[", RBRACE, "]", QUOTE, BACKSLASH, ":", "|"}
  /\ SP \notin {LBRACE, "[", RBRACE, "]", QUOTE, BACKSLASH, ":", "|"}
  BY Zenon DEF QUOTE, BACKSLASH, LBRACE, RBRACE, COMMA, SP

\* Everything that is counted here is finite.
LEMMA PositionsAreFinite ==
  ASSUME NEW s \in Seq(Symbols), NEW P \in SUBSET (1 .. Len(s))
  PROVE  IsFiniteSet(P) /\ Cardinality(P) \in Nat
  <1>1. Len(s) \in Nat
    OBVIOUS
  <1>2. IsFiniteSet(1 .. Len(s))
    BY <1>1, FS_Interval
  <1> QED BY <1>2, FS_Subset, FS_CardinalityType

\* One position more is counted once.
LEMMA OneMorePosition ==
  ASSUME NEW s \in Seq(Symbols), NEW P \in SUBSET (1 .. Len(s)), NEW i, i \notin P
  PROVE  Cardinality(P \union {i}) = Cardinality(P) + 1
  BY PositionsAreFinite, FS_AddElement

\* Quotes are found by what stands before them.
LEMMA QuotesStay ==
  ASSUME NEW s, NEW t, Continues(t, s)
  PROVE  /\ Quotes(s) = {i \in Quotes(t) : i <= Len(s)}
         /\ Quotes(t) \in SUBSET (1 .. Len(t)) /\ Quotes(s) \in SUBSET (1 .. Len(s))
         /\ \A i \in 1 .. Len(s) : Quoted(t, i) <=> Quoted(s, i)
  <1>1. /\ DOMAIN s = 1 .. Len(s) /\ DOMAIN t = 1 .. Len(t) /\ Len(s) \in Nat /\ Len(t) \in Nat
        /\ Len(s) <= Len(t) /\ \A i \in 1 .. Len(s) : t[i] = s[i]
    BY DEF Continues
  <1>2. ASSUME NEW i \in 1 .. Len(s) PROVE Backslashes(t, i) = Backslashes(s, i)
    BY <1>1 DEF Backslashes
  <1>3. ASSUME NEW i \in 1 .. Len(s)
        PROVE  i \in Quotes(s) <=> i \in Quotes(t)
    <2>1. i \in Quotes(s) <=> s[i] = QUOTE /\ Cardinality(Backslashes(s, i)) % 2 = 0
      BY <1>1 DEF Quotes, Backslashes
    <2>2. i \in Quotes(t) <=> t[i] = QUOTE /\ Cardinality(Backslashes(t, i)) % 2 = 0
      BY <1>1 DEF Quotes, Backslashes
    <2> QED BY <1>1, <1>2, <2>1, <2>2
  <1>4. Quotes(s) \subseteq 1 .. Len(s) /\ Quotes(t) \subseteq 1 .. Len(t)
    BY <1>1 DEF Quotes
  <1>5. Quotes(s) = {i \in Quotes(t) : i <= Len(s)}
    BY <1>1, <1>3, <1>4
  <1>6. ASSUME NEW i \in 1 .. Len(s) PROVE Quoted(t, i) <=> Quoted(s, i)
    <2>1. {k \in Quotes(t) : k <= i} = {k \in Quotes(s) : k <= i}
      BY <1>1, <1>4, <1>5
    <2> QED BY <2>1 DEF Quoted
  <1> QED BY <1>4, <1>5, <1>6

\* Nothing is opened or closed by what is within a string, or is no bracket.
LEMMA NestingStays ==
  ASSUME NEW s, NEW t, Continues(t, s), Quotes(t) = Quotes(s),
         Unclosed(s) \/ \A i \in Len(s) + 1 .. Len(t) : t[i] \notin {LBRACE, "[", RBRACE, "]"}
  PROVE  Nesting(t) = Nesting(s) /\ (Unclosed(t) <=> Unclosed(s))
  <1>1. /\ DOMAIN s = 1 .. Len(s) /\ DOMAIN t = 1 .. Len(t) /\ Len(s) \in Nat /\ Len(t) \in Nat
        /\ Len(s) <= Len(t) /\ \A i \in 1 .. Len(s) : t[i] = s[i]
    BY DEF Continues
  <1>2. Quotes(s) \subseteq 1 .. Len(s) /\ \A i \in 1 .. Len(s) : Quoted(t, i) <=> Quoted(s, i)
    BY QuotesStay
  <1>3. ASSUME NEW i \in Len(s) + 1 .. Len(t), t[i] \in {LBRACE, "[", RBRACE, "]"}
        PROVE  Quoted(t, i)
    <2>1. {k \in Quotes(t) : k <= i} = Quotes(s)
      BY <1>1, <1>2
    <2> QED BY <1>3, <2>1 DEF Quoted, Unclosed
  <1>4. \A i \in 1 .. Len(t) : i \in 1 .. Len(s) \/ i \in Len(s) + 1 .. Len(t)
    BY <1>1
  <1>5. Opening(t) = Opening(s) /\ Closing(t) = Closing(s)
    BY <1>1, <1>2, <1>3, <1>4 DEF Opening, Closing
  <1>6. Nesting(t) = Nesting(s)
    BY <1>5 DEF Nesting, Opening, Closing
  <1> QED BY <1>6 DEF Unclosed

\* What holds no quote adds none.
LEMMA NoQuoteAdded ==
  ASSUME NEW s, NEW t, Continues(t, s), \A i \in Len(s) + 1 .. Len(t) : i \notin Quotes(t)
  PROVE  Quotes(t) = Quotes(s)
  <1>1. Len(s) \in Nat /\ Len(t) \in Nat
    BY DEF Continues
  <1> QED BY <1>1, QuotesStay

\* A quote with an even number of backslashes before it begins or ends a string.
LEMMA QuoteAdded ==
  ASSUME NEW s, NEW t, Continues(t, s), Len(t) = Len(s) + 1, t[Len(t)] = QUOTE,
         Cardinality(Backslashes(t, Len(t))) % 2 = 0
  PROVE  Nesting(t) = Nesting(s) /\ (Unclosed(t) <=> ~Unclosed(s))
  <1>1. /\ DOMAIN s = 1 .. Len(s) /\ DOMAIN t = 1 .. Len(s) + 1 /\ Len(s) \in Nat
        /\ s \in Seq(Symbols) /\ \A i \in 1 .. Len(s) : t[i] = s[i]
    BY DEF Continues
  <1>2. /\ Quotes(s) \in SUBSET (1 .. Len(s)) /\ \A i \in 1 .. Len(s) : Quoted(t, i) <=> Quoted(s, i)
        /\ Quotes(s) = {i \in Quotes(t) : i <= Len(s)} /\ Quotes(t) \in SUBSET (1 .. Len(s) + 1)
    BY QuotesStay
  <1>3. Len(t) \in Quotes(t)
    BY <1>1 DEF Quotes, Backslashes
  <1>4. Quotes(t) = Quotes(s) \union {Len(t)} /\ Len(t) \notin Quotes(s)
    BY <1>1, <1>2, <1>3
  <1>5. Cardinality(Quotes(t)) = Cardinality(Quotes(s)) + 1 /\ Cardinality(Quotes(s)) \in Nat
    BY <1>1, <1>2, <1>4, PositionsAreFinite, OneMorePosition
  <1>6. Opening(t) = Opening(s) /\ Closing(t) = Closing(s)
    BY <1>1, <1>2, SymbolsDiffer DEF Opening, Closing
  <1>7. Nesting(t) = Nesting(s)
    BY <1>6 DEF Nesting, Opening, Closing
  <1> QED BY <1>5, <1>7 DEF Unclosed

\* A bracket outside a string opens or closes something.
LEMMA BracketAdded ==
  ASSUME NEW s, NEW t, Continues(t, s), Len(t) = Len(s) + 1, ~Unclosed(s),
         t[Len(t)] \in {LBRACE, "[", RBRACE, "]"}
  PROVE  /\ Nesting(t) = Nesting(s) + (IF t[Len(t)] \in {LBRACE, "["} THEN 1 ELSE -1)
         /\ ~Unclosed(t)
  <1>1. /\ DOMAIN s = 1 .. Len(s) /\ DOMAIN t = 1 .. Len(s) + 1 /\ Len(s) \in Nat
        /\ s \in Seq(Symbols) /\ \A i \in 1 .. Len(s) : t[i] = s[i]
    BY DEF Continues
  <1>2. Quotes(t) = Quotes(s)
    <2>1. t[Len(t)] # QUOTE
      BY SymbolsDiffer
    <2>2. Len(t) \notin Quotes(t) /\ Len(s) + 1 .. Len(t) = {Len(t)}
      BY <1>1, <2>1 DEF Quotes
    <2> QED BY <2>2, NoQuoteAdded
  <1>3. /\ Quotes(s) \in SUBSET (1 .. Len(s)) /\ \A i \in 1 .. Len(s) : Quoted(t, i) <=> Quoted(s, i)
    BY QuotesStay
  <1>4. ~Quoted(t, Len(t))
    <2>1. {k \in Quotes(t) : k <= Len(t)} = Quotes(s)
      BY <1>1, <1>2, <1>3
    <2> QED BY <2>1 DEF Quoted, Unclosed
  <1>5. /\ Opening(s) \in SUBSET (1 .. Len(s)) /\ Len(t) \notin Opening(s)
        /\ Closing(s) \in SUBSET (1 .. Len(s)) /\ Len(t) \notin Closing(s)
    BY <1>1 DEF Opening, Closing
  <1>6. Cardinality(Opening(s)) \in Nat /\ Cardinality(Closing(s)) \in Nat
    BY <1>1, <1>5, PositionsAreFinite
  <1>7. Nesting(s) = Cardinality(Opening(s)) - Cardinality(Closing(s))
        /\ Nesting(t) = Cardinality(Opening(t)) - Cardinality(Closing(t))
    BY DEF Nesting, Opening, Closing
  <1>8. CASE t[Len(t)] \in {LBRACE, "["}
    <2>1. Opening(t) = Opening(s) \union {Len(t)} /\ Closing(t) = Closing(s)
      BY <1>1, <1>3, <1>4, <1>8, SymbolsDiffer DEF Opening, Closing
    <2>2. Cardinality(Opening(t)) = Cardinality(Opening(s)) + 1
      BY <1>1, <1>5, <2>1, OneMorePosition
    <2> QED BY <1>2, <1>6, <1>7, <1>8, <2>1, <2>2 DEF Unclosed
  <1>9. CASE t[Len(t)] \in {RBRACE, "]"}
    <2>1. Closing(t) = Closing(s) \union {Len(t)} /\ Opening(t) = Opening(s)
      BY <1>1, <1>3, <1>4, <1>9, SymbolsDiffer DEF Opening, Closing
    <2>2. Cardinality(Closing(t)) = Cardinality(Closing(s)) + 1
      BY <1>1, <1>5, <2>1, OneMorePosition
    <2> QED BY <1>2, <1>6, <1>7, <1>9, <2>1, <2>2, SymbolsDiffer DEF Unclosed
  <1> QED BY <1>8, <1>9

-----------------------------------------------------------------------------
(***************************************************************************)
(* Positions of a text: p is reached when what is before it has been read, *)
(* and the reading began at b.                                             *)
(***************************************************************************)
Part(t, b, p) == SubSeq(t, b, p - 1)

\* At p nothing is quoted and n arrays and objects are open.
Outside(t, b, p, n) ==
  /\ ~Unclosed(Part(t, b, p)) /\ Nesting(Part(t, b, p)) = n
  /\ p > b => t[p - 1] # BACKSLASH

\* At p a string is open, and no backslash waits for what it escapes.
Within_(t, b, p, n) ==
  /\ Unclosed(Part(t, b, p)) /\ Nesting(Part(t, b, p)) = n
  /\ Cardinality(Backslashes(Part(t, b, p), p - b + 1)) % 2 = 0

Reached(t, b, p) == t \in Seq(Symbols) /\ b \in 1 .. p /\ p \in 1 .. Len(t) + 1

\* A part and a longer one.
Parts(t, b, p, q) ==
  /\ Continues(Part(t, b, q), Part(t, b, p))
  /\ Len(Part(t, b, p)) = p - b /\ Len(Part(t, b, q)) = q - b
  /\ \A i \in 1 .. q - b : Part(t, b, q)[i] = t[b + i - 1]
  /\ b \in Nat /\ p \in Nat /\ q \in Nat /\ b <= p

\* Parts of one text continue each other.
LEMMA PartsContinue ==
  ASSUME NEW t, NEW b, NEW p, NEW q, Reached(t, b, p), Reached(t, b, q), p <= q
  PROVE  Parts(t, b, p, q)
  BY DEF Reached, Continues, Part, Parts

\* No backslash stands before the end of what does not end with one.
LEMMA NoBackslashes ==
  ASSUME NEW s, NEW i \in Nat, i > 1 => s[i - 1] # BACKSLASH
  PROVE  Backslashes(s, i) = {}
  BY DEF Backslashes

\* White space, colons, commas, digits and words change nothing.
LEMMA PassOver ==
  ASSUME NEW t, NEW b, NEW p, NEW q, NEW n, Reached(t, b, p), Reached(t, b, q), p <= q,
         Outside(t, b, p, n),
         \A i \in p .. q - 1 : t[i] \notin {LBRACE, "[", RBRACE, "]", QUOTE, BACKSLASH}
  PROVE  Outside(t, b, q, n)
  <1> DEFINE s == Part(t, b, p)
             r == Part(t, b, q)
  <1>1. /\ Continues(r, s) /\ Len(s) = p - b /\ Len(r) = q - b
        /\ \A i \in 1 .. q - b : r[i] = t[b + i - 1]
        /\ b \in Nat /\ p \in Nat /\ q \in Nat /\ b <= p
    <2>1. Parts(t, b, p, q)
      BY PartsContinue
    <2> QED BY <2>1 DEF Parts
  <1>2. \A i \in Len(s) + 1 .. Len(r) : r[i] \notin {LBRACE, "[", RBRACE, "]", QUOTE, BACKSLASH}
    <2> HIDE DEF s, r
    <2> QED BY <1>1
  <1>3. Quotes(r) = Quotes(s)
    <2> HIDE DEF s, r
    <2>1. \A i \in Len(s) + 1 .. Len(r) : i \notin Quotes(r)
      BY <1>2 DEF Quotes
    <2> QED BY <1>1, <2>1, NoQuoteAdded
  <1>4. Nesting(r) = Nesting(s) /\ (Unclosed(r) <=> Unclosed(s))
    <2> HIDE DEF s, r
    <2> QED BY <1>1, <1>2, <1>3, NestingStays
  <1>5. q > b => t[q - 1] # BACKSLASH
    <2>1. CASE q = p
      BY <2>1 DEF Outside
    <2>2. CASE q > p
      BY <1>1, <2>2
    <2> QED BY <1>1, <2>1, <2>2
  <1> QED BY <1>4, <1>5 DEF Outside

\* A bracket opens or closes one thing.
LEMMA PassBracket ==
  ASSUME NEW t, NEW b, NEW p, NEW q, NEW n \in Int, Reached(t, b, p), Reached(t, b, q), q = p + 1,
         Outside(t, b, p, n), t[p] \in {LBRACE, "[", RBRACE, "]"}
  PROVE  Outside(t, b, q, n + (IF t[p] \in {LBRACE, "["} THEN 1 ELSE -1))
  <1> DEFINE s == Part(t, b, p)
             r == Part(t, b, q)
  <1>1. p \in Nat /\ q \in Nat /\ p <= q
    BY DEF Reached
  <1>2. /\ Continues(r, s) /\ Len(s) = p - b /\ Len(r) = q - b
        /\ \A i \in 1 .. q - b : r[i] = t[b + i - 1]
        /\ b \in Nat /\ b <= p
    <2>1. Parts(t, b, p, q)
      BY <1>1, PartsContinue
    <2> QED BY <2>1 DEF Parts
  <1>3. Len(r) = Len(s) + 1 /\ r[Len(r)] = t[p]
    <2> HIDE DEF s, r
    <2> QED BY <1>1, <1>2
  <1>4. Nesting(r) = Nesting(s) + (IF t[p] \in {LBRACE, "["} THEN 1 ELSE -1) /\ ~Unclosed(r)
    <2>1. ~Unclosed(s)
      BY DEF Outside
    <2> HIDE DEF s, r
    <2> QED BY <1>2, <1>3, <2>1, BracketAdded
  <1>5. t[q - 1] # BACKSLASH
    BY <1>1, SymbolsDiffer
  <1>6. Nesting(s) = n
    BY DEF Outside
  <1>7. ~Unclosed(r) /\ Nesting(r) = n + (IF t[p] \in {LBRACE, "["} THEN 1 ELSE -1)
    BY <1>4, <1>6
  <1> QED BY <1>5, <1>7 DEF Outside

\* A quote outside a string opens one.
LEMMA PassOpeningQuote ==
  ASSUME NEW t, NEW b, NEW p, NEW q, NEW n, Reached(t, b, p), Reached(t, b, q), q = p + 1,
         Outside(t, b, p, n), t[p] = QUOTE
  PROVE  Within_(t, b, q, n)
  <1> DEFINE s == Part(t, b, p)
             r == Part(t, b, q)
  <1>1. p \in Nat /\ b \in Nat /\ b <= p /\ q \in Nat /\ p <= q
    BY DEF Reached
  <1>2. /\ Continues(r, s) /\ Len(s) = p - b /\ Len(r) = q - b
        /\ \A i \in 1 .. q - b : r[i] = t[b + i - 1]
    <2>1. Parts(t, b, p, q)
      BY <1>1, PartsContinue
    <2> QED BY <2>1 DEF Parts
  <1>3. Len(r) = Len(s) + 1 /\ r[Len(r)] = QUOTE /\ (Len(r) > 1 => r[Len(r) - 1] = t[p - 1])
    <2> HIDE DEF s, r
    <2> QED BY <1>1, <1>2
  <1>4. Backslashes(r, Len(r)) = {} /\ Backslashes(r, Len(r) + 1) = {} /\ Len(r) + 1 = q - b + 1
    <2>1. Len(r) > 1 => r[Len(r) - 1] # BACKSLASH
      <3>1. p > b => t[p - 1] # BACKSLASH
        BY DEF Outside
      <3> HIDE DEF s, r
      <3> QED BY <1>1, <1>2, <1>3, <3>1
    <2> HIDE DEF s, r
    <2>2. Len(r) \in Nat /\ Len(r) + 1 \in Nat /\ Len(r) + 1 - 1 = Len(r)
      BY <1>1, <1>2
    <2>3. r[Len(r) + 1 - 1] # BACKSLASH
      BY <1>3, <2>2, SymbolsDiffer
    <2> QED BY <1>1, <1>2, <2>1, <2>2, <2>3, NoBackslashes
  <1>5. Cardinality({}) % 2 = 0
    BY FS_EmptySet
  <1>6. Nesting(r) = Nesting(s) /\ (Unclosed(r) <=> ~Unclosed(s))
    <2> HIDE DEF s, r
    <2> QED BY <1>2, <1>3, <1>4, <1>5, QuoteAdded
  <1>7. ~Unclosed(s) /\ Nesting(s) = n
    BY DEF Outside
  <1>8. Unclosed(r) /\ Nesting(r) = n
    BY <1>6, <1>7
  <1>9. Cardinality(Backslashes(r, q - b + 1)) % 2 = 0
    BY <1>4, <1>5
  <1> QED BY <1>8, <1>9 DEF Within_

\* A quote that nothing escapes closes the string.
LEMMA PassClosingQuote ==
  ASSUME NEW t, NEW b, NEW p, NEW q, NEW n, Reached(t, b, p), Reached(t, b, q), q = p + 1,
         Within_(t, b, p, n), t[p] = QUOTE
  PROVE  Outside(t, b, q, n)
  <1> DEFINE s == Part(t, b, p)
             r == Part(t, b, q)
  <1>1. p \in Nat /\ b \in Nat /\ b <= p /\ q \in Nat /\ p <= q
    BY DEF Reached
  <1>2. /\ Continues(r, s) /\ Len(s) = p - b /\ Len(r) = q - b
        /\ \A i \in 1 .. q - b : r[i] = t[b + i - 1]
    <2>1. Parts(t, b, p, q)
      BY <1>1, PartsContinue
    <2> QED BY <2>1 DEF Parts
  <1>3. Len(r) = Len(s) + 1 /\ r[Len(r)] = QUOTE /\ Len(s) + 1 = p - b + 1 /\ Len(s) \in Nat
    <2> HIDE DEF s, r
    <2> QED BY <1>1, <1>2
  <1>4. Backslashes(r, Len(r)) = Backslashes(s, p - b + 1)
    <2>1. \A i \in 1 .. Len(s) : r[i] = s[i]
      BY <1>2 DEF Continues
    <2> HIDE DEF s, r
    <2>2. Len(r) = Len(s) + 1 /\ p - b + 1 = Len(s) + 1 /\ Len(s) \in Nat
      BY <1>3
    <2>3. Backslashes(r, Len(s) + 1) = Backslashes(s, Len(s) + 1)
      BY <2>1, <2>2 DEF Backslashes
    <2> QED BY <2>2, <2>3
  <1>5. Nesting(r) = Nesting(s) /\ (Unclosed(r) <=> ~Unclosed(s))
    <2>1. Cardinality(Backslashes(s, p - b + 1)) % 2 = 0
      BY DEF Within_
    <2> HIDE DEF s, r
    <2> QED BY <1>2, <1>3, <1>4, <2>1, QuoteAdded
  <1>6. t[q - 1] # BACKSLASH
    BY <1>1, SymbolsDiffer
  <1>7. Unclosed(s) /\ Nesting(s) = n
    BY DEF Within_
  <1>8. ~Unclosed(r) /\ Nesting(r) = n
    BY <1>5, <1>7
  <1> QED BY <1>6, <1>8 DEF Outside

\* One more backslash.
LEMMA MoreBackslashes ==
  ASSUME NEW s, NEW i \in Nat, i >= 1, s[i] = BACKSLASH
  PROVE  /\ Cardinality(Backslashes(s, i + 1)) = Cardinality(Backslashes(s, i)) + 1
         /\ Cardinality(Backslashes(s, i)) \in Nat
  <1>1. Backslashes(s, i + 1) = Backslashes(s, i) \union {i} /\ i \notin Backslashes(s, i)
    BY DEF Backslashes
  <1>2. Backslashes(s, i) \in SUBSET (1 .. i - 1)
    BY DEF Backslashes
  <1>3. IsFiniteSet(Backslashes(s, i))
    BY <1>2, FS_Interval, FS_Subset
  <1> QED BY <1>1, <1>3, FS_AddElement, FS_CardinalityType

\* Nothing has been read yet.
LEMMA OutsideAtFirst ==
  ASSUME NEW t, NEW b, Reached(t, b, b)
  PROVE  Outside(t, b, b, 0)
  <1> DEFINE s == Part(t, b, b)
  <1>1. DOMAIN s = {}
    BY DEF Reached, Part
  <1> HIDE DEF s
  <1>2. Quotes(s) = {} /\ Opening(s) = {} /\ Closing(s) = {}
    BY <1>1 DEF Quotes, Opening, Closing
  <1>3. Cardinality({}) = 0
    BY FS_EmptySet
  <1>4. Nesting(s) = Cardinality(Opening(s)) - Cardinality(Closing(s))
    BY DEF Nesting, Opening, Closing
  <1>5. Nesting(s) = 0
    BY <1>2, <1>3, <1>4
  <1>6. ~Unclosed(s)
    BY <1>2, <1>3 DEF Unclosed
  <1>7. ~(b > b)
    BY DEF Reached
  <1> QED BY <1>5, <1>6, <1>7 DEF Outside, s

\* A symbol of a string.
LEMMA PassPlain ==
  ASSUME NEW t, NEW b, NEW p, NEW q, NEW n, Reached(t, b, p), Reached(t, b, q), q = p + 1,
         Within_(t, b, p, n), t[p] \notin {QUOTE, BACKSLASH}
  PROVE  Within_(t, b, q, n)
  <1> DEFINE s == Part(t, b, p)
             r == Part(t, b, q)
  <1>1. p \in Nat /\ b \in Nat /\ b <= p /\ q \in Nat /\ p <= q
    BY DEF Reached
  <1>2. /\ Continues(r, s) /\ Len(s) = p - b /\ Len(r) = q - b
        /\ \A i \in 1 .. q - b : r[i] = t[b + i - 1]
    <2>1. Parts(t, b, p, q)
      BY <1>1, PartsContinue
    <2> QED BY <2>1 DEF Parts
  <1>3. Len(r) = Len(s) + 1 /\ r[Len(r)] = t[p] /\ Len(r) + 1 = q - b + 1 /\ Len(r) \in Nat
    <2> HIDE DEF s, r
    <2> QED BY <1>1, <1>2
  <1>4. Quotes(r) = Quotes(s)
    <2> HIDE DEF s, r
    <2>1. Len(r) \notin Quotes(r) /\ Len(s) + 1 .. Len(r) = {Len(r)}
      BY <1>3 DEF Quotes
    <2> QED BY <1>2, <2>1, NoQuoteAdded
  <1>5. Unclosed(s) /\ Nesting(s) = n
    BY DEF Within_
  <1>6. Unclosed(r) /\ Nesting(r) = n
    <2> HIDE DEF s, r
    <2> QED BY <1>2, <1>4, <1>5, NestingStays
  <1>7. Backslashes(r, q - b + 1) = {}
    <2> HIDE DEF s, r
    <2>1. r[Len(r) + 1 - 1] # BACKSLASH /\ Len(r) + 1 \in Nat
      BY <1>3
    <2> QED BY <1>3, <2>1, NoBackslashes
  <1>8. Cardinality(Backslashes(r, q - b + 1)) % 2 = 0
    BY <1>7, FS_EmptySet
  <1> QED BY <1>6, <1>8 DEF Within_

\* A backslash and what it escapes.
LEMMA PassEscape ==
  ASSUME NEW t, NEW b, NEW p, NEW q, NEW n, Reached(t, b, p), Reached(t, b, q), q = p + 2,
         Within_(t, b, p, n), t[p] = BACKSLASH
  PROVE  Within_(t, b, q, n)
  <1> DEFINE s == Part(t, b, p)
             r == Part(t, b, q)
  <1>1. p \in Nat /\ b \in Nat /\ b <= p /\ q \in Nat /\ p <= q
    BY DEF Reached
  <1>2. /\ Continues(r, s) /\ Len(s) = p - b /\ Len(r) = q - b
        /\ \A i \in 1 .. q - b : r[i] = t[b + i - 1]
    <2>1. Parts(t, b, p, q)
      BY <1>1, PartsContinue
    <2> QED BY <2>1 DEF Parts
  <1>3. /\ Len(s) \in Nat /\ Len(r) = Len(s) + 2 /\ r[Len(s) + 1] = BACKSLASH
        /\ Len(s) + 1 = p - b + 1 /\ Len(r) + 1 = q - b + 1
    <2> HIDE DEF s, r
    <2> QED BY <1>1, <1>2
  <1>4. Unclosed(s) /\ Nesting(s) = n /\ Cardinality(Backslashes(s, Len(s) + 1)) % 2 = 0
    BY <1>3 DEF Within_
  <1> HIDE DEF s, r
  <1>5. Backslashes(r, Len(s) + 1) = Backslashes(s, Len(s) + 1)
    <2>1. \A i \in 1 .. Len(s) : r[i] = s[i]
      BY <1>2 DEF Continues
    <2> QED BY <1>3, <2>1 DEF Backslashes
  <1>6. /\ Cardinality(Backslashes(r, Len(r))) = Cardinality(Backslashes(s, Len(s) + 1)) + 1
        /\ Cardinality(Backslashes(s, Len(s) + 1)) \in Nat
    <2>1. Len(s) + 1 \in Nat /\ Len(s) + 1 >= 1 /\ Len(s) + 1 + 1 = Len(r)
      BY <1>3
    <2> QED BY <1>3, <1>5, <2>1, MoreBackslashes
  <1>7. Quotes(r) = Quotes(s)
    <2>1. Len(s) + 1 \notin Quotes(r)
      BY <1>3, SymbolsDiffer DEF Quotes
    <2>2. Len(r) \notin Quotes(r)
      <3>1. Cardinality(Backslashes(r, Len(r))) % 2 # 0
        BY <1>4, <1>6
      <3> QED BY <3>1 DEF Quotes, Backslashes
    <2>3. \A i \in Len(s) + 1 .. Len(r) : i = Len(s) + 1 \/ i = Len(r)
      BY <1>3
    <2> QED BY <1>2, <2>1, <2>2, <2>3, NoQuoteAdded
  <1>8. Unclosed(r) /\ Nesting(r) = n
    BY <1>2, <1>4, <1>7, NestingStays
  <1>9. Cardinality(Backslashes(r, Len(r) + 1)) % 2 = 0
    <2>1. CASE r[Len(r)] = BACKSLASH
      <3>1. Cardinality(Backslashes(r, Len(r) + 1)) = Cardinality(Backslashes(r, Len(r))) + 1
        BY <1>3, <2>1, MoreBackslashes
      <3> DEFINE c == Cardinality(Backslashes(s, Len(s) + 1))
      <3>2. c \in Nat /\ c % 2 = 0 /\ Cardinality(Backslashes(r, Len(r) + 1)) = c + 1 + 1
        BY <1>4, <1>6, <3>1
      <3> HIDE DEF c
      <3>3. (c + 1 + 1) % 2 = 0
        BY <3>2
      <3> QED BY <3>2, <3>3
    <2>2. CASE r[Len(r)] # BACKSLASH
      <3>1. Backslashes(r, Len(r) + 1) = {}
        <4>1. r[Len(r) + 1 - 1] # BACKSLASH /\ Len(r) + 1 \in Nat
          BY <1>3, <2>2
        <4> QED BY <4>1, NoBackslashes
      <3>2. Cardinality(Backslashes(r, Len(r) + 1)) = 0
        BY <3>1, FS_EmptySet
      <3> QED BY <3>2
    <2> QED BY <2>1, <2>2
  <1>10. Cardinality(Backslashes(r, q - b + 1)) % 2 = 0
    BY <1>3, <1>9
  <1> QED BY <1>8, <1>10 DEF Within_, r

\* The bars before p that no string holds.
Bars(t, p) == {i \in 1 .. p - 1 : t[i] = "|" /\ ~Quoted(t, i)}

\* What is quoted is within the string that is open after it.
LEMMA QuotedIsUnclosed ==
  ASSUME NEW t \in Seq(Symbols), NEW i \in 1 .. Len(t)
  PROVE  Quoted(t, i) <=> Unclosed(Part(t, 1, i + 1))
  <1> DEFINE s == SubSeq(t, 1, i)
  <1>1. Len(t) \in Nat /\ s \in Seq(Symbols) /\ Len(s) = i /\ \A k \in 1 .. i : s[k] = t[k]
    OBVIOUS
  <1>2. Continues(t, s)
    BY <1>1 DEF Continues
  <1>3. Part(t, 1, i + 1) = s
    <2>1. i + 1 - 1 = i
      OBVIOUS
    <2> QED BY <2>1 DEF Part
  <1> HIDE DEF s
  <1>4. Quotes(s) = {k \in Quotes(t) : k <= i}
    BY <1>1, <1>2, QuotesStay
  <1> QED BY <1>3, <1>4 DEF Quoted, Unclosed

\* What is no bar, or is within a string, adds none.
LEMMA BarsStay ==
  ASSUME NEW t, NEW p, NEW q, Reached(t, 1, p), Reached(t, 1, q), p <= q,
         \A i \in p .. q - 1 : t[i] # "|" \/ Unclosed(Part(t, 1, i + 1))
  PROVE  Bars(t, q) = Bars(t, p)
  <1>1. t \in Seq(Symbols) /\ p \in Nat /\ q \in Nat /\ Len(t) \in Nat /\ q <= Len(t) + 1 /\ p >= 1
    BY DEF Reached
  <1>2. \A i \in p .. q - 1 : i \in 1 .. Len(t)
    BY <1>1
  <1>3. \A i \in p .. q - 1 : t[i] # "|" \/ Quoted(t, i)
    BY <1>1, <1>2, QuotedIsUnclosed
  <1>4. \A i \in 1 .. q - 1 : i \in 1 .. p - 1 \/ i \in p .. q - 1
    BY <1>1
  <1>5. \A i \in 1 .. p - 1 : i \in 1 .. q - 1
    BY <1>1
  <1> QED BY <1>3, <1>4, <1>5 DEF Bars

\* The first bar after white space is one more.
LEMMA BarAdded ==
  ASSUME NEW t, NEW p, NEW q, NEW n, Reached(t, 1, p), Reached(t, 1, q), q = p + 1,
         Outside(t, 1, p, n), t[p] = "|"
  PROVE  Bars(t, q) = Bars(t, p) \union {p}
  <1>1. t \in Seq(Symbols) /\ p \in Nat /\ q \in Nat /\ Len(t) \in Nat /\ p <= q /\ p \in 1 .. Len(t)
    BY DEF Reached
  <1>2. Outside(t, 1, q, n)
    <2>1. \A i \in p .. q - 1 : i = p
      BY <1>1
    <2>2. "|" \notin {LBRACE, "[", RBRACE, "]", QUOTE, BACKSLASH}
      BY SymbolsDiffer
    <2> QED BY <1>1, <2>1, <2>2, PassOver
  <1>3. ~Quoted(t, p)
    BY <1>1, <1>2, QuotedIsUnclosed DEF Outside
  <1>4. \A i \in 1 .. q - 1 : i \in 1 .. p - 1 \/ i = p
    BY <1>1
  <1>5. (\A i \in 1 .. p - 1 : i \in 1 .. q - 1) /\ p \in 1 .. q - 1
    BY <1>1
  <1> QED BY <1>3, <1>4, <1>5 DEF Bars

-----------------------------------------------------------------------------
(***************************************************************************)
(* The positions the reader jumps to.                                      *)
(***************************************************************************)
\* A symbol that is there is told from the end of the text.
LEMMA SymbolIsThere ==
  ASSUME NEW t \in Seq(Symbols), NEW i \in Nat
  PROVE  /\ At(t, i) # NONE <=> i \in 1 .. Len(t)
         /\ At(t, i) # NONE => At(t, i) = t[i] /\ t[i] \in Symbols
  <1>1. DOMAIN t = 1 .. Len(t) /\ \A k \in 1 .. Len(t) : t[k] \in Symbols
    OBVIOUS
  <1> QED BY <1>1, SymbolsAssumption DEF At

\* PastAll is where a stretch of the symbols of S ends.
LEMMA PastAllFinds ==
  ASSUME NEW t \in Seq(Symbols), NEW i \in 1 .. Len(t) + 1, NEW S, NONE \notin S
  PROVE  /\ PastAll(t, i, S) \in i .. Len(t) + 1
         /\ At(t, PastAll(t, i, S)) \notin S
         /\ \A k \in i .. PastAll(t, i, S) - 1 : t[k] \in S
  <1> DEFINE Stops == {j \in i .. Len(t) + 1 : At(t, j) \notin S}
  <1>1. Len(t) \in Nat /\ Len(t) + 1 \in Stops /\ Stops \in SUBSET Nat
    BY SymbolIsThere
  <1>2. PICK j \in Stops : \A k \in Stops : j <= k
    <2> HIDE DEF Stops
    <2> QED BY <1>1, LeastExists
  <1>3. \A k \in i .. j - 1 : t[k] \in S
    <2> SUFFICES ASSUME NEW k \in i .. j - 1 PROVE t[k] \in S
      OBVIOUS
    <2>1. k \in Nat /\ k \in 1 .. Len(t) /\ k \in i .. Len(t) + 1 /\ ~(j <= k)
      BY <1>1
    <2>2. At(t, k) \in S
      BY <1>2, <2>1
    <2> QED BY <2>1, <2>2, SymbolIsThere
  <1>4. j \in i .. Len(t) + 1 /\ At(t, j) \notin S
    OBVIOUS
  <1> HIDE DEF Stops
  <1> QED BY <1>3, <1>4 DEF PastAll

\* White space is passed.
LEMMA SpaceIsPassed ==
  ASSUME NEW t \in Seq(Symbols), NEW i \in 1 .. Len(t) + 1
  PROVE  /\ SkipSpace(t, i) \in i .. Len(t) + 1
         /\ \A k \in i .. SkipSpace(t, i) - 1 : t[k] \in JsonSpace
  <1>1. NONE \notin JsonSpace
    BY SymbolsAssumption DEF Space
  <1> QED BY <1>1, PastAllFinds DEF SkipSpace

\* The symbols of a number.
Numeral == Digit \union {"-", "+", ".", "e"}

\* What is read of a number from i to j.
Numerals(i, j) == j \in i .. Len(text) + 1 /\ \A k \in i .. j - 1 : text[k] \in Numeral

\* Digits only passes digits.
LEMMA DigitsArePassed ==
  ASSUME text \in Seq(Symbols), NEW i \in 1 .. Len(text) + 1, Digits(i) # NONE
  PROVE  Numerals(i, Digits(i))
  <1>1. NONE \notin Digit
    BY SymbolsAssumption
  <1>2. Digits(i) = PastAll(text, i, Digit)
    BY DEF Digits
  <1> QED BY <1>1, <1>2, PastAllFinds DEF Numerals, Numeral

\* One part of a number after the other.
LEMMA NumeralsJoin ==
  ASSUME text \in Seq(Symbols), NEW i \in 1 .. Len(text) + 1, NEW j, NEW k, Numerals(i, j), Numerals(j, k)
  PROVE  Numerals(i, k)
  BY DEF Numerals

\* A character of a number is a place in the text, and so is the next one.
LEMMA OneNumeral ==
  ASSUME text \in Seq(Symbols), NEW i \in Nat, At(text, i) \in Numeral
  PROVE  i \in 1 .. Len(text) /\ i + 1 \in 1 .. Len(text) + 1 /\ Numerals(i, i + 1)
  <1>1. NONE \notin Numeral
    BY SymbolsAssumption DEF Numeral
  <1>2. At(text, i) # NONE
    BY <1>1
  <1>3. i \in 1 .. Len(text) /\ text[i] \in Numeral
    BY <1>2, SymbolIsThere
  <1>4. Len(text) \in Nat
    OBVIOUS
  <1> QED BY <1>3, <1>4 DEF Numerals

\* The digits a number begins with are followed by symbols of a number.
LEMMA NumberGoesOn ==
  ASSUME text \in Seq(Symbols), pos \in 1 .. Len(text) + 1, NumberEnd # NONE
  PROVE  Numerals(pos, IntegerEnd) /\ IntegerEnd \in 1 .. Len(text) + 1 /\ Numerals(IntegerEnd, NumberEnd)
  <1>0. Len(text) \in Nat /\ NONE \notin Nat
    BY NoneAssumption
  <1>1. Numerals(pos, IntegerStart) /\ IntegerStart \in 1 .. Len(text) + 1
    <2>1. CASE Peek = "-"
      <3>1. At(text, pos) \in Numeral
        BY <2>1 DEF Peek, Numeral
      <3> QED BY <2>1, <3>1, OneNumeral DEF IntegerStart
    <2>2. CASE Peek # "-"
      BY <1>0, <2>2 DEF IntegerStart, Numerals
    <2> QED BY <2>1, <2>2
  <1>2. IntegerEnd # NONE /\ NumberEnd = ExponentEnd(FractionEnd(IntegerEnd))
    BY DEF NumberEnd
  <1>3. Numerals(pos, IntegerEnd) /\ IntegerEnd \in 1 .. Len(text) + 1
    <2>1. Numerals(IntegerStart, IntegerEnd)
      BY <1>1, <1>2, DigitsArePassed DEF IntegerEnd
    <2>2. Numerals(pos, IntegerEnd)
      BY <1>1, <2>1, NumeralsJoin
    <2> QED BY <1>0, <2>2 DEF Numerals
  <1> DEFINE f == FractionEnd(IntegerEnd)
  <1>4. f # NONE
    BY <1>2 DEF ExponentEnd
  <1>5. Numerals(IntegerEnd, f) /\ f \in 1 .. Len(text) + 1
    <2>1. CASE At(text, IntegerEnd) = "."
      <3>1. At(text, IntegerEnd) \in Numeral
        BY <2>1 DEF Numeral
      <3>2. Numerals(IntegerEnd, IntegerEnd + 1) /\ IntegerEnd + 1 \in 1 .. Len(text) + 1
        BY <1>3, <3>1, OneNumeral
      <3>3. f = Digits(IntegerEnd + 1)
        BY <2>1 DEF FractionEnd
      <3>4. Numerals(IntegerEnd + 1, f)
        BY <1>4, <3>2, <3>3, DigitsArePassed
      <3>5. Numerals(IntegerEnd, f)
        BY <1>3, <3>2, <3>4, NumeralsJoin
      <3> QED BY <1>0, <1>3, <3>5 DEF Numerals
    <2>2. CASE At(text, IntegerEnd) # "."
      BY <1>0, <1>3, <2>2 DEF FractionEnd, Numerals
    <2> QED BY <2>1, <2>2
  <1> HIDE DEF f
  <1>6. CASE At(text, f) = "e"
    <2>1. At(text, f) \in Numeral
      BY <1>6 DEF Numeral
    <2>2. Numerals(f, f + 1) /\ f + 1 \in 1 .. Len(text) + 1
      BY <1>5, <2>1, OneNumeral
    <2> DEFINE d == IF At(text, f + 1) \in {"+", "-"} THEN f + 2 ELSE f + 1
    <2>3. NumberEnd = Digits(d)
      BY <1>2, <1>4, <1>6 DEF ExponentEnd, f
    <2>4. Numerals(f + 1, d) /\ d \in 1 .. Len(text) + 1
      <3>1. CASE At(text, f + 1) \in {"+", "-"}
        <4>1. At(text, f + 1) \in Numeral
          BY <3>1 DEF Numeral
        <4>2. f + 1 \in Nat /\ f + 1 + 1 = f + 2
          BY <1>5
        <4>3. Numerals(f + 1, f + 1 + 1) /\ f + 1 + 1 \in 1 .. Len(text) + 1
          BY <4>1, <4>2, OneNumeral
        <4> QED BY <3>1, <4>2, <4>3
      <3>2. CASE At(text, f + 1) \notin {"+", "-"}
        BY <1>0, <2>2, <3>2 DEF Numerals
      <3> QED BY <3>1, <3>2
    <2> HIDE DEF d
    <2>5. Numerals(d, NumberEnd)
      BY <2>3, <2>4, DigitsArePassed
    <2>6. Numerals(IntegerEnd, f + 1)
      BY <1>3, <1>5, <2>2, NumeralsJoin
    <2>7. Numerals(IntegerEnd, d)
      BY <1>3, <2>4, <2>6, NumeralsJoin
    <2>8. Numerals(IntegerEnd, NumberEnd)
      BY <1>3, <2>5, <2>7, NumeralsJoin
    <2> QED BY <1>3, <2>8
  <1>7. CASE At(text, f) # "e"
    BY <1>2, <1>3, <1>5, <1>7 DEF ExponentEnd, f
  <1> QED BY <1>6, <1>7

\* A number ends after the symbols of a number.
LEMMA NumberIsPassed ==
  ASSUME text \in Seq(Symbols), pos \in 1 .. Len(text) + 1, NumberEnd # NONE
  PROVE  Numerals(pos, NumberEnd)
  BY NumberGoesOn, NumeralsJoin

-----------------------------------------------------------------------------
(***************************************************************************)
(* What the reader does from one position to the next.                     *)
(***************************************************************************)
\* From p to q no bar is passed that is outside the strings.
Advanced(t, b, p, q) == p <= q /\ Reached(t, b, q) /\ (b = 1 => Bars(t, q) = Bars(t, p))

\* Two advances in a row are one.
LEMMA AdvancedTwice ==
  ASSUME NEW t, NEW b, NEW p, NEW q, NEW r, Reached(t, b, p), Advanced(t, b, p, q), Advanced(t, b, q, r)
  PROVE  Advanced(t, b, p, r)
  BY DEF Advanced, Reached

\* Symbols that mean nothing here are passed.
LEMMA OverSymbols ==
  ASSUME NEW t, NEW b, NEW p, NEW q, NEW n, Reached(t, b, p), q \in p .. Len(t) + 1,
         Outside(t, b, p, n),
         \A i \in p .. q - 1 : t[i] \notin {LBRACE, "[", RBRACE, "]", QUOTE, BACKSLASH, "|"}
  PROVE  Outside(t, b, q, n) /\ Advanced(t, b, p, q)
  <1>1. Reached(t, b, q) /\ p <= q
    BY DEF Reached
  <1>2. Outside(t, b, q, n)
    BY <1>1, PassOver
  <1>3. b = 1 => Bars(t, q) = Bars(t, p)
    BY <1>1, BarsStay
  <1> QED BY <1>1, <1>2, <1>3 DEF Advanced

\* White space is passed.
LEMMA OverSpace ==
  ASSUME NEW t, NEW b, NEW p, NEW n, Reached(t, b, p), Outside(t, b, p, n)
  PROVE  Outside(t, b, SkipSpace(t, p), n) /\ Advanced(t, b, p, SkipSpace(t, p))
  <1>1. t \in Seq(Symbols) /\ p \in 1 .. Len(t) + 1
    BY DEF Reached
  <1>2. SkipSpace(t, p) \in p .. Len(t) + 1 /\ \A k \in p .. SkipSpace(t, p) - 1 : t[k] \in JsonSpace
    BY <1>1, SpaceIsPassed
  <1>3. \A x \in JsonSpace : x \notin {LBRACE, "[", RBRACE, "]", QUOTE, BACKSLASH, "|"}
    BY SymbolsDiffer DEF JsonSpace
  <1> QED BY <1>2, <1>3, OverSymbols

\* A bracket is passed.
LEMMA OverBracket ==
  ASSUME NEW t, NEW b, NEW p, NEW q, NEW n \in Int, Reached(t, b, p), p <= Len(t), q = p + 1,
         Outside(t, b, p, n), t[p] \in {LBRACE, "[", RBRACE, "]"}
  PROVE  /\ Outside(t, b, q, n + (IF t[p] \in {LBRACE, "["} THEN 1 ELSE -1))
         /\ Advanced(t, b, p, q)
  <1>1. Reached(t, b, q) /\ p <= q
    BY DEF Reached
  <1>2. t[p] # "|"
    BY SymbolsDiffer
  <1>3. \A i \in p .. q - 1 : i = p
    BY DEF Reached
  <1>4. b = 1 => Bars(t, q) = Bars(t, p)
    BY <1>1, <1>2, <1>3, BarsStay
  <1>5. Outside(t, b, q, n + (IF t[p] \in {LBRACE, "["} THEN 1 ELSE -1))
    BY <1>1, PassBracket
  <1> QED BY <1>1, <1>4, <1>5 DEF Advanced

\* The quote that opens a string is passed.
LEMMA OverOpeningQuote ==
  ASSUME NEW t, NEW b, NEW p, NEW q, NEW n, Reached(t, b, p), p <= Len(t), q = p + 1,
         Outside(t, b, p, n), t[p] = QUOTE
  PROVE  Within_(t, b, q, n) /\ Advanced(t, b, p, q)
  <1>1. Reached(t, b, q) /\ p <= q
    BY DEF Reached
  <1>2. t[p] # "|"
    BY SymbolsDiffer
  <1>3. \A i \in p .. q - 1 : i = p
    BY DEF Reached
  <1>4. b = 1 => Bars(t, q) = Bars(t, p)
    BY <1>1, <1>2, <1>3, BarsStay
  <1>5. Within_(t, b, q, n)
    BY <1>1, PassOpeningQuote
  <1> QED BY <1>1, <1>4, <1>5 DEF Advanced

\* The quote that closes it is passed.
LEMMA OverClosingQuote ==
  ASSUME NEW t, NEW b, NEW p, NEW q, NEW n, Reached(t, b, p), p <= Len(t), q = p + 1,
         Within_(t, b, p, n), t[p] = QUOTE
  PROVE  Outside(t, b, q, n) /\ Advanced(t, b, p, q)
  <1>1. Reached(t, b, q) /\ p <= q
    BY DEF Reached
  <1>2. t[p] # "|"
    BY SymbolsDiffer
  <1>3. \A i \in p .. q - 1 : i = p
    BY DEF Reached
  <1>4. b = 1 => Bars(t, q) = Bars(t, p)
    BY <1>1, <1>2, <1>3, BarsStay
  <1>5. Outside(t, b, q, n)
    BY <1>1, PassClosingQuote
  <1> QED BY <1>1, <1>4, <1>5 DEF Advanced

\* A symbol of a string is passed.
LEMMA OverPlain ==
  ASSUME NEW t, NEW b, NEW p, NEW q, NEW n, Reached(t, b, p), p <= Len(t), q = p + 1,
         Within_(t, b, p, n), t[p] \notin {QUOTE, BACKSLASH}
  PROVE  Within_(t, b, q, n) /\ Advanced(t, b, p, q)
  <1>1. Reached(t, b, q) /\ p <= q
    BY DEF Reached
  <1>2. Within_(t, b, q, n)
    BY <1>1, PassPlain
  <1>3. \A i \in p .. q - 1 : i = p /\ i + 1 = q
    BY DEF Reached
  <1>4. b = 1 => Bars(t, q) = Bars(t, p)
    <2>1. b = 1 => Unclosed(Part(t, 1, q))
      BY <1>2 DEF Within_
    <2> QED BY <1>1, <1>3, <2>1, BarsStay
  <1> QED BY <1>1, <1>2, <1>4 DEF Advanced

\* An escape is passed.
LEMMA OverEscape ==
  ASSUME NEW t, NEW b, NEW p, NEW q, NEW n, Reached(t, b, p), p + 1 <= Len(t), q = p + 2,
         Within_(t, b, p, n), t[p] = BACKSLASH
  PROVE  Within_(t, b, q, n) /\ Advanced(t, b, p, q)
  <1>1. Reached(t, b, q) /\ p <= q
    BY DEF Reached
  <1>2. Within_(t, b, q, n)
    BY <1>1, PassEscape
  <1>3. \A i \in p .. q - 1 : i = p \/ i + 1 = q
    BY DEF Reached
  <1>4. t[p] # "|"
    BY SymbolsDiffer
  <1>5. b = 1 => Bars(t, q) = Bars(t, p)
    <2>1. b = 1 => Unclosed(Part(t, 1, q))
      BY <1>2 DEF Within_
    <2> QED BY <1>1, <1>3, <1>4, <2>1, BarsStay
  <1> QED BY <1>1, <1>2, <1>5 DEF Advanced

-----------------------------------------------------------------------------
(***************************************************************************)
(* The reader's state: where it is, and what is open there.                *)
(***************************************************************************)
Between == {"value", "close", "name", "colon", "next", "complete"}
InText  == {"in_name", "in_string"}

\* The reader has come from b to pos, and knows whether a string is open there
\* and how many arrays and objects.
Scanning(b) ==
  /\ Reached(text, b, pos)
  /\ mode \in Between => Outside(text, b, pos, depth)
  /\ mode \in InText => Within_(text, b, pos, depth)

\* What is open, each of it with a place for its end.
Frames(s) == IsSequence(s) /\ \A i \in 1 .. Len(s) : "end" \in DOMAIN s[i]

Nested ==
  /\ Frames(stack) /\ depth = Len(stack)
  /\ mode \in {"close", "name", "colon", "next", "in_name"} => stack # <<>>
  /\ mode = "complete" => stack = <<>> /\ value.end = pos

\* One step: the text is the same, and pos has come further.
Moves(b) == text' = text /\ Advanced(text, b, pos, pos') /\ Scanning(b)'

\* A sequence that is not empty has a last member.
LEMMA SequenceHasLast ==
  ASSUME NEW s, IsSequence(s)
  PROVE  /\ Len(s) \in Nat /\ DOMAIN s = 1 .. Len(s)
         /\ s # <<>> => Len(s) \in 1 .. Len(s)
  <1> DEFINE S == Range(s)
  <1>1. s \in Seq(S)
    BY DEF IsSequence
  <1> HIDE DEF S
  <1> QED BY <1>1

\* Changing a frame's members leaves the rest of what is open.
LEMMA FrameChanged ==
  ASSUME NEW s, Frames(s), s # <<>>, NEW f, DOMAIN f = DOMAIN s[Len(s)],
         NEW t, t = [s EXCEPT ![Len(s)] = f]
  PROVE  Frames(t) /\ Len(t) = Len(s) /\ t # <<>>
  <1>1. Len(s) \in Nat /\ DOMAIN s = 1 .. Len(s) /\ Len(s) \in 1 .. Len(s)
    BY SequenceHasLast DEF Frames
  <1>2. t = [i \in 1 .. Len(s) |-> t[i]]
    BY <1>1
  <1>3. IsSequence(t) /\ Len(t) = Len(s)
    BY <1>1, <1>2, IsSequenceOf
  <1>4. \A i \in 1 .. Len(s) : "end" \in DOMAIN t[i]
    BY <1>1 DEF Frames
  <1>5. t # <<>>
    BY <1>1, <1>3
  <1> QED BY <1>3, <1>4, <1>5 DEF Frames

\* A value that is complete is an item of what is open.
LEMMA CompleteKeepsFrames ==
  ASSUME NEW v, NEW frames, Frames(frames), Complete(v, frames)
  PROVE  /\ pos' = v.end /\ Frames(stack') /\ Len(stack') = Len(frames)
         /\ mode' = (IF frames = <<>> THEN "complete" ELSE "next")
         /\ mode' = "next" => stack' # <<>>
         /\ mode' = "complete" => stack' = <<>> /\ value'.end = pos'
  <1>1. CASE frames = <<>>
    BY <1>1 DEF Complete, Frames
  <1>2. CASE frames # <<>>
    <2> DEFINE top == frames[Len(frames)]
               new == [top EXCEPT !.items = Append(@, v)]
    <2>1. pos' = v.end /\ mode' = "next"
      BY <1>2 DEF Complete
    <2>2. stack' = [frames EXCEPT ![Len(frames)] = new]
      BY <1>2 DEF Complete
    <2>3. DOMAIN new = DOMAIN top
      OBVIOUS
    <2> HIDE DEF new
    <2>4. Frames(stack') /\ Len(stack') = Len(frames) /\ stack' # <<>>
      BY <1>2, <2>2, <2>3, FrameChanged
    <2> QED BY <1>2, <2>1, <2>4
  <1> QED BY <1>1, <1>2

\* What follows from a symbol at pos.
LEMMA PeekIsThere ==
  ASSUME text \in Seq(Symbols), pos \in 1 .. Len(text) + 1, Peek # NONE
  PROVE  pos \in 1 .. Len(text) /\ Peek = text[pos]
  BY SymbolIsThere DEF Peek

\* A step to where no string is open.
LEMMA MovesBetween ==
  ASSUME NEW b, Scanning(b), text' = text, Advanced(text, b, pos, pos'), mode' \in Between,
         Outside(text, b, pos', depth')
  PROVE  Moves(b)
  <1>1. mode' \notin InText
    BY DEF Between, InText
  <1>2. Reached(text, b, pos')
    BY DEF Advanced
  <1> QED BY <1>1, <1>2 DEF Moves, Scanning

\* A step to where a string is.
LEMMA MovesWithin ==
  ASSUME NEW b, Scanning(b), text' = text, Advanced(text, b, pos, pos'), mode' \in InText,
         Within_(text, b, pos', depth')
  PROVE  Moves(b)
  <1>1. mode' \notin Between
    BY DEF Between, InText
  <1>2. Reached(text, b, pos')
    BY DEF Advanced
  <1> QED BY <1>1, <1>2 DEF Moves, Scanning

\* The end of the reading.
LEMMA StopMoves ==
  ASSUME NEW b, Scanning(b), Nested, NEW why, Stop(why)
  PROVE  Moves(b) /\ Nested'
  <1>1. mode' \notin Between /\ mode' \notin InText /\ mode' = "stopped"
    BY DEF Stop, Between, InText
  <1>2. text' = text /\ pos' = pos /\ stack' = stack /\ depth' = depth
    BY DEF Stop
  <1>3. Advanced(text, b, pos, pos')
    BY <1>2 DEF Advanced, Scanning, Reached
  <1>4. Scanning(b)'
    BY <1>1, <1>2 DEF Scanning
  <1>5. Nested'
    BY <1>1, <1>2 DEF Nested
  <1> QED BY <1>2, <1>3, <1>4, <1>5 DEF Moves

\* An array or object is entered.
LEMMA OpenMoves ==
  ASSUME NEW b, Scanning(b), Nested, Open
  PROVE  Moves(b) /\ Nested'
  <1>1. /\ mode \in Between /\ Reached(text, b, pos) /\ Outside(text, b, pos, depth)
        /\ text \in Seq(Symbols) /\ pos \in 1 .. Len(text) + 1
    BY DEF Open, Scanning, Reached, Between
  <1>2. pos \in 1 .. Len(text) /\ Peek = text[pos] /\ text[pos] \in {LBRACE, "["}
    <2>1. Peek \in {LBRACE, "["}
      BY DEF Open
    <2>2. Peek # NONE
      BY <2>1, SymbolsAssumption
    <2> QED BY <1>1, <2>1, <2>2, PeekIsThere
  <1>3. /\ text' = text /\ depth' = depth + 1 /\ pos' = SkipSpace(text, pos + 1)
        /\ mode' \in {"close", "name", "value"}
    BY DEF Open
  <1>4. depth \in Int
    BY SequenceHasLast DEF Nested, Frames
  <1> DEFINE q == pos + 1
  <1>5. Outside(text, b, q, depth + 1) /\ Advanced(text, b, pos, q)
    <2>1. pos <= Len(text) /\ q = pos + 1
      BY <1>2
    <2> HIDE DEF q
    <2> QED BY <1>1, <1>2, <1>4, <2>1, OverBracket
  <1>6. Outside(text, b, pos', depth + 1) /\ Advanced(text, b, q, pos')
    <2>1. pos' = SkipSpace(text, q)
      BY <1>3
    <2> HIDE DEF q
    <2>2. Reached(text, b, q)
      BY <1>5 DEF Advanced
    <2> QED BY <1>5, <2>1, <2>2, OverSpace
  <1> HIDE DEF q
  <1>7. Advanced(text, b, pos, pos')
    BY <1>1, <1>5, <1>6, AdvancedTwice
  <1>8. Moves(b)
    BY <1>3, <1>6, <1>7, MovesBetween DEF Between
  <1>9. Nested'
    <2> DEFINE f == Atom(IF Peek = LBRACE THEN "object" ELSE "array", pos, pos, <<>>)
    <2>1. stack' = Append(stack, f) /\ "end" \in DOMAIN f
      BY DEF Open, Atom
    <2> HIDE DEF f
    <2>2. /\ IsSequence(stack') /\ Len(stack') = Len(stack) + 1 /\ Len(stack) \in Nat
          /\ stack'[Len(stack) + 1] = f /\ \A i \in 1 .. Len(stack) : stack'[i] = stack[i]
      BY <2>1, Appended DEF Nested, Frames
    <2>3. Frames(stack')
      BY <2>1, <2>2 DEF Nested, Frames
    <2>4. depth' = Len(stack') /\ stack' # <<>>
      BY <1>3, <2>2 DEF Nested
    <2>5. mode' # "complete"
      BY <1>3
    <2> QED BY <2>3, <2>4, <2>5 DEF Nested
  <1> QED BY <1>8, <1>9

\* The first quote of a name or of a string.
LEMMA OpenStringMoves ==
  ASSUME NEW b, Scanning(b), Nested, OpenString
  PROVE  Moves(b) /\ Nested'
  <1>1. /\ mode \in Between /\ Reached(text, b, pos) /\ Outside(text, b, pos, depth)
        /\ text \in Seq(Symbols) /\ pos \in 1 .. Len(text) + 1
    BY DEF OpenString, Scanning, Reached, Between
  <1>2. pos \in 1 .. Len(text) /\ text[pos] = QUOTE
    <2>1. Peek = QUOTE
      BY DEF OpenString
    <2>2. Peek # NONE
      BY <2>1, SymbolsAssumption
    <2> QED BY <1>1, <2>1, <2>2, PeekIsThere
  <1>3. /\ text' = text /\ depth' = depth /\ pos' = pos + 1 /\ stack' = stack
        /\ mode' = (IF mode = "name" THEN "in_name" ELSE "in_string")
    BY DEF OpenString
  <1>4. pos <= Len(text)
    BY <1>2
  <1>5. Within_(text, b, pos', depth) /\ Advanced(text, b, pos, pos')
    BY <1>1, <1>2, <1>3, <1>4, OverOpeningQuote
  <1>6. Moves(b)
    BY <1>3, <1>5, MovesWithin DEF InText
  <1>7. Nested'
    BY <1>3 DEF Nested
  <1> QED BY <1>6, <1>7

\* A value of which nothing was opened is complete.
LEMMA AtomMoves ==
  ASSUME NEW b, Scanning(b), Nested, NEW v, Complete(v, stack), text' = text, depth' = depth,
         Advanced(text, b, pos, v.end), Outside(text, b, v.end, depth)
  PROVE  Moves(b) /\ Nested'
  <1>1. /\ pos' = v.end /\ Frames(stack') /\ Len(stack') = Len(stack)
        /\ mode' = (IF stack = <<>> THEN "complete" ELSE "next")
        /\ mode' = "next" => stack' # <<>>
        /\ mode' = "complete" => stack' = <<>> /\ value'.end = pos'
    BY CompleteKeepsFrames DEF Nested
  <1>2. mode' \in Between
    BY <1>1 DEF Between
  <1>3. Moves(b)
    BY <1>1, <1>2, MovesBetween
  <1>4. Nested'
    BY <1>1 DEF Nested
  <1> QED BY <1>3, <1>4

\* A word is passed.
LEMMA ReadLiteralMoves ==
  ASSUME NEW b, Scanning(b), Nested, ReadLiteral
  PROVE  Moves(b) /\ Nested'
  <1>1. /\ mode \in Between /\ Reached(text, b, pos) /\ Outside(text, b, pos, depth)
        /\ text \in Seq(Symbols) /\ pos \in 1 .. Len(text) + 1
    BY DEF ReadLiteral, Scanning, Reached, Between
  <1>2. pos \in 1 .. Len(text) /\ text[pos] \in Literal
    <2>1. Peek \in Literal
      BY DEF ReadLiteral
    <2>2. Peek # NONE
      BY <2>1, SymbolsAssumption
    <2> QED BY <1>1, <2>1, <2>2, PeekIsThere
  <1> DEFINE q == pos + 1
             v == Atom(IF Peek = "null" THEN "null" ELSE "boolean", pos, q, <<Peek>>)
  <1>3. v.end = q
    BY DEF Atom
  <1>4. text' = text /\ depth' = depth /\ Complete(v, stack)
    BY DEF ReadLiteral
  <1>5. Outside(text, b, q, depth) /\ Advanced(text, b, pos, q)
    <2>1. q \in pos .. Len(text) + 1 /\ \A i \in pos .. q - 1 : i = pos
      BY <1>2
    <2>2. text[pos] \notin {LBRACE, "[", RBRACE, "]", QUOTE, BACKSLASH, "|"}
      BY <1>2, SymbolsDiffer DEF Literal
    <2> HIDE DEF q
    <2> QED BY <1>1, <2>1, <2>2, OverSymbols
  <1> HIDE DEF q, v
  <1> QED BY <1>3, <1>4, <1>5, AtomMoves

\* A number is passed.
LEMMA ReadNumberMoves ==
  ASSUME NEW b, Scanning(b), Nested, ReadNumber
  PROVE  Moves(b) /\ Nested'
  <1>1. /\ mode \in Between /\ Reached(text, b, pos) /\ Outside(text, b, pos, depth)
        /\ text \in Seq(Symbols) /\ pos \in 1 .. Len(text) + 1 /\ NumberEnd # NONE
    BY DEF ReadNumber, Scanning, Reached, Between
  <1>2. NumberEnd \in pos .. Len(text) + 1 /\ \A k \in pos .. NumberEnd - 1 : text[k] \in Numeral
    BY <1>1, NumberIsPassed DEF Numerals
  <1> DEFINE v == Atom("number", pos, NumberEnd, SubSeq(text, pos, NumberEnd - 1))
  <1>3. v.end = NumberEnd
    BY DEF Atom
  <1>4. text' = text /\ depth' = depth /\ Complete(v, stack)
    BY DEF ReadNumber
  <1>5. Outside(text, b, NumberEnd, depth) /\ Advanced(text, b, pos, NumberEnd)
    <2>1. \A x \in Numeral : x \notin {LBRACE, "[", RBRACE, "]", QUOTE, BACKSLASH, "|"}
      BY SymbolsDiffer DEF Numeral, Digit
    <2> QED BY <1>1, <1>2, <2>1, OverSymbols
  <1> HIDE DEF v
  <1> QED BY <1>3, <1>4, <1>5, AtomMoves

\* The last quote of a string.
LEMMA CloseStringMoves ==
  ASSUME NEW b, Scanning(b), Nested, CloseString
  PROVE  Moves(b) /\ Nested'
  <1>1. /\ mode \in InText /\ Reached(text, b, pos) /\ Within_(text, b, pos, depth)
        /\ text \in Seq(Symbols) /\ pos \in 1 .. Len(text) + 1
    BY DEF CloseString, Scanning, Reached, InText
  <1>2. pos \in 1 .. Len(text) /\ text[pos] = QUOTE
    <2>1. Peek = QUOTE
      BY DEF CloseString
    <2>2. Peek # NONE
      BY <2>1, SymbolsAssumption
    <2> QED BY <1>1, <2>1, <2>2, PeekIsThere
  <1> DEFINE q == pos + 1
             v == Atom("string", start, q, Raw)
  <1>3. v.end = q /\ q = pos + 1 /\ pos <= Len(text)
    BY <1>2 DEF Atom
  <1>4. text' = text /\ depth' = depth /\ Complete(v, stack)
    BY DEF CloseString
  <1> HIDE DEF q, v
  <1>5. Outside(text, b, q, depth) /\ Advanced(text, b, pos, q)
    BY <1>1, <1>2, <1>3, OverClosingQuote
  <1> QED BY <1>3, <1>4, <1>5, AtomMoves

\* A symbol of a string.
LEMMA ReadPlainMoves ==
  ASSUME NEW b, Scanning(b), Nested, ReadPlain
  PROVE  Moves(b) /\ Nested'
  <1>1. /\ mode \in InText /\ Reached(text, b, pos) /\ Within_(text, b, pos, depth)
        /\ text \in Seq(Symbols) /\ pos \in 1 .. Len(text) + 1
    BY DEF ReadPlain, InString, Scanning, Reached, InText
  <1>2. pos \in 1 .. Len(text) /\ text[pos] \notin {QUOTE, BACKSLASH}
    <2>1. Peek \notin {QUOTE, BACKSLASH} /\ Peek # NONE
      BY DEF ReadPlain, InString
    <2> QED BY <1>1, <2>1, PeekIsThere
  <1>3. text' = text /\ depth' = depth /\ pos' = pos + 1 /\ stack' = stack /\ mode' = mode
    BY DEF ReadPlain
  <1>4. pos <= Len(text)
    BY <1>2
  <1>5. Within_(text, b, pos', depth) /\ Advanced(text, b, pos, pos')
    BY <1>1, <1>2, <1>3, <1>4, OverPlain
  <1>6. Moves(b)
    BY <1>1, <1>3, <1>5, MovesWithin
  <1>7. mode' # "complete"
    BY <1>1, <1>3 DEF InText
  <1>8. Nested'
    BY <1>3, <1>7 DEF Nested
  <1> QED BY <1>6, <1>8

\* An escape.
LEMMA ReadEscapeMoves ==
  ASSUME NEW b, Scanning(b), Nested, ReadEscape
  PROVE  Moves(b) /\ Nested'
  <1>1. /\ mode \in InText /\ Reached(text, b, pos) /\ Within_(text, b, pos, depth)
        /\ text \in Seq(Symbols) /\ pos \in 1 .. Len(text) + 1
    BY DEF ReadEscape, InString, Scanning, Reached, InText
  <1>2. pos \in 1 .. Len(text) /\ text[pos] = BACKSLASH
    <2>1. Peek = BACKSLASH /\ Peek # NONE
      BY DEF ReadEscape, InString
    <2> QED BY <1>1, <2>1, PeekIsThere
  <1>3. text' = text /\ depth' = depth /\ pos' = pos + 2 /\ stack' = stack /\ mode' = mode
    BY DEF ReadEscape, EscapedFrom
  <1>4. pos + 1 <= Len(text)
    <2>1. At(text, pos + 1) # NONE /\ pos + 1 \in Nat
      BY <1>2 DEF ReadEscape
    <2>2. pos + 1 \in 1 .. Len(text)
      BY <1>1, <2>1, SymbolIsThere
    <2> QED BY <2>2
  <1>5. Within_(text, b, pos', depth) /\ Advanced(text, b, pos, pos')
    BY <1>1, <1>2, <1>3, <1>4, OverEscape
  <1>6. Moves(b)
    BY <1>1, <1>3, <1>5, MovesWithin
  <1>7. mode' # "complete"
    BY <1>1, <1>3 DEF InText
  <1>8. Nested'
    BY <1>3, <1>7 DEF Nested
  <1> QED BY <1>6, <1>8

\* The last quote of a name, and the space after it.
LEMMA CloseNameMoves ==
  ASSUME NEW b, Scanning(b), Nested, CloseName
  PROVE  Moves(b) /\ Nested'
  <1>1. /\ mode \in InText /\ Reached(text, b, pos) /\ Within_(text, b, pos, depth)
        /\ text \in Seq(Symbols) /\ pos \in 1 .. Len(text) + 1
    BY DEF CloseName, Scanning, Reached, InText
  <1>2. pos \in 1 .. Len(text) /\ text[pos] = QUOTE
    <2>1. Peek = QUOTE
      BY DEF CloseName
    <2>2. Peek # NONE
      BY <2>1, SymbolsAssumption
    <2> QED BY <1>1, <2>1, <2>2, PeekIsThere
  <1>3. /\ text' = text /\ depth' = depth /\ pos' = SkipSpace(text, pos + 1) /\ mode' = "colon"
        /\ stack' = [stack EXCEPT ![Len(stack)].names = Append(@, Raw)]
    BY DEF CloseName
  <1> DEFINE q == pos + 1
  <1>4. pos <= Len(text) /\ q = pos + 1
    BY <1>2
  <1>5. pos' = SkipSpace(text, q)
    BY <1>3
  <1> HIDE DEF q
  <1>6. Outside(text, b, q, depth) /\ Advanced(text, b, pos, q) /\ Reached(text, b, q)
    BY <1>1, <1>2, <1>4, OverClosingQuote DEF Advanced
  <1>7. Outside(text, b, pos', depth) /\ Advanced(text, b, q, pos')
    BY <1>5, <1>6, OverSpace
  <1>8. Advanced(text, b, pos, pos')
    BY <1>1, <1>6, <1>7, AdvancedTwice
  <1>9. Moves(b)
    BY <1>3, <1>7, <1>8, MovesBetween DEF Between
  <1>10. Nested'
    <2> DEFINE top == stack[Len(stack)]
               f == [top EXCEPT !.names = Append(@, Raw)]
    <2>1. stack # <<>>
      BY DEF CloseName, Nested
    <2>2. stack' = [stack EXCEPT ![Len(stack)] = f]
      BY <1>3
    <2>3. DOMAIN f = DOMAIN top
      OBVIOUS
    <2> HIDE DEF f
    <2>4. Frames(stack') /\ Len(stack') = Len(stack) /\ stack' # <<>>
      BY <2>1, <2>2, <2>3, FrameChanged DEF Nested
    <2>5. mode' # "complete"
      BY <1>3
    <2> QED BY <1>3, <2>4, <2>5 DEF Nested
  <1> QED BY <1>9, <1>10

\* The colon after a name.
LEMMA ColonMoves ==
  ASSUME NEW b, Scanning(b), Nested, Colon
  PROVE  Moves(b) /\ Nested'
  <1>1. /\ mode \in Between /\ Reached(text, b, pos) /\ Outside(text, b, pos, depth)
        /\ text \in Seq(Symbols) /\ pos \in 1 .. Len(text) + 1
    BY DEF Colon, Scanning, Reached, Between
  <1>2. pos \in 1 .. Len(text) /\ text[pos] = ":"
    <2>1. Peek = ":"
      BY DEF Colon
    <2>2. Peek # NONE
      BY <2>1, SymbolsAssumption
    <2> QED BY <1>1, <2>1, <2>2, PeekIsThere
  <1>3. /\ text' = text /\ depth' = depth /\ pos' = SkipSpace(text, pos + 1) /\ mode' = "value"
        /\ stack' = stack
    BY DEF Colon
  <1> DEFINE q == pos + 1
  <1>4. pos' = SkipSpace(text, q)
    BY <1>3
  <1>5. Outside(text, b, q, depth) /\ Advanced(text, b, pos, q)
    <2>1. q \in pos .. Len(text) + 1 /\ \A i \in pos .. q - 1 : i = pos
      BY <1>2
    <2>2. text[pos] \notin {LBRACE, "[", RBRACE, "]", QUOTE, BACKSLASH, "|"}
      BY <1>2, SymbolsDiffer
    <2> HIDE DEF q
    <2> QED BY <1>1, <2>1, <2>2, OverSymbols
  <1> HIDE DEF q
  <1>6. Reached(text, b, q)
    BY <1>5 DEF Advanced
  <1>7. Outside(text, b, pos', depth) /\ Advanced(text, b, q, pos')
    BY <1>4, <1>5, <1>6, OverSpace
  <1>8. Advanced(text, b, pos, pos')
    BY <1>1, <1>5, <1>7, AdvancedTwice
  <1>9. Moves(b)
    BY <1>3, <1>7, <1>8, MovesBetween DEF Between
  <1>10. Nested'
    BY <1>3 DEF Nested
  <1> QED BY <1>9, <1>10

\* The comma after an item, and the space around it.
LEMMA CommaMoves ==
  ASSUME NEW b, Scanning(b), Nested, Comma
  PROVE  Moves(b) /\ Nested'
  <1>1. /\ mode \in Between /\ Reached(text, b, pos) /\ Outside(text, b, pos, depth)
        /\ text \in Seq(Symbols) /\ pos \in 1 .. Len(text) + 1
    BY DEF Comma, Scanning, Reached, Between
  <1> DEFINE c == Next_
             q == c + 1
  <1>2. Outside(text, b, c, depth) /\ Advanced(text, b, pos, c) /\ Reached(text, b, c)
    BY <1>1, OverSpace DEF Next_, Advanced
  <1>3. c \in 1 .. Len(text) /\ text[c] = COMMA
    <2>1. At(text, c) = COMMA /\ c \in Nat
      BY <1>2 DEF Comma, Reached
    <2>2. At(text, c) # NONE
      BY <2>1, SymbolsAssumption
    <2> HIDE DEF c
    <2> QED BY <1>1, <2>1, <2>2, SymbolIsThere
  <1>4. /\ text' = text /\ depth' = depth /\ pos' = SkipSpace(text, q)
        /\ mode' \in {"name", "value"} /\ stack' = stack
    BY DEF Comma
  <1> HIDE DEF c
  <1>5. Outside(text, b, q, depth) /\ Advanced(text, b, c, q)
    <2>1. q \in c .. Len(text) + 1 /\ \A i \in c .. q - 1 : i = c
      BY <1>3
    <2>2. text[c] \notin {LBRACE, "[", RBRACE, "]", QUOTE, BACKSLASH, "|"}
      BY <1>3, SymbolsDiffer
    <2> HIDE DEF q
    <2> QED BY <1>2, <2>1, <2>2, OverSymbols
  <1> HIDE DEF q
  <1>6. Reached(text, b, q)
    BY <1>5 DEF Advanced
  <1>7. Outside(text, b, pos', depth) /\ Advanced(text, b, q, pos')
    BY <1>4, <1>5, <1>6, OverSpace
  <1>8. Advanced(text, b, pos, q)
    BY <1>1, <1>2, <1>5, AdvancedTwice
  <1>9. Advanced(text, b, pos, pos')
    BY <1>1, <1>7, <1>8, AdvancedTwice
  <1>10. Moves(b)
    BY <1>4, <1>7, <1>9, MovesBetween DEF Between
  <1>11. Nested'
    <2>1. stack # <<>>
      BY DEF Comma, Nested
    <2> QED BY <1>4, <2>1 DEF Nested
  <1> QED BY <1>10, <1>11

\* An array or object is left.
LEMMA CloseMoves ==
  ASSUME NEW b, Scanning(b), Nested, Close
  PROVE  Moves(b) /\ Nested'
  <1>1. /\ mode \in Between /\ Reached(text, b, pos) /\ Outside(text, b, pos, depth)
        /\ text \in Seq(Symbols) /\ pos \in 1 .. Len(text) + 1
    BY DEF Close, Scanning, Reached, Between
  <1> DEFINE c == Next_
             q == c + 1
             inner == SubSeq(stack, 1, Len(stack) - 1)
             v == [Top EXCEPT !.end = q]
  <1>2. Outside(text, b, c, depth) /\ Advanced(text, b, pos, c) /\ Reached(text, b, c)
    BY <1>1, OverSpace DEF Next_, Advanced
  <1>3. c \in 1 .. Len(text) /\ text[c] \in {RBRACE, "]"}
    <2>1. At(text, c) \in {RBRACE, "]"} /\ c \in Nat
      BY <1>2 DEF Close, Reached
    <2>2. At(text, c) # NONE
      BY <2>1, SymbolsAssumption
    <2> HIDE DEF c
    <2> QED BY <1>1, <2>1, <2>2, SymbolIsThere
  <1>4. text' = text /\ depth' = depth - 1 /\ Complete(v, inner)
    BY DEF Close, Left
  <1>5. /\ stack # <<>> /\ Len(stack) \in Nat /\ Len(stack) \in 1 .. Len(stack)
        /\ DOMAIN stack = 1 .. Len(stack)
        /\ "end" \in DOMAIN Top /\ depth = Len(stack)
    <2>1. stack # <<>>
      BY DEF Close, Nested
    <2> QED BY <2>1, SequenceHasLast DEF Nested, Frames, Top
  <1>6. v.end = q
    BY <1>5
  <1>7. Frames(inner) /\ Len(inner) = Len(stack) - 1
    <2>1. inner = [i \in 1 .. Len(stack) - 1 |-> stack[i]] /\ Len(stack) - 1 \in Nat
      BY <1>5
    <2>2. inner = [i \in 1 .. Len(stack) - 1 |-> inner[i]] /\ \A i \in 1 .. Len(stack) - 1 : inner[i] = stack[i]
      BY <2>1
    <2> HIDE DEF inner
    <2>3. IsSequence(inner) /\ Len(inner) = Len(stack) - 1
      BY <2>1, <2>2, IsSequenceOf
    <2>4. \A i \in 1 .. Len(inner) : "end" \in DOMAIN inner[i]
      BY <1>5, <2>2, <2>3 DEF Nested, Frames
    <2> QED BY <2>3, <2>4 DEF Frames
  <1> HIDE DEF v, inner
  <1>8. /\ pos' = q /\ Frames(stack') /\ Len(stack') = Len(inner)
        /\ mode' = (IF inner = <<>> THEN "complete" ELSE "next")
        /\ mode' = "next" => stack' # <<>>
        /\ mode' = "complete" => stack' = <<>> /\ value'.end = pos'
    BY <1>4, <1>6, <1>7, CompleteKeepsFrames
  <1> HIDE DEF c
  <1>9. Outside(text, b, q, depth - 1) /\ Advanced(text, b, c, q)
    <2>1. c <= Len(text) /\ q = c + 1 /\ depth \in Int /\ depth + (-1) = depth - 1
      BY <1>3, <1>5
    <2>2. text[c] \notin {LBRACE, "["} /\ text[c] \in {LBRACE, "[", RBRACE, "]"}
      BY <1>3, SymbolsDiffer
    <2> HIDE DEF q
    <2>3. Outside(text, b, q, depth + (IF text[c] \in {LBRACE, "["} THEN 1 ELSE -1)) /\ Advanced(text, b, c, q)
      BY <1>2, <2>1, <2>2, OverBracket
    <2>4. depth + (IF text[c] \in {LBRACE, "["} THEN 1 ELSE -1) = depth - 1
      BY <2>1, <2>2
    <2> QED BY <2>3, <2>4
  <1> HIDE DEF q
  <1>10. Advanced(text, b, pos, q)
    BY <1>1, <1>2, <1>9, AdvancedTwice
  <1>11. mode' \in Between
    BY <1>8 DEF Between
  <1>12. Moves(b)
    BY <1>4, <1>8, <1>9, <1>10, <1>11, MovesBetween
  <1>13. Nested'
    <2>1. depth' = Len(stack')
      BY <1>4, <1>5, <1>7, <1>8
    <2> QED BY <1>8, <2>1 DEF Nested
  <1> QED BY <1>12, <1>13

\* Whatever the reader does next.
LEMMA ReadJsonMoves ==
  ASSUME NEW b, Scanning(b), Nested, ReadJson
  PROVE  Moves(b) /\ Nested'
  <1>1. CASE TooDeep \/ Expected \/ TooManyMembers
    BY <1>1, StopMoves DEF TooDeep, Expected, TooManyMembers
  <1>2. CASE Open \/ OpenString \/ ReadLiteral \/ ReadNumber
    BY <1>2, OpenMoves, OpenStringMoves, ReadLiteralMoves, ReadNumberMoves
  <1>3. CASE ReadPlain \/ ReadEscape \/ CloseString \/ CloseName
    BY <1>3, ReadPlainMoves, ReadEscapeMoves, CloseStringMoves, CloseNameMoves
  <1>4. CASE Colon \/ Comma \/ Close
    BY <1>4, ColonMoves, CommaMoves, CloseMoves
  <1> QED BY <1>1, <1>2, <1>3, <1>4 DEF ReadJson

-----------------------------------------------------------------------------
(***************************************************************************)
(* The sections of a record and the bars between them.                     *)
(***************************************************************************)
\* The errors are told from what was read.
LEMMA ErrorsDiffer ==
  /\ "Read" \notin Unreadability /\ "Deviates" \notin Unreadability
  BY Zenon DEF Unreadability

\* No error in the header: the word and the bar are there.
LEMMA HeaderIsRight ==
  /\ HeaderError # NONE => HeaderError \in Unreadability
  /\ HeaderError = NONE => At(text, Lead) = "OCMF" /\ At(text, Lead + 1) = "|"
  BY ErrorsAssumption, Zenon DEF HeaderError, Unreadability

\* No error after the payload: it is an object, and a bar follows.
LEMMA PayloadIsRight ==
  /\ PayloadError # NONE => PayloadError \in Unreadability
  /\ PayloadError = NONE => Bar # NONE /\ Bar # 0 /\ value.kind = "object"
  BY ErrorsAssumption, Zenon DEF PayloadError, Unreadability

\* No error after the signature: it is an object, and at most one more bar follows.
LEMMA SignatureIsRight ==
  /\ SignatureError # NONE => SignatureError \in Unreadability
  /\ SignatureError = NONE =>
       /\ Bar # 0 /\ value.kind = "object"
       /\ Bar = NONE \/ ~ \E i \in DOMAIN text : i > Bar /\ text[i] = "|"
  BY ErrorsAssumption, Zenon DEF SignatureError, Unreadability

\* What the reader of JSON stops for and reports: errors of its own, and no
\* section too many.
LEMMA ReadJsonReports ==
  ASSUME ReadJson
  PROVE  /\ mode' = "stopped" => error' \in Unreadability
         /\ dev' \subseteq dev \union {"NonCanonicalNumber", "ControlCharacterInString",
                                       "InvalidStringEscape", "DuplicateKey"}
  <1>1. CASE TooDeep
    BY <1>1, Zenon DEF TooDeep, Stop, Unreadability
  <1>2. CASE Expected
    BY <1>2, Zenon DEF Expected, Stop, Unreadability
  <1>3. CASE TooManyMembers
    BY <1>3, Zenon DEF TooManyMembers, Stop, Unreadability
  <1>4. CASE Open
    BY <1>4 DEF Open
  <1>5. CASE OpenString
    BY <1>5 DEF OpenString
  <1>6. CASE ReadLiteral \/ CloseString \/ ReadNumber \/ Close
    BY <1>6 DEF ReadLiteral, CloseString, ReadNumber, Close, Complete
  <1>7. CASE ReadPlain \/ ReadEscape
    <2>1. mode' = mode /\ mode \in {"in_name", "in_string"}
      BY <1>7 DEF ReadPlain, ReadEscape, InString
    <2>2. dev' \subseteq dev \union {"ControlCharacterInString", "InvalidStringEscape"}
      BY <1>7 DEF ReadPlain, ReadEscape
    <2> QED BY <2>1, <2>2
  <1>8. CASE CloseName \/ Colon \/ Comma
    BY <1>8 DEF CloseName, Colon, Comma
  <1> QED BY <1>1, <1>2, <1>3, <1>4, <1>5, <1>6, <1>7, <1>8 DEF ReadJson

\* At every bar before p nothing is open.
Balanced(t, p) == \A i \in Bars(t, p) : Nesting(SubSeq(t, 1, i)) = 0

\* A bar between sections is passed.
LEMMA OverBar ==
  ASSUME NEW t, NEW p, NEW q, Reached(t, 1, p), p <= Len(t), q = p + 1, Outside(t, 1, p, 0), t[p] = "|",
         Balanced(t, p)
  PROVE  Reached(t, 1, q) /\ Outside(t, 1, q, 0) /\ Bars(t, q) = Bars(t, p) \union {p} /\ Balanced(t, q)
  <1>1. Reached(t, 1, q) /\ p <= q /\ p \in Nat /\ q - 1 = p
    BY DEF Reached
  <1>2. Bars(t, q) = Bars(t, p) \union {p}
    BY <1>1, BarAdded
  <1>3. Outside(t, 1, q, 0)
    <2>1. \A i \in p .. q - 1 : i = p
      BY <1>1
    <2>2. "|" \notin {LBRACE, "[", RBRACE, "]", QUOTE, BACKSLASH}
      BY SymbolsDiffer
    <2> QED BY <1>1, <2>1, <2>2, PassOver
  <1>4. Nesting(SubSeq(t, 1, p)) = 0
    BY <1>1, <1>3 DEF Outside, Part
  <1> QED BY <1>1, <1>2, <1>3, <1>4 DEF Balanced

\* A section begins: both ways of counting start with nothing open.
LEMMA BeginValueMoves ==
  ASSUME NEW at, Reached(text, 1, at), Outside(text, 1, at, 0), text' = text, BeginValue(at)
  PROVE  Scanning(1)' /\ Scanning(at)' /\ Nested' /\ Bars(text, pos') = Bars(text, at)
  <1>1. pos' = SkipSpace(text, at) /\ mode' = "value" /\ depth' = 0 /\ stack' = <<>>
    BY DEF BeginValue
  <1>2. Outside(text, 1, pos', 0) /\ Advanced(text, 1, at, pos')
    BY <1>1, OverSpace
  <1>3. Reached(text, at, at)
    BY DEF Reached
  <1>4. Outside(text, at, pos', 0) /\ Advanced(text, at, at, pos')
    BY <1>1, <1>3, OutsideAtFirst, OverSpace
  <1>5. mode' \in Between /\ mode' \notin InText
    BY <1>1 DEF Between, InText
  <1>6. Scanning(1)' /\ Scanning(at)'
    BY <1>1, <1>2, <1>4, <1>5 DEF Scanning, Advanced
  <1>7. Nested'
    BY <1>1 DEF Nested, Frames, IsSequence
  <1> QED BY <1>2, <1>6, <1>7 DEF Advanced

-----------------------------------------------------------------------------
(***************************************************************************)
(* The invariant of the sections.                                          *)
(***************************************************************************)
IsSection(s) == s = [from |-> s.from, to |-> s.to, tree |-> s.tree]

\* A section that began at from is being read, after the bars in B.
Started(from, B) ==
  /\ Scanning(1) /\ Scanning(from) /\ Nested
  /\ Bars(text, pos) = B /\ Balanced(text, pos)
  /\ mode = "stopped" => error \in Unreadability

\* Where the sections of a record are that was read to its end.
BetweenBars ==
  LET bars == {i \in DOMAIN text : text[i] = "|" /\ ~Quoted(text, i)}
  IN /\ bars = {payload.from - 1, payload.to + 1}
                 \union {signature.to + 1 : x \in dev \intersect {"FourthSectionPublicKey"}}
     /\ signature.from = payload.to + 2
     /\ \A i \in bars : Nesting(SubSeq(text, 1, i)) = 0

Sections ==
  /\ text \in Seq(Symbols) /\ IsSection(payload) /\ IsSection(signature)
  /\ section \in {"header", "payload", "signature"} => "FourthSectionPublicKey" \notin dev
  /\ section = "payload" => Started(payload.from, {payload.from - 1})
  /\ section = "signature" => /\ Started(signature.from, {payload.from - 1, payload.to + 1})
                              /\ signature.from = payload.to + 2
  /\ section = "typed" \/ IsRead => BetweenBars

\* Nothing has been read.
LEMMA SectionsAtFirst ==
  ASSUME NEW t \in Seq(Symbols), NEW p, Reading(t, p)
  PROVE  Sections'
  BY DEF Reading, Sections, IsSection, NoSection, IsRead

\* Nothing is read.
LEMMA SectionsStay ==
  ASSUME Sections, UNCHANGED <<json, reading>>
  PROVE  Sections'
  <1>1. /\ text' = text /\ pos' = pos /\ depth' = depth /\ stack' = stack /\ mode' = mode
        /\ value' = value /\ dev' = dev /\ error' = error
    BY DEF json
  <1>2. section' = section /\ payload' = payload /\ signature' = signature /\ verdict' = verdict
    BY DEF reading
  <1>3. ASSUME NEW from, NEW B, Started(from, B) PROVE Started(from, B)'
    BY <1>1, <1>3 DEF Started, Scanning, Nested
  <1>4. section = "payload" => Started(payload.from, {payload.from - 1})'
    <2>1. PICK from, B : from = payload.from /\ B = {payload.from - 1}
      OBVIOUS
    <2>2. section = "payload" => Started(from, B)'
      BY <1>3, <2>1 DEF Sections
    <2> QED BY <1>2, <2>1, <2>2 DEF Started, Scanning
  <1>5. section = "signature" => Started(signature.from, {payload.from - 1, payload.to + 1})'
    <2>1. PICK from, B : from = signature.from /\ B = {payload.from - 1, payload.to + 1}
      OBVIOUS
    <2>2. section = "signature" => Started(from, B)'
      BY <1>3, <2>1 DEF Sections
    <2> QED BY <1>2, <2>1, <2>2 DEF Started, Scanning
  <1>6. (section = "typed" \/ IsRead)' => BetweenBars'
    BY <1>1, <1>2 DEF Sections, IsRead, BetweenBars
  <1> QED BY <1>1, <1>2, <1>4, <1>5, <1>6 DEF Sections

\* Reading ends with an error.
LEMMA SectionsRefused ==
  ASSUME Sections, NEW why \in Unreadability, Refuse(why)
  PROVE  Sections'
  <1>1. text' = text /\ dev' = dev /\ section' = "done" /\ verdict' = why
        /\ payload' = payload /\ signature' = signature
    BY DEF Refuse, Conclude, json
  <1>2. ~IsRead'
    BY <1>1, ErrorsDiffer DEF IsRead
  <1> QED BY <1>1, <1>2 DEF Sections

\* A step of the reader of JSON keeps what is known of the section.
LEMMA StartedMoves ==
  ASSUME NEW from, NEW B, Started(from, B), ReadJson
  PROVE  Started(from, B)' /\ text' = text
  <1>1. Moves(1) /\ Moves(from) /\ Nested'
    BY ReadJsonMoves DEF Started
  <1>2. Scanning(1)' /\ Scanning(from)' /\ text' = text /\ Bars(text, pos') = Bars(text, pos)
    BY <1>1 DEF Moves, Advanced
  <1>3. (mode = "stopped" => error \in Unreadability)'
    BY ReadJsonReports
  <1>4. (Bars(text, pos) = B /\ Balanced(text, pos))'
    BY <1>2 DEF Started, Balanced
  <1> QED BY <1>1, <1>2, <1>3, <1>4 DEF Started

\* A step of the JSON reader in the payload or the signature section.
LEMMA ReadValueKeepsSections ==
  ASSUME Sections, ReadValue
  PROVE  Sections'
  <1>1. ReadJson /\ section \in {"payload", "signature"} /\ section' = section
        /\ payload' = payload /\ signature' = signature /\ verdict' = verdict
    BY DEF ReadValue, reading
  <1>2. "FourthSectionPublicKey" \notin dev'
    BY <1>1, ReadJsonReports DEF Sections
  <1>3. CASE section = "payload"
    <2>1. PICK from, B : from = payload.from /\ B = {payload.from - 1}
      OBVIOUS
    <2>2. Started(from, B)' /\ text' = text
      BY <1>1, <1>3, <2>1, StartedMoves DEF Sections
    <2>3. Started(payload.from, {payload.from - 1})'
      BY <1>1, <2>1, <2>2 DEF Started, Scanning
    <2>4. ~(section' = "typed" \/ IsRead')
      BY <1>1, <1>3 DEF IsRead
    <2> QED BY <1>1, <1>2, <1>3, <2>2, <2>3, <2>4 DEF Sections
  <1>4. CASE section = "signature"
    <2>1. PICK from, B : from = signature.from /\ B = {payload.from - 1, payload.to + 1}
      OBVIOUS
    <2>2. Started(from, B)' /\ text' = text
      BY <1>1, <1>4, <2>1, StartedMoves DEF Sections
    <2>3. Started(signature.from, {payload.from - 1, payload.to + 1})'
      BY <1>1, <2>1, <2>2 DEF Started, Scanning
    <2>4. ~(section' = "typed" \/ IsRead')
      BY <1>1, <1>4 DEF IsRead
    <2> QED BY <1>1, <1>2, <1>4, <2>2, <2>3, <2>4 DEF Sections
  <1> QED BY <1>1, <1>3, <1>4

\* A section that cannot be read ends the reading.
LEMMA UnreadableKeepsSections ==
  ASSUME Sections, Unreadable
  PROVE  Sections'
  <1>1. error \in Unreadability /\ Refuse(error)
    BY DEF Unreadable, Sections, Started
  <1> QED BY <1>1, SectionsRefused

\* White space, also of the kind that is none in JSON.
LEMMA OverAnySpace ==
  ASSUME NEW t, NEW b, NEW p, NEW n, Reached(t, b, p), Outside(t, b, p, n),
         NEW q, q = PastAll(t, p, Space)
  PROVE  Outside(t, b, q, n) /\ Advanced(t, b, p, q) /\ q \in p .. Len(t) + 1
  <1>1. t \in Seq(Symbols) /\ p \in 1 .. Len(t) + 1 /\ NONE \notin Space
    BY SymbolsAssumption DEF Reached
  <1>2. q \in p .. Len(t) + 1 /\ \A k \in p .. q - 1 : t[k] \in Space
    BY <1>1, PastAllFinds
  <1>3. \A x \in Space : x \notin {LBRACE, "[", RBRACE, "]", QUOTE, BACKSLASH, "|"}
    BY SymbolsDiffer DEF Space, JsonSpace
  <1> QED BY <1>2, <1>3, OverSymbols

\* No bar has been passed at the first symbol.
LEMMA NoBarsAtFirst ==
  ASSUME NEW t \in Seq(Symbols)
  PROVE  Reached(t, 1, 1) /\ Outside(t, 1, 1, 0) /\ Bars(t, 1) = {}
  <1>1. Reached(t, 1, 1)
    BY DEF Reached
  <1>2. Bars(t, 1) = {}
    BY DEF Bars
  <1> QED BY <1>1, <1>2, OutsideAtFirst

\* After the bar at p a section is read.
LEMMA SectionBegins ==
  ASSUME NEW p, NEW from, Reached(text, 1, p), p <= Len(text), from = p + 1, text[p] = "|",
         Outside(text, 1, p, 0), Balanced(text, p), text' = text, BeginValue(from)
  PROVE  Started(from, Bars(text, p) \union {p})'
  <1>1. /\ Reached(text, 1, from) /\ Outside(text, 1, from, 0)
        /\ Bars(text, from) = Bars(text, p) \union {p} /\ Balanced(text, from)
    BY OverBar
  <1>2. Scanning(1)' /\ Scanning(from)' /\ Nested' /\ Bars(text, pos') = Bars(text, from)
    BY <1>1, BeginValueMoves
  <1>3. (Bars(text, pos) = Bars(text, p) \union {p} /\ Balanced(text, pos))'
    BY <1>1, <1>2 DEF Balanced
  <1>4. mode' # "stopped"
    BY DEF BeginValue
  <1> QED BY <1>2, <1>3, <1>4 DEF Started

\* The header ends at the first bar, and the payload begins behind it.
LEMMA ReadHeaderKeepsSections ==
  ASSUME Sections, ReadHeader
  PROVE  Sections'
  <1>0. section = "header" /\ text \in Seq(Symbols)
    BY DEF ReadHeader, Sections
  <1>1. CASE HeaderError # NONE
    <2>1. HeaderError \in Unreadability /\ Refuse(HeaderError)
      BY <1>1, HeaderIsRight DEF ReadHeader
    <2> QED BY <2>1, SectionsRefused
  <1>2. CASE HeaderError = NONE
    <2>1. /\ section' = "payload" /\ payload' = [payload EXCEPT !.from = Lead + 2]
          /\ BeginValue(Lead + 2) /\ signature' = signature /\ text' = text /\ dev' = dev
      BY <1>2 DEF ReadHeader
    <2>2. At(text, Lead) = "OCMF" /\ At(text, Lead + 1) = "|"
      BY <1>2, HeaderIsRight
    <2>3. PICK l : l = Lead
      OBVIOUS
    <2>4. Outside(text, 1, l, 0) /\ Advanced(text, 1, 1, l) /\ l \in 1 .. Len(text) + 1
      BY <1>0, <2>3, NoBarsAtFirst, OverAnySpace DEF Lead
    <2>5. l \in 1 .. Len(text) /\ text[l] = "OCMF"
      <3>1. At(text, l) # NONE
        BY <2>2, <2>3, SymbolsAssumption, NamesAssumption
      <3> QED BY <1>0, <2>2, <2>3, <2>4, <3>1, SymbolIsThere
    <2>6. l + 1 \in 1 .. Len(text) /\ text[l + 1] = "|"
      <3>1. At(text, l + 1) # NONE /\ l + 1 \in Nat
        BY <2>2, <2>3, <2>5, SymbolsAssumption
      <3> QED BY <1>0, <2>2, <2>3, <3>1, SymbolIsThere
    <2>7. PICK p : p = l + 1
      OBVIOUS
    <2>8. PICK from : from = Lead + 2
      OBVIOUS
    <2>9. p \in Nat /\ p <= Len(text) /\ from = p + 1 /\ text[p] = "|"
      BY <2>3, <2>5, <2>6, <2>7, <2>8
    <2>10. Outside(text, 1, p, 0) /\ Advanced(text, 1, l, p)
      <3>1. p \in l .. Len(text) + 1 /\ \A i \in l .. p - 1 : i = l
        BY <2>5, <2>6, <2>7
      <3>2. text[l] \notin {LBRACE, "[", RBRACE, "]", QUOTE, BACKSLASH, "|"}
        BY <2>5, SymbolsDiffer
      <3>3. Reached(text, 1, l)
        BY <2>4 DEF Advanced
      <3> QED BY <2>4, <3>1, <3>2, <3>3, OverSymbols
    <2>11. Reached(text, 1, p) /\ Bars(text, p) = {} /\ Balanced(text, p)
      BY <1>0, <2>4, <2>10, NoBarsAtFirst DEF Advanced, Balanced
    <2>12. Started(from, Bars(text, p) \union {p})'
      BY <2>1, <2>8, <2>9, <2>10, <2>11, SectionBegins
    <2>13. payload'.from = from /\ IsSection(payload')
      BY <2>1, <2>8 DEF Sections, IsSection
    <2>14. from - 1 = p /\ Bars(text, p) \union {p} = {from - 1}
      BY <2>9, <2>11
    <2>15. PICK B : B = {from - 1}
      OBVIOUS
    <2>16. Started(from, B)' /\ B = {payload'.from - 1}
      <3>1. B = Bars(text, p) \union {p}
        BY <2>14, <2>15
      <3> QED BY <2>1, <2>12, <2>13, <2>15, <3>1 DEF Started
    <2>17. Started(payload.from, {payload.from - 1})'
      BY <2>13, <2>16 DEF Started, Scanning
    <2>18. ~IsRead'
      BY <2>1 DEF IsRead
    <2> QED BY <1>0, <2>1, <2>13, <2>17, <2>18 DEF Sections
  <1> QED BY <1>1, <1>2

\* Where a value is complete nothing is open; and what the next bar is.
LEMMA BarIsFound ==
  ASSUME NEW from, NEW B, Started(from, B), mode = "complete", NEW i, i = PastAll(text, pos, Space)
  PROVE  /\ i \in 1 .. Len(text) + 1 /\ Reached(text, 1, i) /\ Outside(text, 1, i, 0)
         /\ Bars(text, i) = B /\ Balanced(text, i) /\ text \in Seq(Symbols)
         /\ Bar = (IF i > Len(text) THEN NONE ELSE IF text[i] = "|" THEN i ELSE 0)
  <1>1. mode \in Between
    BY DEF Between
  <1>2. depth = 0 /\ value.end = pos
    BY DEF Started, Nested
  <1>3. Reached(text, 1, pos) /\ Outside(text, 1, pos, 0) /\ Bars(text, pos) = B /\ Balanced(text, pos)
    BY <1>1, <1>2 DEF Started, Scanning
  <1>4. Outside(text, 1, i, 0) /\ Advanced(text, 1, pos, i) /\ i \in pos .. Len(text) + 1
    BY <1>3, OverAnySpace
  <1>5. Reached(text, 1, i) /\ Bars(text, i) = B
    BY <1>3, <1>4 DEF Advanced
  <1>6. Balanced(text, i)
    BY <1>3, <1>5 DEF Balanced
  <1>7. i \in 1 .. Len(text) + 1 /\ text \in Seq(Symbols)
    BY <1>5 DEF Reached
  <1>8. Bar = (IF i > Len(text) THEN NONE ELSE IF text[i] = "|" THEN i ELSE 0)
    BY <1>2 DEF Bar, NextDelimiter
  <1> QED BY <1>4, <1>5, <1>6, <1>7, <1>8

\* A payload that has been read ends at the second bar.
LEMMA EndPayloadKeepsSections ==
  ASSUME Sections, EndPayload
  PROVE  Sections'
  <1>0. section = "payload" /\ mode = "complete" /\ text \in Seq(Symbols)
    BY DEF EndPayload, Sections
  <1>1. CASE PayloadError # NONE
    <2>1. PayloadError \in Unreadability /\ Refuse(PayloadError)
      BY <1>1, PayloadIsRight DEF EndPayload
    <2> QED BY <2>1, SectionsRefused
  <1>2. CASE PayloadError = NONE
    <2>1. /\ section' = "signature"
          /\ payload' = [payload EXCEPT !.to = Bar - 1, !.tree = value]
          /\ signature' = [signature EXCEPT !.from = Bar + 1]
          /\ BeginValue(Bar + 1) /\ text' = text
          /\ dev' = dev \union Report("PrettyPrintedPayload",
                                      IsPretty(SubSeq(text, payload.from, Bar - 1)))
      BY <1>2 DEF EndPayload
    <2>2. Bar # NONE /\ Bar # 0
      BY <1>2, PayloadIsRight
    <2>3. PICK p, from, B, at :
            p = PastAll(text, pos, Space) /\ from = payload.from /\ B = {payload.from - 1} /\ at = Bar + 1
      OBVIOUS
    <2>4. Started(from, B)
      BY <1>0, <2>3 DEF Sections
    <2>5. /\ p \in 1 .. Len(text) + 1 /\ Reached(text, 1, p) /\ Outside(text, 1, p, 0)
          /\ Bars(text, p) = B /\ Balanced(text, p)
          /\ Bar = (IF p > Len(text) THEN NONE ELSE IF text[p] = "|" THEN p ELSE 0)
      BY <1>0, <2>3, <2>4, BarIsFound
    <2>6. Bar = p /\ p <= Len(text) /\ text[p] = "|" /\ at = p + 1
      BY <2>2, <2>3, <2>5
    <2>7. Started(at, Bars(text, p) \union {p})'
      BY <2>1, <2>3, <2>5, <2>6, SectionBegins
    <2>8. /\ IsSection(payload') /\ IsSection(signature') /\ payload'.from = payload.from
          /\ payload'.to = p - 1 /\ signature'.from = at
      BY <2>1, <2>3, <2>6 DEF Sections, IsSection
    <2>9. p \in Nat /\ p - 1 + 1 = p /\ at = p - 1 + 2
      BY <2>5, <2>6
    <2>10. Bars(text, p) \union {p} = {payload'.from - 1, payload'.to + 1}
      BY <2>3, <2>5, <2>8, <2>9
    <2>11. PICK C : C = Bars(text, p) \union {p}
      OBVIOUS
    <2>12. Started(at, C)'
      BY <2>1, <2>7, <2>11 DEF Started
    <2>13. Started(signature.from, {payload.from - 1, payload.to + 1})'
      BY <2>8, <2>10, <2>11, <2>12 DEF Started, Scanning
    <2>14. (signature.from = payload.to + 2)'
      BY <2>8, <2>9
    <2>15. "FourthSectionPublicKey" \notin dev'
      BY <1>0, <2>1 DEF Sections, Report
    <2>16. ~IsRead'
      BY <2>1 DEF IsRead
    <2> QED BY <1>0, <2>1, <2>8, <2>13, <2>14, <2>15, <2>16 DEF Sections
  <1> QED BY <1>1, <1>2

\* All bars have been passed at the end of the text.
LEMMA BarsAtLast ==
  ASSUME NEW t \in Seq(Symbols), NEW p \in 1 .. Len(t) + 1, \A i \in p .. Len(t) : t[i] # "|"
  PROVE  {i \in DOMAIN t : t[i] = "|" /\ ~Quoted(t, i)} = Bars(t, p)
  <1>1. DOMAIN t = 1 .. Len(t) /\ Len(t) \in Nat /\ p \in Nat
    OBVIOUS
  <1>2. \A i \in 1 .. Len(t) : i \in 1 .. p - 1 \/ i \in p .. Len(t)
    BY <1>1
  <1>3. \A i \in 1 .. p - 1 : i \in 1 .. Len(t)
    BY <1>1
  <1> QED BY <1>1, <1>2, <1>3 DEF Bars

\* A signature that has been read ends at a third bar or with the text.
LEMMA EndSignatureKeepsSections ==
  ASSUME Sections, EndSignature
  PROVE  Sections'
  <1>0. section = "signature" /\ mode = "complete" /\ text \in Seq(Symbols)
    BY DEF EndSignature, Sections
  <1>1. CASE SignatureError # NONE
    <2>1. SignatureError \in Unreadability /\ Refuse(SignatureError)
      BY <1>1, SignatureIsRight DEF EndSignature
    <2> QED BY <2>1, SectionsRefused
  <1>2. CASE SignatureError = NONE
    <2>1. /\ section' = "typed" /\ text' = text /\ payload' = payload
          /\ signature' = [signature EXCEPT !.to = IF Bar = NONE THEN Len(text) ELSE Bar - 1,
                                            !.tree = value]
          /\ dev' = dev \union Report("FourthSectionPublicKey", Bar # NONE)
      BY <1>2 DEF EndSignature
    <2>2. Bar # 0 /\ (Bar = NONE \/ ~ \E i \in DOMAIN text : i > Bar /\ text[i] = "|")
      BY <1>2, SignatureIsRight
    <2>3. PICK p, from, B :
            p = PastAll(text, pos, Space) /\ from = signature.from /\ B = {payload.from - 1, payload.to + 1}
      OBVIOUS
    <2>4. Started(from, B) /\ signature.from = payload.to + 2
      BY <1>0, <2>3 DEF Sections
    <2>5. /\ p \in 1 .. Len(text) + 1 /\ Reached(text, 1, p) /\ Outside(text, 1, p, 0)
          /\ Bars(text, p) = B /\ Balanced(text, p)
          /\ Bar = (IF p > Len(text) THEN NONE ELSE IF text[p] = "|" THEN p ELSE 0)
      BY <1>0, <2>3, <2>4, BarIsFound
    <2>6. /\ IsSection(payload') /\ IsSection(signature') /\ signature'.from = signature.from
          /\ signature'.to = (IF Bar = NONE THEN Len(text) ELSE Bar - 1)
      BY <2>1 DEF Sections, IsSection
    <2>7. "FourthSectionPublicKey" \in dev' <=> Bar # NONE
      BY <1>0, <2>1 DEF Sections, Report
    <2> DEFINE all == {i \in DOMAIN text : text[i] = "|" /\ ~Quoted(text, i)}
    <2>8. BetweenBars'
      <3>1. CASE p > Len(text)
        <4>1. Bar = NONE
          BY <2>5, <3>1
        <4>2. \A i \in p .. Len(text) : text[i] # "|"
          BY <2>5, <3>1
        <4>3. all = B
          BY <1>0, <2>5, <4>2, BarsAtLast
        <4>4. \A i \in all : Nesting(SubSeq(text, 1, i)) = 0
          BY <2>5, <4>3 DEF Balanced
        <4>5. dev' \intersect {"FourthSectionPublicKey"} = {}
          BY <2>7, <4>1
        <4> QED BY <2>1, <2>3, <2>4, <2>6, <4>3, <4>4, <4>5 DEF BetweenBars
      <3>2. CASE p <= Len(text)
        <4>1. Bar = p /\ text[p] = "|" /\ Bar # NONE /\ p \in Nat
          BY <2>2, <2>5, <3>2, NoneAssumption
        <4>2. PICK q : q = p + 1
          OBVIOUS
        <4>3. Reached(text, 1, q) /\ Bars(text, q) = B \union {p} /\ Balanced(text, q)
          BY <2>5, <3>2, <4>1, <4>2, OverBar
        <4>4. \A i \in q .. Len(text) : text[i] # "|"
          BY <1>0, <2>2, <4>1, <4>2
        <4>5. all = B \union {p}
          BY <1>0, <4>3, <4>4, BarsAtLast DEF Reached
        <4>6. \A i \in all : Nesting(SubSeq(text, 1, i)) = 0
          BY <4>3, <4>5 DEF Balanced
        <4>7. dev' \intersect {"FourthSectionPublicKey"} = {"FourthSectionPublicKey"}
          BY <2>7, <4>1
        <4>8. signature'.to + 1 = p
          BY <2>6, <4>1
        <4>9. {signature'.to + 1 : x \in dev' \intersect {"FourthSectionPublicKey"}} = {p}
          BY <4>7, <4>8
        <4> QED BY <2>1, <2>3, <2>4, <2>6, <4>5, <4>6, <4>9 DEF BetweenBars
      <3>3. p \in Nat /\ Len(text) \in Nat
        BY <1>0, <2>5
      <3> QED BY <3>1, <3>2, <3>3
    <2> QED BY <1>0, <2>1, <2>6, <2>8 DEF Sections
  <1> QED BY <1>1, <1>2

-----------------------------------------------------------------------------
(***************************************************************************)
(* What the typed view reports is not about the sections or the syntax.    *)
(***************************************************************************)
\* What the reader reports of the text, and the typed view of nothing.
OfTheText ==
  {"FourthSectionPublicKey", "DuplicateKey", "NonCanonicalNumber", "ControlCharacterInString"}

Quiet(S) == \A x \in OfTheText : x \notin S

\* So are several such reports together.
LEMMA QuietTogether ==
  /\ \A A, B : Quiet(A) /\ Quiet(B) => Quiet(A \union B)
  /\ \A C : (\A A \in C : Quiet(A)) => Quiet(UNION C)
  BY DEF Quiet, OfTheText

\* The readings report nothing about the text.
LEMMA ReadingsAreQuiet ==
  ASSUME NEW v
  PROVE  Quiet(Readings(v))
  <1>1. ASSUME NEW t PROVE Quiet(TextDeviations(t))
    BY DEF Quiet, OfTheText, TextDeviations, Report, InTable
  <1>2. ASSUME NEW w PROVE Quiet(Scalar(w))
    BY DEF Quiet, OfTheText, Scalar, Report
  <1>3. ASSUME NEW item PROVE Quiet(FieldDeviations(item))
    <2> DEFINE scalars == UNION {Scalar(Get(item, key)) : key \in ScalarKeys}
               rest == Report("RvIsString", Has(item, "RV") /\ Get(item, "RV").kind = "string")
                         \union Report("NumberUnrepresentable",
                                  \E key \in NumberKeys : Has(item, key) /\ ~IsNumber(Get(item, key)))
                         \union Report("ExtensionInsideReading", Extras(item, ScalarKeys \union NumberKeys) # {})
    <2>1. Quiet(scalars)
      BY <1>2, QuietTogether
    <2>2. Quiet(rest)
      BY DEF Quiet, OfTheText, Report
    <2>3. Quiet(TextDeviations(ItemTexts(item)))
      BY <1>1
    <2>4. FieldDeviations(item) = scalars \union rest \union TextDeviations(ItemTexts(item))
      BY DEF FieldDeviations
    <2> HIDE DEF scalars, rest
    <2> QED BY <2>1, <2>2, <2>3, <2>4, QuietTogether
  <1>4. ASSUME NEW items_ PROVE Quiet(ItemsDeviations(items_))
    <2> DEFINE fields == UNION {FieldDeviations(items_[k]) : k \in DOMAIN items_}
    <2>1. Quiet(fields)
      BY <1>3, QuietTogether
    <2> QED BY <2>1 DEF ItemsDeviations, fields, Quiet, OfTheText, Report
  <1>5. Quiet(ItemsDeviations(Items(v)))
    BY <1>4
  <1> QED BY <1>5 DEF Quiet, OfTheText, Readings, Report, Typed

\* Nor does any other block of the payload.
LEMMA BlocksAreQuiet ==
  ASSUME NEW v, NEW t
  PROVE  Quiet(Blocks(v, t))
  <1>1. Quiet(Readings(v["RD"]))
    BY ReadingsAreQuiet
  <1> DEFINE scalars == UNION {Scalar(v[key]) : key \in TextKeys}
  <1>2. Quiet(scalars)
    <2>1. \A w : Quiet(Scalar(w))
      BY DEF Quiet, OfTheText, Scalar, Report
    <2> QED BY <2>1, QuietTogether
  <1>3. Quiet(FormatVersion(t["FV"]))
    BY Zenon DEF Quiet, OfTheText, FormatVersion, Report
  <1>4. Quiet(Pagination(v["PG"], t["PG"]))
    BY DEF Quiet, OfTheText, Pagination, Report
  <1>5. Quiet(Identity(v, t))
    BY DEF Quiet, OfTheText, Identity, Report
  <1>6. Quiet(Assignment(v, t))
    <2>1. Quiet(Flags(FlagTexts(v["IF"])))
      BY DEF Quiet, OfTheText, Flags, Report
    <2> QED BY <2>1 DEF Quiet, OfTheText, Assignment, Report, Typed, InTable
  <1>7. Quiet(Bounded(t["TT"], 250)) /\ Quiet(Bounded(t["CF"], 25))
    BY DEF Quiet, OfTheText, Bounded, Report
  <1>8. Quiet(LossCompensation(v["LC"]))
    <2>1. Quiet(LossUnit(Get(v["LC"], "LU"))) /\ Quiet(LossName(Get(v["LC"], "LN")))
      BY DEF Quiet, OfTheText, LossUnit, LossName, Report, Typed, InTable, Bounded
    <2> QED BY <2>1 DEF Quiet, OfTheText, LossCompensation, Report, Typed
  <1>9. Quiet(ChargePoint(t["CT"], t["CI"]))
    BY DEF Quiet, OfTheText, ChargePoint, Report, InTable
  <1> HIDE DEF scalars
  <1>10. Blocks(v, t) = Readings(v["RD"]) \union scalars \union FormatVersion(t["FV"])
           \union Pagination(v["PG"], t["PG"]) \union Identity(v, t) \union Assignment(v, t)
           \union Bounded(t["TT"], 250) \union Bounded(t["CF"], 25)
           \union LossCompensation(v["LC"]) \union ChargePoint(t["CT"], t["CI"])
    BY DEF Blocks, scalars
  <1>11. Quiet(Readings(v["RD"]) \union scalars \union FormatVersion(t["FV"])
                 \union Pagination(v["PG"], t["PG"]) \union Identity(v, t) \union Assignment(v, t))
    BY <1>1, <1>2, <1>3, <1>4, <1>5, <1>6 DEF Quiet, OfTheText
  <1>12. Quiet(Blocks(v, t))
    BY <1>7, <1>8, <1>9, <1>10, <1>11 DEF Quiet, OfTheText
  <1> QED BY <1>12

\* The verdict leaves the sections as they are.
LEMMA JudgeKeepsSections ==
  ASSUME Sections, Judge
  PROVE  Sections'
  <1>1. /\ section = "typed" /\ section' = "done" /\ text' = text
        /\ payload' = payload /\ signature' = signature
        /\ dev' = dev \union PayloadDeviations(payload.tree) \union SignatureDeviations(signature.tree)
    BY DEF Judge, Conclude
  <1>2. Quiet(PayloadDeviations(payload.tree))
    BY BlocksAreQuiet DEF Quiet, OfTheText, PayloadDeviations, Unknown, Report
  <1>3. Quiet(SignatureDeviations(signature.tree))
    BY DEF Quiet, OfTheText, SignatureDeviations, Report
  <1>4. dev' \intersect {"FourthSectionPublicKey"} = dev \intersect {"FourthSectionPublicKey"}
    BY <1>1, <1>2, <1>3 DEF Quiet, OfTheText
  <1>5. BetweenBars
    BY <1>1 DEF Sections
  <1>6. BetweenBars'
    BY <1>1, <1>4, <1>5 DEF BetweenBars
  <1> QED BY <1>1, <1>6 DEF Sections

\* A text is read by such steps and by no others.
LEMMA ReadKeepsSections ==
  ASSUME Sections, Read
  PROVE  Sections'
  BY ReadHeaderKeepsSections, ReadValueKeepsSections, UnreadableKeepsSections,
     EndPayloadKeepsSections, EndSignatureKeepsSections, JudgeKeepsSections DEF Read, Scan

\* What holds of the sections is what the runs check.
LEMMA SectionsShow ==
  ASSUME Sections
  PROVE  SpansAreBetweenBars /\ DepthIsNesting
  <1>1. SpansAreBetweenBars
    BY DEF Sections, BetweenBars, SpansAreBetweenBars
  <1>2. DepthIsNesting
    <2> SUFFICES ASSUME section \in {"payload", "signature"}, mode \in {"next", "complete"}
                 PROVE  depth = Nesting(SubSeq(text, IF section = "payload" THEN payload.from
                                                     ELSE signature.from, pos - 1))
      BY DEF DepthIsNesting
    <2>1. PICK from : from = IF section = "payload" THEN payload.from ELSE signature.from
      OBVIOUS
    <2>2. Scanning(from)
      BY <2>1 DEF Sections, Started
    <2>3. Outside(text, from, pos, depth)
      BY <2>2 DEF Scanning, Between
    <2> QED BY <2>1, <2>3 DEF Outside, Part
  <1> QED BY <1>1, <1>2

-----------------------------------------------------------------------------
(***************************************************************************)
(* What is written is a text.                                              *)
(***************************************************************************)
\* The values of a loop that adds a piece in each of its steps.
Adds(n, S, b, g) ==
  {u \in [0 .. n -> Seq(S)] : u[0] = b /\ \A i \in 1 .. n : u[i] = u[i - 1] \o g[i]}

\* Such a loop ends.
LEMMA PiecesAreAdded ==
  ASSUME NEW n \in Nat, NEW S, NEW b \in Seq(S), NEW g \in [1 .. n -> Seq(S)]
  PROVE  Adds(n, S, b, g) # {}
  <1> DEFINE V == Seq(S)
             loop == [i \in 1 .. n |-> [v \in V |-> v \o g[i]]]
  <1>1. loop \in [1 .. n -> [V -> V]]
    OBVIOUS
  <1>2. PICK u \in [0 .. n -> V] : u[0] = b /\ \A i \in 1 .. n : u[i] = loop[i][u[i - 1]]
    <2>1. b \in V
      OBVIOUS
    <2> HIDE DEF V, loop
    <2>2. Loops(n, V, b, loop) # {}
      BY <1>1, <2>1, LoopExists
    <2> QED BY <2>2 DEF Loops
  <1>3. \A i \in 1 .. n : u[i - 1] \in V
    <2> HIDE DEF V, loop
    <2> QED BY <1>2
  <1>4. \A i \in 1 .. n : u[i] = u[i - 1] \o g[i]
    <2> HIDE DEF V
    <2> QED BY <1>2, <1>3
  <1> QED BY <1>2, <1>4 DEF Adds

\* What it ends with is made of the pieces.
LEMMA AddedPieces ==
  ASSUME NEW n \in Nat, NEW S, NEW u, u[0] \in Seq(S),
         \A i \in 1 .. n : u[i - 1] \in Seq(S) => u[i] \in Seq(S)
  PROVE  u[n] \in Seq(S)
  <1> DEFINE Wrong == {m \in 0 .. n : u[m] \notin Seq(S)}
  <1>1. Wrong = {}
    <2>1. SUFFICES ASSUME Wrong # {} PROVE FALSE
      OBVIOUS
    <2>2. PICK m \in Wrong : \A k \in Wrong : m <= k
      <3>1. Wrong \in SUBSET Nat
        OBVIOUS
      <3> HIDE DEF Wrong
      <3> QED BY <2>1, <3>1, LeastExists
    <2>3. m \in 1 .. n /\ u[m] \notin Seq(S)
      <3>1. m \in 0 .. n /\ u[m] \notin Seq(S)
        OBVIOUS
      <3> QED BY <3>1
    <2>4. m - 1 \in 0 .. n /\ ~(m <= m - 1)
      BY <2>3
    <2>5. m - 1 \notin Wrong
      <3> HIDE DEF Wrong
      <3> QED BY <2>2, <2>4
    <2>6. u[m - 1] \in Seq(S)
      BY <2>4, <2>5
    <2> HIDE DEF Wrong
    <2> QED BY <2>3, <2>6
  <1> QED BY <1>1

\* Pieces one after the other.
LEMMA FlattenIsSequence ==
  ASSUME NEW S, NEW s \in Seq(Seq(S))
  PROVE  FlattenSeq(s) \in Seq(S)
  <1> DEFINE n == Len(s)
             body(f) == [i \in 1 .. n |-> IF i = 1 THEN s[i] ELSE f[i - 1] \o s[i]]
             flatten == CHOOSE f : f = body(f)
             g == [i \in 1 .. n |-> s[i]]
  <1>1. n \in Nat /\ \A i \in 1 .. n : s[i] \in Seq(S)
    OBVIOUS
  <1>2. CASE n = 0
    BY <1>2 DEF FlattenSeq
  <1>3. CASE n # 0
    <2> HIDE DEF n
    <2>0. n \in 1 .. n /\ 1 \in 1 .. n
      BY <1>1, <1>3
    <2>1. PICK e : e = <<>>
      OBVIOUS
    <2>2. e \in Seq(S) /\ (\A x \in Seq(S) : e \o x = x) /\ g \in [1 .. n -> Seq(S)]
          /\ \A i \in 1 .. n : g[i] = s[i]
      BY <1>1, <2>1
    <2> HIDE DEF g
    <2>3. PICK u \in [0 .. n -> Seq(S)] : u[0] = e /\ \A i \in 1 .. n : u[i] = u[i - 1] \o g[i]
      <3>1. Adds(n, S, e, g) # {}
        BY <1>1, <2>2, PiecesAreAdded
      <3> QED BY <3>1 DEF Adds
    <2> DEFINE w == [i \in 1 .. n |-> u[i]]
    <2>4. w = body(w)
      <3>1. u[1] = s[1]
        <4>1. PICK k \in 1 .. n : k = 1
          BY <2>0
        <4>2. u[k] = u[k - 1] \o g[k] /\ k - 1 = 0 /\ g[k] = s[1] /\ u[0] = e
          BY <2>2, <2>3, <4>1
        <4>3. u[k] = e \o s[1]
          BY <4>2
        <4> QED BY <1>1, <2>0, <2>2, <4>1, <4>3
      <3>2. ASSUME NEW i \in 1 .. n, i # 1 PROVE u[i] = u[i - 1] \o s[i]
        BY <2>2, <2>3
      <3>3. ASSUME NEW i \in 1 .. n, i # 1 PROVE w[i] = w[i - 1] \o s[i]
        <4>1. i - 1 \in 1 .. n
          BY <1>1, <3>3
        <4>2. w[i] = u[i] /\ w[i - 1] = u[i - 1]
          BY <4>1
        <4> QED BY <3>2, <3>3, <4>2
      <3>4. w[1] = s[1] /\ w = [i \in 1 .. n |-> w[i]]
        BY <2>0, <3>1
      <3> HIDE DEF w
      <3>5. ASSUME NEW i \in 1 .. n PROVE w[i] = IF i = 1 THEN s[i] ELSE w[i - 1] \o s[i]
        BY <3>3, <3>4
      <3> QED BY <3>4, <3>5
    <2>5. flatten = body(flatten)
      <3> HIDE DEF body, w
      <3> QED BY <2>4
    <2>6. \A i \in 1 .. n : flatten[i] = IF i = 1 THEN s[i] ELSE flatten[i - 1] \o s[i]
      <3> HIDE DEF flatten
      <3> QED BY <2>5
    <2> DEFINE v == [i \in 0 .. n |-> IF i = 0 THEN s[1] ELSE flatten[i]]
    <2>7. v[0] \in Seq(S)
      BY <1>1, <2>0
    <2>8. \A i \in 1 .. n : v[i - 1] \in Seq(S) => v[i] \in Seq(S)
      <3> SUFFICES ASSUME NEW i \in 1 .. n, v[i - 1] \in Seq(S) PROVE v[i] \in Seq(S)
        OBVIOUS
      <3>1. CASE i = 1
        <4> HIDE DEF flatten
        <4> QED BY <1>1, <2>6, <3>1
      <3>2. CASE i # 1
        <4> HIDE DEF flatten
        <4>1. v[i - 1] = flatten[i - 1] /\ v[i] = flatten[i] /\ s[i] \in Seq(S)
          BY <1>1, <3>2
        <4>2. flatten[i] = flatten[i - 1] \o s[i]
          BY <2>6, <3>2
        <4> HIDE DEF v
        <4> QED BY <4>1, <4>2
      <3> QED BY <3>1, <3>2
    <2>9. v[n] \in Seq(S)
      <3> HIDE DEF v
      <3> QED BY <1>1, <2>7, <2>8, AddedPieces
    <2>10. flatten[n] \in Seq(S)
      <3> HIDE DEF flatten
      <3> QED BY <2>0, <2>9
    <2>11. FlattenSeq(s) = flatten[n]
      BY <1>3 DEF FlattenSeq, n
    <2> QED BY <2>10, <2>11
  <1> QED BY <1>2, <1>3

\* Pieces of as many members as there are places.
LEMMA FlattenPieces ==
  ASSUME NEW S, NEW n \in Nat, NEW g, g = [i \in 1 .. n |-> g[i]], \A i \in 1 .. n : g[i] \in Seq(S)
  PROVE  FlattenSeq(g) \in Seq(S)
  <1>1. g \in [1 .. n -> Seq(S)]
    OBVIOUS
  <1>2. g \in Seq(Seq(S))
    <2> DEFINE V == Seq(S)
    <2>1. g \in [1 .. n -> V]
      BY <1>1
    <2> HIDE DEF V
    <2>2. g \in Seq(V)
      BY <2>1
    <2> QED BY <2>2 DEF V
  <1> QED BY <1>2, FlattenIsSequence

\* What stands for a symbol in a string.
LEMMA EscapesAreTexts ==
  ASSUME NEW c \in Symbols
  PROVE  EscapeOf(c) \in Seq(Symbols)
  <1>1. EscapeOf(c) \in {<<BACKSLASH, QUOTE>>, <<BACKSLASH, BACKSLASH>>, <<BACKSLASH, "n">>, <<BACKSLASH, "t">>,
                         <<BACKSLASH, "u", "000C">>, <<c>>}
    BY Zenon DEF EscapeOf
  <1>2. {BACKSLASH, QUOTE, "n", "t", "u", "000C"} \subseteq Symbols
    BY SymbolsAssumption, NamesAssumption
  <1>3. (\A x, y \in Symbols : <<x, y>> \in Seq(Symbols)) /\ (\A x, y, z \in Symbols : <<x, y, z>> \in Seq(Symbols))
        /\ <<c>> \in Seq(Symbols)
    OBVIOUS
  <1>4. /\ <<BACKSLASH, QUOTE>> \in Seq(Symbols) /\ <<BACKSLASH, BACKSLASH>> \in Seq(Symbols)
        /\ <<BACKSLASH, "n">> \in Seq(Symbols) /\ <<BACKSLASH, "t">> \in Seq(Symbols)
        /\ <<BACKSLASH, "u", "000C">> \in Seq(Symbols)
    BY <1>2, <1>3, Zenon
  <1> QED BY <1>1, <1>3, <1>4, Zenon

\* A string is written as a text.
LEMMA WrittenIsText ==
  ASSUME NEW t \in Seq(Symbols)
  PROVE  Written(t) \in Seq(Symbols)
  <1> DEFINE n == Len(t)
             g == [i \in DOMAIN t |-> EscapeOf(t[i])]
  <1>1. n \in Nat /\ DOMAIN t = 1 .. n /\ \A i \in 1 .. n : t[i] \in Symbols
    OBVIOUS
  <1> HIDE DEF n
  <1>2. g = [i \in 1 .. n |-> g[i]] /\ \A i \in 1 .. n : g[i] \in Seq(Symbols)
    BY <1>1, EscapesAreTexts
  <1> HIDE DEF g
  <1>3. FlattenSeq(g) \in Seq(Symbols)
    BY <1>1, <1>2, FlattenPieces
  <1>4. <<QUOTE>> \in Seq(Symbols)
    BY SymbolsAssumption
  <1>5. <<QUOTE>> \o FlattenSeq(g) \o <<QUOTE>> \in Seq(Symbols)
    BY <1>3, <1>4
  <1> QED BY <1>5 DEF Written, g

\* A text that may be missing, and a list of members.
OptionalText == Seq(Symbols) \union {NONE}
MemberTexts  == Seq(Seq(Symbols))

\* And so is a member.
LEMMA FieldsAreTexts ==
  ASSUME NEW name \in Symbols, NEW t \in OptionalText
  PROVE  RawField(name, t) \in MemberTexts /\ StrField(name, t) \in MemberTexts
  <1>1. QUOTE \in Symbols /\ ":" \in Symbols
    BY SymbolsAssumption
  <1>0. <<>> \in MemberTexts
    BY DEF MemberTexts
  <1>2. ASSUME NEW w \in OptionalText PROVE RawField(name, w) \in MemberTexts
    <2>1. CASE w = NONE
      BY <1>0, <2>1 DEF RawField
    <2>2. CASE w # NONE
      <3>1. PICK m : m = <<QUOTE, name, QUOTE, ":">> \o w
        OBVIOUS
      <3>2. <<QUOTE, name, QUOTE, ":">> \in Seq(Symbols)
        BY <1>1
      <3>3. m \in Seq(Symbols)
        BY <2>2, <3>1, <3>2 DEF OptionalText
      <3>4. RawField(name, w) = <<m>>
        BY <2>2, <3>1 DEF RawField
      <3> QED BY <3>3, <3>4 DEF MemberTexts
    <2> QED BY <2>1, <2>2
  <1>3. StrField(name, t) \in MemberTexts
    <2>1. CASE t = NONE
      BY <1>0, <2>1 DEF StrField
    <2>2. CASE t # NONE
      BY <1>2, <2>2, WrittenIsText DEF StrField, OptionalText
    <2> QED BY <2>1, <2>2
  <1> QED BY <1>2, <1>3

\* Texts that are joined are one text.
LEMMA JoinedIsText ==
  ASSUME NEW members \in MemberTexts
  PROVE  Joined(members) \in Seq(Symbols)
  <1> DEFINE n == Len(members)
             g == [i \in DOMAIN members |-> IF i > 1 THEN <<COMMA>> \o members[i] ELSE members[i]]
  <1>1. n \in Nat /\ DOMAIN members = 1 .. n /\ \A i \in 1 .. n : members[i] \in Seq(Symbols)
    BY DEF MemberTexts
  <1> HIDE DEF n
  <1>2. <<COMMA>> \in Seq(Symbols)
    BY SymbolsAssumption
  <1>3. PICK comma : comma = <<COMMA>>
    OBVIOUS
  <1>4. ASSUME NEW i \in 1 .. n PROVE g[i] \in Seq(Symbols)
    <2>1. comma \o members[i] \in Seq(Symbols)
      BY <1>1, <1>2, <1>3
    <2> QED BY <1>1, <1>3, <2>1
  <1>5. g = [i \in 1 .. n |-> g[i]]
    BY <1>1
  <1> HIDE DEF g
  <1>6. FlattenSeq(g) \in Seq(Symbols)
    BY <1>1, <1>4, <1>5, FlattenPieces
  <1> QED BY <1>6 DEF Joined, g

\* An object or an array is one, too.
LEMMA EnclosedIsText ==
  ASSUME NEW members \in MemberTexts
  PROVE  Braces(members) \in Seq(Symbols) /\ Brackets(members) \in Seq(Symbols)
  <1>1. /\ <<LBRACE>> \in Seq(Symbols) /\ <<RBRACE>> \in Seq(Symbols)
        /\ <<"[">> \in Seq(Symbols) /\ <<"]">> \in Seq(Symbols)
    BY SymbolsAssumption
  <1>2. PICK j : j = Joined(members)
    OBVIOUS
  <1>3. j \in Seq(Symbols)
    BY <1>2, JoinedIsText
  <1>4. <<LBRACE>> \o j \o <<RBRACE>> \in Seq(Symbols) /\ <<"[">> \o j \o <<"]">> \in Seq(Symbols)
    BY <1>1, <1>3
  <1> QED BY <1>2, <1>4 DEF Braces, Brackets

\* Several members at a time.
LEMMA StrFieldsAreTexts ==
  ASSUME NEW n \in Nat, NEW names, names = [i \in 1 .. n |-> names[i]], NEW texts,
         \A i \in 1 .. n : names[i] \in Symbols /\ texts[names[i]] \in OptionalText
  PROVE  StrFields(texts, names) \in MemberTexts
  <1> DEFINE g == [i \in DOMAIN names |-> StrField(names[i], texts[names[i]])]
             V == Seq(Symbols)
  <1>1. DOMAIN names = 1 .. n
    OBVIOUS
  <1>2. g = [i \in 1 .. n |-> g[i]]
    BY <1>1
  <1>3. ASSUME NEW i \in 1 .. n PROVE g[i] \in MemberTexts
    BY <1>1, FieldsAreTexts
  <1> HIDE DEF g, V
  <1>4. FlattenSeq(g) \in Seq(V)
    BY <1>2, <1>3, FlattenPieces DEF MemberTexts, V
  <1> QED BY <1>4 DEF StrFields, g, V, MemberTexts

\* Two lists of members are one list.
LEMMA MembersTogether ==
  ASSUME NEW A \in MemberTexts, NEW B \in MemberTexts
  PROVE  A \o B \in MemberTexts
  BY DEF MemberTexts

\* What a station gives is made of texts.
AreTexts(b) ==
  /\ \A key \in TextKeys : b.texts[key] \in OptionalText
  /\ b.flags # NONE => IsSequence(b.flags) /\ \A i \in 1 .. Len(b.flags) : b.flags[i].text \in Seq(Symbols)
  /\ b.loss # NONE => \A name \in {"LN", "LI", "LR", "LU"} : b.loss[name] \in OptionalText
  /\ IsSequence(b.readings)
  /\ \A i \in 1 .. Len(b.readings) : \A f \in ScalarKeys \union NumberKeys : b.readings[i][f] \in OptionalText

\* The names that are written are words.
LEMMA NamesAreSymbols ==
  /\ \A key \in KNOWN_KEYS \union ScalarKeys \union NumberKeys : key \in Symbols
  /\ \A name \in {"LN", "LI", "LR", "LU", "SA", "SD", "OCMF", "sd", "true", "false", "|"} : name \in Symbols
  /\ \A version \in {"1.0", "1.1", "1.2", "1.3"} : version \in Symbols
  BY SymbolsAssumption, NamesAssumption DEF Literal

\* The text fields of a reading, two or three at a time.
LEMMA TwoStrFields ==
  ASSUME NEW a \in Symbols, NEW b \in Symbols, NEW texts, texts[a] \in OptionalText, texts[b] \in OptionalText
  PROVE  StrFields(texts, <<a, b>>) \in MemberTexts
  <1>1. PICK names : names = <<a, b>>
    OBVIOUS
  <1>2. names = [i \in 1 .. 2 |-> names[i]] /\ names[1] = a /\ names[2] = b
    BY <1>1
  <1>3. \A i \in 1 .. 2 : i = 1 \/ i = 2
    OBVIOUS
  <1>4. \A i \in 1 .. 2 : names[i] \in Symbols /\ texts[names[i]] \in OptionalText
    BY <1>2, <1>3
  <1> QED BY <1>1, <1>2, <1>4, StrFieldsAreTexts

\* A reading is written as a text.
LEMMA ReadingTextIsText ==
  ASSUME NEW r, \A f \in ScalarKeys \union NumberKeys : r[f] \in OptionalText
  PROVE  ReadingText(r) \in Seq(Symbols)
  <1>1. \A f \in {"TM", "TX", "RV", "RI", "RU", "RT", "CL", "EF", "ST"} : r[f] \in OptionalText /\ f \in Symbols
    BY NamesAreSymbols DEF ScalarKeys, NumberKeys
  <1>2. StrFields(r, <<"TM", "TX">>) \in MemberTexts /\ StrFields(r, <<"EF", "ST">>) \in MemberTexts
    BY <1>1, TwoStrFields
  <1>3. StrFields(r, <<"RI", "RU", "RT">>) \in MemberTexts
    <2>1. PICK names : names = <<"RI", "RU", "RT">>
      OBVIOUS
    <2>2. names = [i \in 1 .. 3 |-> names[i]] /\ names[1] = "RI" /\ names[2] = "RU" /\ names[3] = "RT"
      BY <2>1
    <2>3. \A i \in 1 .. 3 : i = 1 \/ i = 2 \/ i = 3
      OBVIOUS
    <2>4. \A i \in 1 .. 3 : names[i] \in Symbols /\ r[names[i]] \in OptionalText
      BY <1>1, <2>2, <2>3
    <2> QED BY <2>1, <2>2, <2>4, StrFieldsAreTexts
  <1>4. RawField("RV", r.RV) \in MemberTexts /\ RawField("CL", r.CL) \in MemberTexts
    BY <1>1, FieldsAreTexts
  <1>5. ReadingText(r) = Braces(StrFields(r, <<"TM", "TX">>) \o RawField("RV", r.RV)
           \o StrFields(r, <<"RI", "RU", "RT">>) \o RawField("CL", r.CL)
           \o StrFields(r, <<"EF", "ST">>))
    BY DEF ReadingText
  <1> QED BY <1>2, <1>3, <1>4, <1>5, MembersTogether, EnclosedIsText

\* And so is the loss compensation, if it is given.
LEMMA LossTextIsText ==
  ASSUME NEW lc, lc # NONE => \A name \in {"LN", "LI", "LR", "LU"} : lc[name] \in OptionalText
  PROVE  LossText(lc) \in OptionalText
  <1>1. CASE lc = NONE
    BY <1>1 DEF LossText, OptionalText
  <1>2. CASE lc # NONE
    <2>1. /\ StrField("LN", lc.LN) \in MemberTexts /\ RawField("LI", lc.LI) \in MemberTexts
          /\ RawField("LR", lc.LR) \in MemberTexts /\ StrField("LU", lc.LU) \in MemberTexts
      BY <1>2, NamesAreSymbols, FieldsAreTexts
    <2>2. LossText(lc) = Braces(StrField("LN", lc.LN) \o RawField("LI", lc.LI) \o RawField("LR", lc.LR)
                                  \o StrField("LU", lc.LU))
      BY <1>2 DEF LossText
    <2> QED BY <2>1, <2>2, MembersTogether, EnclosedIsText DEF OptionalText
  <1> QED BY <1>1, <1>2

\* The items of an array are members of a list.
LEMMA ItemsAreTexts ==
  ASSUME NEW n \in Nat, NEW g, g = [i \in 1 .. n |-> g[i]], \A i \in 1 .. n : g[i] \in Seq(Symbols)
  PROVE  g \in MemberTexts
  <1> DEFINE V == Seq(Symbols)
  <1>1. g \in [1 .. n -> V]
    OBVIOUS
  <1> HIDE DEF V
  <1>2. g \in Seq(V)
    BY <1>1
  <1> QED BY <1>2 DEF V, MemberTexts

\* Several text fields of the payload.
LEMMA TextFieldsAreTexts ==
  ASSUME NEW t, \A key \in TextKeys : t[key] \in OptionalText
  PROVE  /\ StrFields(t, <<"GI", "GS", "GV", "PG", "MV", "MM", "MS", "MF">>) \in MemberTexts
         /\ StrFields(t, <<"IT", "ID", "TT", "CF">>) \in MemberTexts
         /\ StrFields(t, <<"CT", "CI">>) \in MemberTexts
         /\ StrField("IL", t["IL"]) \in MemberTexts
  <1>1. \A key \in {"GI", "GS", "GV", "PG", "MV", "MM", "MS", "MF", "IT", "ID", "TT", "CF", "CT", "CI", "IL"} :
          key \in Symbols /\ t[key] \in OptionalText
    BY NamesAreSymbols DEF TextKeys, KNOWN_KEYS
  <1>2. StrFields(t, <<"GI", "GS", "GV", "PG", "MV", "MM", "MS", "MF">>) \in MemberTexts
    <2>1. PICK names : names = <<"GI", "GS", "GV", "PG", "MV", "MM", "MS", "MF">>
      OBVIOUS
    <2>2. /\ names = [i \in 1 .. 8 |-> names[i]] /\ names[1] = "GI" /\ names[2] = "GS" /\ names[3] = "GV"
          /\ names[4] = "PG" /\ names[5] = "MV" /\ names[6] = "MM" /\ names[7] = "MS" /\ names[8] = "MF"
      BY <2>1
    <2>3. \A i \in 1 .. 8 : i = 1 \/ i = 2 \/ i = 3 \/ i = 4 \/ i = 5 \/ i = 6 \/ i = 7 \/ i = 8
      OBVIOUS
    <2>4. \A i \in 1 .. 8 : names[i] \in Symbols /\ t[names[i]] \in OptionalText
      BY <1>1, <2>2, <2>3
    <2> QED BY <2>1, <2>2, <2>4, StrFieldsAreTexts
  <1>3. StrFields(t, <<"IT", "ID", "TT", "CF">>) \in MemberTexts
    <2>1. PICK names : names = <<"IT", "ID", "TT", "CF">>
      OBVIOUS
    <2>2. /\ names = [i \in 1 .. 4 |-> names[i]] /\ names[1] = "IT" /\ names[2] = "ID" /\ names[3] = "TT"
          /\ names[4] = "CF"
      BY <2>1
    <2>3. \A i \in 1 .. 4 : i = 1 \/ i = 2 \/ i = 3 \/ i = 4
      OBVIOUS
    <2>4. \A i \in 1 .. 4 : names[i] \in Symbols /\ t[names[i]] \in OptionalText
      BY <1>1, <2>2, <2>3
    <2> QED BY <2>1, <2>2, <2>4, StrFieldsAreTexts
  <1>4. StrFields(t, <<"CT", "CI">>) \in MemberTexts
    BY <1>1, TwoStrFields
  <1>5. StrField("IL", t["IL"]) \in MemberTexts
    BY <1>1, FieldsAreTexts
  <1> QED BY <1>2, <1>3, <1>4, <1>5

\* A payload is a text.
LEMMA PayloadTextIsText ==
  ASSUME NEW b, AreTexts(b)
  PROVE  PayloadText(b) \in Seq(Symbols)
  <1> DEFINE t == b.texts
             version == IF t["FV"] # NONE THEN t["FV"] ELSE RequiredFormatVersion(b)
             assigned == IF b.assigned = NONE THEN NONE ELSE IF b.assigned THEN <<"true">> ELSE <<"false">>
             flagged == [i \in DOMAIN b.flags |-> Written(b.flags[i].text)]
             flags == IF b.flags = NONE THEN NONE ELSE Brackets(flagged)
             read == [i \in DOMAIN b.readings |-> ReadingText(b.readings[i])]
  <1>1. StrField("FV", version) \in MemberTexts
    <2>1. RequiredFormatVersion(b) \in {<<"1.0">>, <<"1.1">>, <<"1.2">>, <<"1.3">>}
      BY Zenon DEF RequiredFormatVersion
    <2>2. \A w \in {"1.0", "1.1", "1.2", "1.3"} : <<w>> \in Seq(Symbols)
      BY NamesAreSymbols
    <2>3. RequiredFormatVersion(b) \in Seq(Symbols)
      BY <2>1, <2>2
    <2>4. "FV" \in TextKeys /\ "FV" \in KNOWN_KEYS
      BY DEF TextKeys, KNOWN_KEYS
    <2>5. t["FV"] \in OptionalText
      BY <2>4 DEF AreTexts
    <2>6. version \in OptionalText
      BY <2>3, <2>5 DEF OptionalText
    <2>7. "FV" \in Symbols
      BY <2>4, NamesAreSymbols
    <2> HIDE DEF version
    <2> QED BY <2>6, <2>7, FieldsAreTexts
  <1>2. RawField("IS", assigned) \in MemberTexts
    <2>1. "IS" \in Symbols /\ <<"true">> \in Seq(Symbols) /\ <<"false">> \in Seq(Symbols)
      BY NamesAreSymbols DEF KNOWN_KEYS
    <2>2. assigned \in OptionalText
      BY <2>1 DEF OptionalText
    <2> HIDE DEF assigned
    <2> QED BY <2>1, <2>2, FieldsAreTexts
  <1>3. RawField("IF", flags) \in MemberTexts
    <2>1. "IF" \in Symbols
      BY NamesAreSymbols DEF KNOWN_KEYS
    <2>2. flags \in OptionalText
      <3>1. CASE b.flags = NONE
        BY <3>1 DEF OptionalText
      <3>2. CASE b.flags # NONE
        <4>1. /\ Len(b.flags) \in Nat /\ DOMAIN b.flags = 1 .. Len(b.flags)
              /\ \A i \in 1 .. Len(b.flags) : b.flags[i].text \in Seq(Symbols)
          BY <3>2, SequenceHasLast DEF AreTexts
        <4>2. PICK n : n = Len(b.flags)
          OBVIOUS
        <4>3. flagged = [i \in 1 .. n |-> flagged[i]] /\ \A i \in 1 .. n : flagged[i] \in Seq(Symbols)
          BY <4>1, <4>2, WrittenIsText
        <4> HIDE DEF flagged
        <4>4. flagged \in MemberTexts
          BY <4>1, <4>2, <4>3, ItemsAreTexts
        <4>5. Brackets(flagged) \in Seq(Symbols)
          BY <4>4, EnclosedIsText
        <4> QED BY <3>2, <4>5 DEF OptionalText
      <3> QED BY <3>1, <3>2
    <2> HIDE DEF flags
    <2> QED BY <2>1, <2>2, FieldsAreTexts
  <1>4. RawField("LC", LossText(b.loss)) \in MemberTexts
    <2>1. "LC" \in Symbols
      BY NamesAreSymbols DEF KNOWN_KEYS
    <2>2. LossText(b.loss) \in OptionalText
      BY LossTextIsText DEF AreTexts
    <2> QED BY <2>1, <2>2, FieldsAreTexts
  <1>5. RawField("RD", Brackets(read)) \in MemberTexts
    <2>1. "RD" \in Symbols
      BY NamesAreSymbols DEF KNOWN_KEYS
    <2>2. /\ Len(b.readings) \in Nat /\ DOMAIN b.readings = 1 .. Len(b.readings)
          /\ \A i \in 1 .. Len(b.readings) :
               \A f \in ScalarKeys \union NumberKeys : b.readings[i][f] \in OptionalText
      BY SequenceHasLast DEF AreTexts
    <2>3. PICK n : n = Len(b.readings)
      OBVIOUS
    <2>4. read = [i \in 1 .. n |-> read[i]]
      BY <2>2, <2>3
    <2>5. ASSUME NEW i \in 1 .. n PROVE read[i] \in Seq(Symbols)
      <3>1. ReadingText(b.readings[i]) \in Seq(Symbols)
        BY <2>2, <2>3, ReadingTextIsText
      <3> QED BY <2>2, <2>3, <3>1
    <2> HIDE DEF read
    <2>6. read \in MemberTexts
      BY <2>2, <2>3, <2>4, <2>5, ItemsAreTexts
    <2>7. Brackets(read) \in OptionalText
      BY <2>6, EnclosedIsText DEF OptionalText
    <2> QED BY <2>1, <2>7, FieldsAreTexts
  <1>6. /\ StrFields(t, <<"GI", "GS", "GV", "PG", "MV", "MM", "MS", "MF">>) \in MemberTexts
        /\ StrFields(t, <<"IT", "ID", "TT", "CF">>) \in MemberTexts
        /\ StrFields(t, <<"CT", "CI">>) \in MemberTexts
        /\ StrField("IL", t["IL"]) \in MemberTexts
    BY TextFieldsAreTexts DEF AreTexts
  <1>7. PayloadText(b) =
          Braces(StrField("FV", version)
           \o StrFields(t, <<"GI", "GS", "GV", "PG", "MV", "MM", "MS", "MF">>)
           \o RawField("IS", assigned)
           \o StrField("IL", t["IL"])
           \o RawField("IF", flags)
           \o StrFields(t, <<"IT", "ID", "TT", "CF">>)
           \o RawField("LC", LossText(b.loss))
           \o StrFields(t, <<"CT", "CI">>)
           \o RawField("RD", Brackets(read)))
    BY DEF PayloadText
  <1> HIDE DEF version, assigned, flags, read, t
  <1> QED BY <1>1, <1>2, <1>3, <1>4, <1>5, <1>6, <1>7, MembersTogether, EnclosedIsText

\* And so is the record around it.
LEMMA RecordTextIsText ==
  ASSUME NEW p \in Seq(Symbols), NEW curve \in Curves, NEW write
  PROVE  RecordText(p, curve, write) \in Seq(Symbols)
  <1> DEFINE named == IF write THEN StrField("SA", <<curve>>) ELSE <<>>
  <1>1. /\ curve \in Symbols /\ <<curve>> \in Seq(Symbols) /\ <<"sd">> \in Seq(Symbols)
        /\ "SA" \in Symbols /\ "SD" \in Symbols /\ <<"OCMF", "|">> \in Seq(Symbols) /\ <<"|">> \in Seq(Symbols)
    <2>1. curve \in Symbols
      BY NamesAssumption
    <2> QED BY <2>1, NamesAreSymbols
  <1>2. StrField("SA", <<curve>>) \in MemberTexts /\ StrField("SD", <<"sd">>) \in MemberTexts
    BY <1>1, FieldsAreTexts DEF OptionalText
  <1>3. named \in MemberTexts
    BY <1>2 DEF MemberTexts
  <1> HIDE DEF named
  <1>4. PICK s : s = Braces(named \o StrField("SD", <<"sd">>))
    OBVIOUS
  <1>5. s \in Seq(Symbols)
    BY <1>2, <1>3, <1>4, MembersTogether, EnclosedIsText
  <1>6. <<"OCMF", "|">> \o p \o <<"|">> \o s \in Seq(Symbols)
    BY <1>1, <1>5
  <1> QED BY <1>4, <1>6 DEF RecordText, named

\* What is given to be signed is made of texts.
LEMMA TasksAreGiven ==
  ASSUME NEW task \in SignTasks
  PROVE  AreTexts(task[1]) /\ task[2].curve \in Curves
  <1>1. PICK b : b = task[1]
    OBVIOUS
  <1>2. /\ task[2] \in Signers
        /\ FieldTexts(b) \subseteq Seq(Symbols) \union {NONE}
        /\ b.flags # NONE => /\ b.flags \in Seq(Range(b.flags))
                             /\ \A flag \in Range(b.flags) : flag.text # NONE
        /\ b.readings \in Seq(Range(b.readings))
    BY <1>1, TasksAssumption
  <1>3. \A key \in TextKeys : b.texts[key] \in OptionalText
    BY <1>2 DEF FieldTexts, OptionalText
  <1>4. ASSUME b.flags # NONE
        PROVE  IsSequence(b.flags) /\ \A i \in 1 .. Len(b.flags) : b.flags[i].text \in Seq(Symbols)
    <2>1. \A flag \in Range(b.flags) : flag.text \in Seq(Symbols)
      BY <1>2, <1>4 DEF FieldTexts
    <2>2. PICK f : f = b.flags
      OBVIOUS
    <2>3. f \in Seq(Range(f))
      BY <1>2, <1>4, <2>2
    <2>4. f = [i \in 1 .. Len(f) |-> f[i]] /\ \A i \in 1 .. Len(f) : f[i] \in Range(f)
      BY <2>3
    <2> QED BY <2>1, <2>2, <2>3, <2>4 DEF IsSequence
  <1>5. ASSUME b.loss # NONE, NEW name \in {"LN", "LI", "LR", "LU"} PROVE b.loss[name] \in OptionalText
    <2>1. {b.loss.LN, b.loss.LI, b.loss.LR, b.loss.LU} \subseteq FieldTexts(b)
      BY <1>5 DEF FieldTexts
    <2> QED BY <1>2, <1>5, <2>1 DEF OptionalText
  <1>6. PICK r : r = b.readings
    OBVIOUS
  <1>7. r = [i \in 1 .. Len(r) |-> r[i]] /\ \A i \in 1 .. Len(r) : r[i] \in Range(r)
    BY <1>2, <1>6
  <1>8. ASSUME NEW i \in 1 .. Len(r), NEW f \in ScalarKeys \union NumberKeys PROVE r[i][f] \in OptionalText
    <2>1. r[i][f] \in FieldTexts(b)
      BY <1>6, <1>7 DEF FieldTexts
    <2> QED BY <1>2, <2>1 DEF OptionalText
  <1>9. IsSequence(r)
    BY <1>2, <1>6 DEF IsSequence
  <1>10. task[2].curve \in Curves
    BY <1>2 DEF Signers
  <1> QED BY <1>1, <1>3, <1>4, <1>5, <1>6, <1>8, <1>9, <1>10 DEF AreTexts

\* What is being signed is made of texts, and so is what has been written.
Writing ==
  /\ stage # "idle" => AreTexts(builder) /\ signer.curve \in Curves
  /\ stage = "rendered" => rendered \in Seq(Symbols)

\* Signing keeps it, and gives the reader a text.
LEMMA BuildKeepsWriting ==
  ASSUME Sections, Writing, Build
  PROVE  Sections' /\ Writing'
  <1>1. CASE Render
    <2>1. Sections'
      BY <1>1, SectionsStay DEF Render
    <2>2. builder' = builder /\ signer' = signer /\ stage = "given"
      BY <1>1 DEF Render, Fail
    <2>3. stage' = "rendered" => rendered' = PayloadText(builder)
      BY <1>1 DEF Render, Fail
    <2>4. AreTexts(builder) /\ signer.curve \in Curves
      BY <2>2 DEF Writing
    <2>5. PayloadText(builder) \in Seq(Symbols)
      BY <2>4, PayloadTextIsText
    <2> QED BY <2>1, <2>2, <2>3, <2>4, <2>5 DEF Writing
  <1>2. CASE Emit
    <2>1. stage = "rendered" /\ signer.curve \in Curves /\ rendered \in Seq(Symbols) /\ AreTexts(builder)
      BY <1>2 DEF Emit, Writing
    <2>2. builder' = builder /\ signer' = signer /\ stage' \in {"done", "emitted"}
      BY <1>2 DEF Emit, Fail
    <2>3. Writing'
      BY <2>1, <2>2 DEF Writing
    <2>4. CASE UNCHANGED <<json, reading>>
      BY <2>3, <2>4, SectionsStay
    <2>5. CASE Reading(RecordText(rendered, signer.curve, builder.write_algorithm), "Strict")
      <3>1. PICK t : t = RecordText(rendered, signer.curve, builder.write_algorithm)
        OBVIOUS
      <3>2. t \in Seq(Symbols)
        BY <2>1, <3>1, RecordTextIsText
      <3>3. Reading(t, "Strict")
        BY <2>5, <3>1
      <3> QED BY <2>3, <3>2, <3>3, SectionsAtFirst
    <2> QED BY <1>2, <2>4, <2>5 DEF Emit
  <1>3. CASE ReadBack
    <2>1. UNCHANGED building /\ Read
      BY <1>3 DEF ReadBack
    <2>2. Sections'
      BY <2>1, ReadKeepsSections
    <2> QED BY <2>1, <2>2 DEF Writing, building
  <1>4. CASE SelfCheck
    <2>1. Sections'
      BY <1>4, SectionsStay DEF SelfCheck
    <2> QED BY <1>4, <2>1 DEF Writing, SelfCheck
  <1> QED BY <1>1, <1>2, <1>3, <1>4 DEF Build

\* Whatever a program asks of the library.
LEMMA SectionsAlways == Spec => [](Sections /\ Writing)
  <1>1. Init => Sections /\ Writing
    <2> SUFFICES ASSUME Init PROVE Sections /\ Writing
      OBVIOUS
    <2>1. NothingRead /\ NothingSigned
      BY DEF Init
    <2>2. text \in Seq(Symbols)
      BY <2>1 DEF NothingRead
    <2> QED BY <2>1, <2>2 DEF NothingRead, NothingSigned, Sections, Writing, IsSection, NoSection, IsRead
  <1>2. (Sections /\ Writing) /\ [Next]_vars => (Sections /\ Writing)'
    <2> SUFFICES ASSUME Sections, Writing, [Next]_vars PROVE Sections' /\ Writing'
      OBVIOUS
    <2>1. CASE UNCHANGED using_library
      <3>1. UNCHANGED <<json, reading>> /\ UNCHANGED building
        BY <2>1 DEF using_library
      <3>2. Sections'
        BY <3>1, SectionsStay
      <3> QED BY <3>1, <3>2 DEF Writing, building
    <2>2. CASE CallRead
      <3>1. PICK task \in ReadTasks : Reading(task[1], task[2])
        BY <2>2 DEF CallRead
      <3>2. PICK t, p : t = task[1] /\ p = task[2]
        OBVIOUS
      <3>3. t \in Seq(Symbols) /\ Reading(t, p)
        BY <3>1, <3>2, TasksAssumption
      <3>4. Sections'
        BY <3>3, SectionsAtFirst
      <3> QED BY <2>2, <3>4 DEF CallRead, Writing, building
    <2>3. CASE CallSign
      <3>1. PICK task \in SignTasks : Sign(task[1], task[2])
        BY <2>3 DEF CallSign
      <3>2. Writing'
        BY <3>1, TasksAreGiven DEF Sign, Writing
      <3>3. Sections'
        BY <2>3, SectionsStay DEF CallSign
      <3> QED BY <3>2, <3>3
    <2>4. CASE ReadOnly
      <3>1. Sections'
        BY <2>4, ReadKeepsSections DEF ReadOnly
      <3> QED BY <2>4, <3>1 DEF ReadOnly, Writing, building
    <2>5. CASE Building
      BY <2>5, BuildKeepsWriting DEF Building
    <2>6. CASE CallTool \/ Tool \/ CallForm \/ Forming
      BY <2>1, <2>6 DEF CallTool, Tool, CallForm, Forming
    <2>7. CASE UNCHANGED vars
      BY <2>1, <2>7 DEF vars
    <2> QED BY <2>2, <2>3, <2>4, <2>5, <2>6, <2>7 DEF Next
  <1> QED BY <1>1, <1>2, PTL DEF Spec

\* At every position the reader stops at, whatever has been opened and not closed since
\* the section began is what it counts as open, strings and escaped quotes passed over:
\* no bracket is lost on the way, however the text is spelled (json.rs, value and skip_string).
THEOREM DepthIsAlwaysNesting == Spec => []DepthIsNesting
  <1>1. Sections /\ Writing => DepthIsNesting
    BY SectionsShow
  <1> QED BY <1>1, SectionsAlways, PTL

\* Of every record that is read the signed span is what lies between two bars that delimit
\* sections, and these are the only ones of their kind: a bar in a string never ends a
\* section early, and nothing of the text belongs to two sections or is taken for another
\* (record.rs, split).
THEOREM SpansAreAlwaysBetweenBars == Spec => []SpansAreBetweenBars
  <1>1. Sections /\ Writing => SpansAreBetweenBars
    BY SectionsShow
  <1> QED BY <1>1, SectionsAlways, PTL

-----------------------------------------------------------------------------
(***************************************************************************)
(* Decoding.  What follows from the end of a string comes first, so the    *)
(* last place at which it could go wrong is looked for.                    *)
(***************************************************************************)
\* What a string holds from i on, if f is what it holds from later places on.
FromHere(raw, f, i) ==
  IF i > Len(raw) THEN <<>>
  ELSE IF raw[i] # BACKSLASH THEN <<raw[i]>> \o f[i + 1]
  ELSE IF i = Len(raw) THEN <<>>
  ELSE <<EscapeMeans(raw, i)>> \o f[i + EscapeLength(raw, i)]

\* What stands for something stands for a symbol.
LEMMA EscapesMeanSymbols ==
  /\ \A x \in DOMAIN Simple : Simple[x] \in Symbols
  /\ \A x \in DOMAIN Hex : Hex[x] \in Symbols
  <1>1. /\ QUOTE \in Symbols /\ BACKSLASH \in Symbols /\ "/" \in Symbols /\ "^" \in Symbols
        /\ "ff" \in Symbols /\ "nl" \in Symbols /\ "N" \in Symbols /\ "k" \in Symbols
    BY SymbolsAssumption DEF Control
  <1> QED BY <1>1 DEF Simple, Hex

\* An escape within a string stands for a symbol and ends behind it.
LEMMA EscapeIsText ==
  ASSUME NEW raw \in Seq(Symbols), NEW i \in 1 .. Len(raw), i # Len(raw)
  PROVE  EscapeMeans(raw, i) \in Symbols /\ EscapeLength(raw, i) \in 1 .. 6
  <1>1. "pair" \in Symbols /\ "FFFD" \in Symbols
    BY SymbolsAssumption
  <1>2. At(raw, i + 1) = raw[i + 1] /\ raw[i + 1] \in Symbols
    BY DEF At
  <1>3. EscapeLength(raw, i) \in {2, 3, 6}
    BY Zenon DEF EscapeLength
  <1>4. EscapeMeans(raw, i) \in Symbols
    <2>1. NONE \notin DOMAIN Hex
      <3>1. DOMAIN Hex \subseteq Symbols
        BY SymbolsAssumption DEF Hex4
      <3> QED BY <3>1, SymbolsAssumption
    <2>2. At(raw, i + 2) \in DOMAIN Hex => At(raw, i + 2) = raw[i + 2]
      BY <2>1 DEF At
    <2> QED BY <1>1, <1>2, <2>2, EscapesMeanSymbols DEF EscapeMeans
  <1> QED BY <1>3, <1>4

\* What a string holds from i on is a text if it is one from later places on.
LEMMA FromHereIsText ==
  ASSUME NEW raw \in Seq(Symbols), NEW i \in 1 .. Len(raw) + 6, NEW f,
         \A k \in 1 .. Len(raw) + 6 : k > i => f[k] \in Seq(Symbols)
  PROVE  FromHere(raw, f, i) \in Seq(Symbols)
  <1>1. CASE i > Len(raw)
    BY <1>1 DEF FromHere
  <1>2. CASE i <= Len(raw)
    <2>1. raw[i] \in Symbols /\ i + 1 \in 1 .. Len(raw) + 6 /\ i + 1 > i
      BY <1>2
    <2>2. f[i + 1] \in Seq(Symbols)
      BY <2>1
    <2>3. CASE raw[i] # BACKSLASH
      <3>1. FromHere(raw, f, i) = <<raw[i]>> \o f[i + 1]
        BY <1>2, <2>3 DEF FromHere
      <3> QED BY <2>1, <2>2, <3>1
    <2>4. CASE raw[i] = BACKSLASH /\ i # Len(raw)
      <3>1. EscapeMeans(raw, i) \in Symbols /\ EscapeLength(raw, i) \in 1 .. 6
        BY <1>2, <2>4, EscapeIsText
      <3>2. PICK e, l : e = EscapeMeans(raw, i) /\ l = EscapeLength(raw, i)
        OBVIOUS
      <3>3. i + l \in 1 .. Len(raw) + 6 /\ i + l > i
        BY <1>2, <3>1, <3>2
      <3>4. f[i + l] \in Seq(Symbols)
        BY <3>3
      <3>5. FromHere(raw, f, i) = <<e>> \o f[i + l]
        BY <1>2, <2>4, <3>2 DEF FromHere
      <3> QED BY <3>1, <3>2, <3>4, <3>5
    <2>5. CASE raw[i] = BACKSLASH /\ i = Len(raw)
      BY <1>2, <2>5 DEF FromHere
    <2> QED BY <2>3, <2>4, <2>5
  <1> QED BY <1>1, <1>2

\* And nothing before it matters.
LEMMA FromHereLooksAhead ==
  ASSUME NEW raw \in Seq(Symbols), NEW i \in 1 .. Len(raw) + 6, NEW f, NEW g,
         \A k \in 1 .. Len(raw) + 6 : k > i => f[k] = g[k]
  PROVE  FromHere(raw, f, i) = FromHere(raw, g, i)
  <1>1. CASE i > Len(raw)
    BY <1>1 DEF FromHere
  <1>2. CASE i <= Len(raw)
    <2>1. i + 1 \in 1 .. Len(raw) + 6 /\ i + 1 > i
      BY <1>2
    <2>2. f[i + 1] = g[i + 1]
      BY <2>1
    <2>3. PICK l : l = EscapeLength(raw, i)
      OBVIOUS
    <2>4. i # Len(raw) => f[i + l] = g[i + l]
      <3> SUFFICES ASSUME i # Len(raw) PROVE f[i + l] = g[i + l]
        OBVIOUS
      <3>1. l \in 1 .. 6
        BY <1>2, <2>3, EscapeIsText
      <3>2. i + l \in 1 .. Len(raw) + 6 /\ i + l > i
        BY <1>2, <3>1
      <3> QED BY <3>2
    <2> QED BY <1>2, <2>2, <2>3, <2>4 DEF FromHere
  <1> QED BY <1>1, <1>2

\* What a string holds is a text.
LEMMA DecodeIsText ==
  ASSUME NEW raw \in Seq(Symbols)
  PROVE  Decode(raw) \in Seq(Symbols)
  <1> DEFINE n == Len(raw) + 6
             V == Seq(Symbols)
             table(f) == [i \in 1 .. n |-> FromHere(raw, f, i)]
             from == CHOOSE f : f = table(f)
             Solved(m) == \E g \in [1 .. n -> V] : \A i \in m .. n : g[i] = FromHere(raw, g, i)
             M == {m \in 1 .. n + 1 : Solved(m)}
  <1>1. n \in Nat /\ 1 \in 1 .. n /\ n + 1 \in 1 .. n + 1
    OBVIOUS
  <1>2. n + 1 \in M
    <2> DEFINE g == [i \in 1 .. n |-> <<>>]
    <2>1. g \in [1 .. n -> V]
      OBVIOUS
    <2> HIDE DEF g
    <2>2. \A i \in n + 1 .. n : g[i] = FromHere(raw, g, i)
      BY <1>1
    <2> HIDE DEF n, V
    <2> QED BY <1>1, <2>1, <2>2
  <1>3. ASSUME NEW m \in M, m # 1 PROVE m - 1 \in M
    <2>1. m \in 2 .. n + 1 /\ m - 1 \in 1 .. n
      BY <1>1, <1>3
    <2>2. PICK k \in 1 .. n : k = m - 1
      BY <2>1
    <2>3. PICK g \in [1 .. n -> V] : \A i \in m .. n : g[i] = FromHere(raw, g, i)
      BY <1>3
    <2> DEFINE w == [g EXCEPT ![k] = FromHere(raw, g, k)]
    <2>4. FromHere(raw, g, k) \in V
      <3>1. \A j \in 1 .. n : j > k => g[j] \in V
        BY <2>3
      <3> QED BY <2>2, <3>1, FromHereIsText
    <2>5. w \in [1 .. n -> V]
      <3> HIDE DEF V, n
      <3> QED BY <2>3, <2>4
    <2>6. w[k] = FromHere(raw, g, k) /\ \A j \in 1 .. n : j # k => w[j] = g[j]
      <3> HIDE DEF V, n
      <3> QED BY <2>3
    <2> HIDE DEF w
    <2>7. ASSUME NEW i \in m - 1 .. n PROVE w[i] = FromHere(raw, w, i)
      <3>1. i \in 1 .. n /\ i >= k
        BY <2>1, <2>2
      <3>2. \A j \in 1 .. n : j > i => w[j] = g[j]
        BY <2>6, <3>1
      <3>3. FromHere(raw, w, i) = FromHere(raw, g, i)
        BY <3>1, <3>2, FromHereLooksAhead
      <3>4. CASE i = k
        BY <2>6, <3>3, <3>4
      <3>5. CASE i # k
        <4>1. i \in m .. n
          BY <2>1, <2>2, <3>1, <3>5
        <4> QED BY <2>3, <2>6, <3>1, <3>3, <3>5, <4>1
      <3> QED BY <3>4, <3>5
    <2>8. Solved(m - 1)
      <3> HIDE DEF V, n
      <3> QED BY <2>5, <2>7
    <2>9. m - 1 \in 1 .. n + 1
      BY <1>1, <2>1
    <2> HIDE DEF Solved
    <2> QED BY <2>8, <2>9
  <1>4. 1 \in M
    <2>1. M \in SUBSET Nat /\ M # {}
      BY <1>1, <1>2
    <2> HIDE DEF M
    <2>2. PICK m \in M : \A k \in M : m <= k
      BY <2>1, LeastExists
    <2>3. m \in Nat /\ (m # 1 => m - 1 \in M)
      BY <1>3, <2>1, <2>2
    <2> QED BY <2>2, <2>3
  <1>5. PICK g \in [1 .. n -> V] : \A i \in 1 .. n : g[i] = FromHere(raw, g, i)
    BY <1>4
  <1>6. g = table(g)
    <2> HIDE DEF V, n
    <2> QED BY <1>5
  <1>7. from = table(from)
    <2> HIDE DEF table
    <2> QED BY <1>6
  <1> HIDE DEF from
  <1>8. \A i \in 1 .. n : from[i] = FromHere(raw, from, i)
    <2> HIDE DEF n
    <2> QED BY <1>7
  <1> DEFINE Bad == {i \in 1 .. n : from[i] \notin V}
  <1>9. Bad = {}
    <2>1. SUFFICES ASSUME Bad # {} PROVE FALSE
      OBVIOUS
    <2>2. Bad \in SUBSET (1 .. n)
      OBVIOUS
    <2>3. PICK i \in Bad : \A k \in Bad : k <= i
      <3> HIDE DEF Bad, n
      <3> QED BY <1>1, <2>1, <2>2, GreatestExists
    <2>4. i \in 1 .. n /\ \A k \in 1 .. n : k > i => from[k] \in V
      BY <1>1, <2>3
    <2>5. FromHere(raw, from, i) \in V
      BY <2>4, FromHereIsText
    <2> QED BY <1>8, <2>3, <2>4, <2>5
  <1>10. from[1] \in V
    BY <1>1, <1>9
  <1>11. Decode(raw) = from[1]
    BY DEF Decode, FromHere, from
  <1> QED BY <1>10, <1>11

-----------------------------------------------------------------------------
(***************************************************************************)
(* What the reader builds.  The values it has completed are in S, and with *)
(* a value all of its items are.                                           *)
(***************************************************************************)
\* A value, or one that is being read, of items that are in S.
IsNode(v, S) ==
  /\ v = [kind |-> v.kind, at |-> v.at, end |-> v.end, raw |-> v.raw, names |-> v.names, items |-> v.items]
  /\ v.raw \in Seq(Symbols) /\ v.names \in Seq(Seq(Symbols)) /\ v.items \in Seq(S)

\* Of an object the names of more items are known than there are items; nothing else
\* has names.
IsOpen(v, S, more) ==
  IsNode(v, S) /\ (IF v.kind = "object" THEN Len(v.names) = Len(v.items) + more ELSE v.names = <<>>)

AllValues(S) == \A v \in S : IsOpen(v, S, 0)

\* Where a name has no value yet, and where none is missing.
Pending == {"value", "in_string", "colon"}
Settled == {"name", "in_name", "next", "close"}

\* Where a name is read that something has.
Naming == {"name", "in_name"}

\* All that is open but the last waits for a value; the last does in some modes.
Stacked(S, s, m) ==
  /\ Frames(s) /\ \A i \in 1 .. Len(s) : IsNode(s[i], S)
  /\ \A i \in 1 .. Len(s) - 1 : IsOpen(s[i], S, 1)
  /\ m \in Pending /\ s # <<>> => IsOpen(s[Len(s)], S, 1)
  /\ m \in Settled /\ s # <<>> => IsOpen(s[Len(s)], S, 0)
  /\ m \in Naming /\ s # <<>> => s[Len(s)].kind = "object"

\* What is in S is in more than S.
LEMMA MoreValues ==
  ASSUME NEW S, NEW T, S \subseteq T, NEW v, NEW more, IsOpen(v, S, more)
  PROVE  IsOpen(v, T, more)
  <1>1. PICK i : i = v.items
    OBVIOUS
  <1>2. i \in Seq(S)
    BY <1>1 DEF IsOpen, IsNode
  <1>3. i \in Seq(T)
    BY <1>2
  <1> QED BY <1>1, <1>3 DEF IsOpen, IsNode

\* A value is completed.
LEMMA ValueIsClosed ==
  ASSUME NEW S, AllValues(S), NEW v, IsOpen(v, S, 0)
  PROVE  AllValues(S \union {v}) /\ S \subseteq S \union {v}
  <1>1. ASSUME NEW w \in S \union {v} PROVE IsOpen(w, S \union {v}, 0)
    <2>1. IsOpen(w, S, 0)
      BY <1>1 DEF AllValues
    <2>2. PICK T : T = S \union {v} /\ S \subseteq T
      OBVIOUS
    <2> QED BY <2>1, <2>2, MoreValues
  <1> QED BY <1>1 DEF AllValues

\* It becomes an item of what is open, of which all wait for a value.
LEMMA CompleteBuilds ==
  ASSUME NEW S, AllValues(S), NEW v, IsOpen(v, S, 0), NEW frames, Frames(frames),
         \A i \in 1 .. Len(frames) : IsOpen(frames[i], S, 1), Complete(v, frames)
  PROVE  \E T : AllValues(T) /\ S \subseteq T /\ Stacked(T, stack', mode') /\ (mode' = "complete" => value' \in T)
  <1>1. PICK T : T = S \union {v}
    OBVIOUS
  <1>2. AllValues(T) /\ S \subseteq T /\ v \in T
    BY <1>1, ValueIsClosed
  <1>3. CASE frames = <<>>
    <2>1. stack' = <<>> /\ value' = v
      BY <1>3 DEF Complete
    <2>2. Stacked(T, stack', mode')
      BY <2>1 DEF Stacked, Frames, IsSequence
    <2> QED BY <1>2, <2>1, <2>2
  <1>4. CASE frames # <<>>
    <2> DEFINE top == frames[Len(frames)]
               new == [top EXCEPT !.items = Append(@, v)]
    <2>1. mode' = "next"
      BY <1>4 DEF Complete
    <2>2. stack' = [frames EXCEPT ![Len(frames)] = new]
      BY <1>4 DEF Complete
    <2>3. /\ Len(frames) \in Nat /\ DOMAIN frames = 1 .. Len(frames) /\ Len(frames) \in 1 .. Len(frames)
      BY <1>4, SequenceHasLast DEF Frames
    <2>4. DOMAIN new = DOMAIN top
      OBVIOUS
    <2>5. IsOpen(top, T, 1)
      BY <1>2, <2>3, MoreValues
    <2>6. IsOpen(new, T, 0)
      <3>1. top = [kind |-> top.kind, at |-> top.at, end |-> top.end, raw |-> top.raw,
                   names |-> top.names, items |-> top.items]
        BY <2>5 DEF IsOpen, IsNode
      <3>2. PICK i, n : i = top.items /\ n = top.names
        OBVIOUS
      <3>3. i \in Seq(T) /\ n \in Seq(Seq(Symbols)) /\ top.raw \in Seq(Symbols)
            /\ (IF top.kind = "object" THEN Len(n) = Len(i) + 1 ELSE n = <<>>)
        BY <2>5, <3>2 DEF IsOpen, IsNode
      <3>4. new = [kind |-> top.kind, at |-> top.at, end |-> top.end, raw |-> top.raw,
                   names |-> n, items |-> Append(i, v)]
        <4> DEFINE r == [kind |-> top.kind, at |-> top.at, end |-> top.end, raw |-> top.raw,
                         names |-> n, items |-> i]
        <4>1. new = [r EXCEPT !.items = Append(i, v)]
          BY <3>1, <3>2
        <4> QED BY <4>1
      <3>5. Append(i, v) \in Seq(T) /\ Len(Append(i, v)) = Len(i) + 1 /\ Len(i) \in Nat
        BY <1>2, <3>3
      <3> HIDE DEF top, new
      <3> QED BY <3>3, <3>4, <3>5 DEF IsOpen, IsNode
    <2> HIDE DEF new
    <2>7. Frames(stack') /\ Len(stack') = Len(frames)
      BY <1>4, <2>2, <2>4, FrameChanged
    <2>8. stack'[Len(frames)] = new /\ \A i \in 1 .. Len(frames) - 1 : stack'[i] = frames[i]
      BY <2>2, <2>3
    <2>9. \A i \in 1 .. Len(frames) - 1 : IsOpen(stack'[i], T, 1)
      <3> SUFFICES ASSUME NEW i \in 1 .. Len(frames) - 1 PROVE IsOpen(stack'[i], T, 1)
        OBVIOUS
      <3>1. IsOpen(frames[i], S, 1)
        BY <2>3
      <3> QED BY <1>2, <2>8, <3>1, MoreValues
    <2>10. \A i \in 1 .. Len(frames) : IsNode(stack'[i], T)
      <3> SUFFICES ASSUME NEW i \in 1 .. Len(frames) PROVE IsNode(stack'[i], T)
        OBVIOUS
      <3>1. i = Len(frames) \/ i \in 1 .. Len(frames) - 1
        <4>1. PICK n \in Nat : n = Len(frames)
          BY <2>3
        <4>2. i \in 1 .. n
          BY <4>1
        <4> HIDE DEF top
        <4> QED BY <4>1, <4>2
      <3> QED BY <2>6, <2>8, <2>9, <3>1 DEF IsOpen
    <2>11. mode' \notin Pending /\ mode' \notin Naming
      BY <2>1 DEF Pending, Naming
    <2>12. Stacked(T, stack', mode')
      BY <2>6, <2>7, <2>8, <2>9, <2>10, <2>11 DEF Stacked
    <2>13. mode' # "complete"
      BY <2>1
    <2> QED BY <1>2, <2>12, <2>13
  <1> QED BY <1>3, <1>4

-----------------------------------------------------------------------------
\* What has been read so far is made of values.
Grows(S, s, m, v) == AllValues(S) /\ Stacked(S, s, m) /\ (m = "complete" => v \in S)

Grown == start \in Nat /\ \E S : Grows(S, stack, mode, value)

\* Of what is open, all waits for a value while one is expected.
LEMMA AllWait ==
  ASSUME NEW S, NEW s, NEW m, Stacked(S, s, m), m \in Pending
  PROVE  \A i \in 1 .. Len(s) : IsOpen(s[i], S, 1)
  <1>1. PICK n \in Nat : n = Len(s)
    BY SequenceHasLast DEF Stacked, Frames
  <1>2. \A i \in 1 .. n - 1 : IsOpen(s[i], S, 1)
    BY <1>1 DEF Stacked
  <1>3. n > 0 => IsOpen(s[n], S, 1)
    <2>1. n > 0 => s # <<>>
      BY <1>1
    <2> QED BY <1>1, <2>1 DEF Stacked
  <1>4. \A i \in 1 .. n : i \in 1 .. n - 1 \/ (i = n /\ n > 0)
    BY <1>1
  <1> QED BY <1>1, <1>2, <1>3, <1>4

\* The step of a reader that opens and closes nothing.
LEMMA ModeGrows ==
  ASSUME NEW S, Grows(S, stack, mode, value), stack' = stack,
         mode' = "complete" => mode' = mode /\ value' = value,
         mode' \in Pending => mode \in Pending, mode' \in Settled => mode \in Settled,
         mode' \in Naming => mode \in Naming
  PROVE  \E T : Grows(T, stack', mode', value')
  <1>1. Grows(S, stack', mode', value')
    BY DEF Grows, Stacked
  <1> QED BY <1>1

\* A word, a number or a string is read.
LEMMA AtomGrows ==
  ASSUME NEW S, Grows(S, stack, mode, value), mode \in Pending,
         NEW kind, kind # "object", NEW at, NEW end, NEW raw \in Seq(Symbols),
         Complete(Atom(kind, at, end, raw), stack)
  PROVE  \E T : Grows(T, stack', mode', value')
  <1> DEFINE v == Atom(kind, at, end, raw)
  <1>1. IsOpen(v, S, 0)
    BY DEF IsOpen, IsNode, Atom
  <1>2. Complete(v, stack)
    OBVIOUS
  <1> HIDE DEF v
  <1>3. Frames(stack) /\ AllValues(S) /\ \A i \in 1 .. Len(stack) : IsOpen(stack[i], S, 1)
    BY AllWait DEF Grows, Stacked
  <1>4. \E T : AllValues(T) /\ S \subseteq T /\ Stacked(T, stack', mode') /\ (mode' = "complete" => value' \in T)
    BY <1>1, <1>2, <1>3, CompleteBuilds
  <1> QED BY <1>4 DEF Grows

\* An array or object is entered: nothing is in it.
LEMMA OpenGrows ==
  ASSUME NEW S, Grows(S, stack, mode, value), Open
  PROVE  \E T : Grows(T, stack', mode', value')
  <1> DEFINE f == Atom(IF Peek = LBRACE THEN "object" ELSE "array", pos, pos, <<>>)
  <1>1. IsOpen(f, S, 0)
    BY DEF IsOpen, IsNode, Atom
  <1>2. f.kind # "object" => IsOpen(f, S, 1)
    BY <1>1 DEF IsOpen
  <1>3. "end" \in DOMAIN f /\ (f.kind = "object" <=> Peek = LBRACE)
    BY DEF Atom
  <1>4. stack' = Append(stack, f)
    BY DEF Open
  <1> HIDE DEF f
  <1>5. /\ IsSequence(stack') /\ Len(stack') = Len(stack) + 1 /\ Len(stack) \in Nat
        /\ stack'[Len(stack) + 1] = f /\ \A i \in 1 .. Len(stack) : stack'[i] = stack[i]
    BY <1>4, Appended DEF Grows, Stacked, Frames
  <1>6. mode = "value" /\ mode' \in {"close", IF Peek = LBRACE THEN "name" ELSE "value"}
    BY SymbolsDiffer DEF Open
  <1>7. \A i \in 1 .. Len(stack) : IsOpen(stack[i], S, 1)
    BY <1>6, AllWait DEF Grows, Pending
  <1>8. PICK n \in Nat : n = Len(stack)
    BY <1>5
  <1>9. \A i \in 1 .. n + 1 : IsNode(stack'[i], S) /\ "end" \in DOMAIN stack'[i]
    <2>1. \A i \in 1 .. n : IsNode(stack[i], S) /\ "end" \in DOMAIN stack[i]
      BY <1>7, <1>8 DEF IsOpen, Grows, Stacked, Frames
    <2>2. IsNode(f, S)
      BY <1>1 DEF IsOpen
    <2>3. \A i \in 1 .. n + 1 : i \in 1 .. n \/ i = n + 1
      OBVIOUS
    <2> QED BY <1>3, <1>5, <1>8, <2>1, <2>2, <2>3
  <1>10. Frames(stack')
    BY <1>5, <1>8, <1>9 DEF Frames
  <1>11. \A i \in 1 .. Len(stack') - 1 : IsOpen(stack'[i], S, 1)
    BY <1>5, <1>7, <1>8
  <1>12. /\ mode' \in Pending => IsOpen(stack'[Len(stack')], S, 1)
         /\ mode' \in Naming => stack'[Len(stack')].kind = "object"
    <2>1. (mode' \in Pending => f.kind # "object") /\ (mode' \in Naming => f.kind = "object")
      BY <1>3, <1>6 DEF Pending, Naming
    <2> QED BY <1>2, <1>5, <2>1
  <1>13. Stacked(S, stack', mode')
    BY <1>1, <1>5, <1>8, <1>9, <1>10, <1>11, <1>12 DEF Stacked
  <1>14. Grows(S, stack', mode', value')
    BY <1>6, <1>13 DEF Grows
  <1> QED BY <1>14

\* An object has a name more.
LEMMA CloseNameGrows ==
  ASSUME NEW S, Grows(S, stack, mode, value), CloseName, stack # <<>>, Raw \in Seq(Symbols)
  PROVE  \E T : Grows(T, stack', mode', value')
  <1> DEFINE top == stack[Len(stack)]
             new == [top EXCEPT !.names = Append(@, Raw)]
  <1>1. mode' = "colon" /\ mode = "in_name"
    BY DEF CloseName
  <1>2. stack' = [stack EXCEPT ![Len(stack)] = new]
    BY DEF CloseName
  <1>3. /\ Len(stack) \in Nat /\ DOMAIN stack = 1 .. Len(stack) /\ Len(stack) \in 1 .. Len(stack)
    BY SequenceHasLast DEF Grows, Stacked, Frames
  <1>4. DOMAIN new = DOMAIN top
    OBVIOUS
  <1>5. IsOpen(top, S, 0) /\ top.kind = "object"
    BY <1>1 DEF Grows, Stacked, Settled, Naming
  <1>6. IsOpen(new, S, 1)
    <2>1. top = [kind |-> top.kind, at |-> top.at, end |-> top.end, raw |-> top.raw,
                 names |-> top.names, items |-> top.items]
      BY <1>5 DEF IsOpen, IsNode
    <2>2. PICK i, n : i = top.items /\ n = top.names
      OBVIOUS
    <2>3. i \in Seq(S) /\ n \in Seq(Seq(Symbols)) /\ top.raw \in Seq(Symbols)
          /\ Len(n) = Len(i) /\ top.kind = "object"
      BY <1>5, <2>2 DEF IsOpen, IsNode
    <2>4. new = [kind |-> top.kind, at |-> top.at, end |-> top.end, raw |-> top.raw,
                 names |-> Append(n, Raw), items |-> i]
      <3> DEFINE r == [kind |-> top.kind, at |-> top.at, end |-> top.end, raw |-> top.raw,
                       names |-> n, items |-> i]
      <3>1. new = [r EXCEPT !.names = Append(n, Raw)]
        BY <2>1, <2>2
      <3>2. PICK w : w = Append(n, Raw)
        OBVIOUS
      <3> HIDE DEF new
      <3> QED BY <3>1, <3>2
    <2>5. PICK V, w : V = Seq(Symbols) /\ w = Raw
      OBVIOUS
    <2>6. Append(n, w) \in Seq(V) /\ Len(Append(n, w)) = Len(n) + 1 /\ Len(n) \in Nat
      BY <2>3, <2>5
    <2> HIDE DEF top, new
    <2> QED BY <2>3, <2>4, <2>5, <2>6 DEF IsOpen, IsNode
  <1> HIDE DEF new
  <1>7. Frames(stack') /\ Len(stack') = Len(stack) /\ stack' # <<>>
    BY <1>2, <1>4, FrameChanged DEF Grows, Stacked
  <1>8. stack'[Len(stack)] = new /\ \A i \in 1 .. Len(stack) - 1 : stack'[i] = stack[i]
    BY <1>2, <1>3
  <1>9. \A i \in 1 .. Len(stack) - 1 : IsOpen(stack'[i], S, 1)
    BY <1>8 DEF Grows, Stacked
  <1>10. \A i \in 1 .. Len(stack) : IsNode(stack'[i], S)
    <2> SUFFICES ASSUME NEW i \in 1 .. Len(stack) PROVE IsNode(stack'[i], S)
      OBVIOUS
    <2>1. i = Len(stack) \/ i \in 1 .. Len(stack) - 1
      <3>1. PICK n \in Nat : n = Len(stack)
        BY <1>3
      <3>2. i \in 1 .. n
        BY <3>1
      <3> HIDE DEF top
      <3> QED BY <3>1, <3>2
    <2> QED BY <1>6, <1>8, <1>9, <2>1 DEF IsOpen
  <1>11. mode' \notin Settled /\ mode' \notin Naming
    BY <1>1 DEF Settled, Naming
  <1>12. Stacked(S, stack', mode')
    BY <1>6, <1>7, <1>8, <1>9, <1>10, <1>11 DEF Stacked
  <1>13. Grows(S, stack', mode', value')
    BY <1>1, <1>12 DEF Grows
  <1> QED BY <1>13

\* What is closed is a value.
LEMMA CloseGrows ==
  ASSUME NEW S, Grows(S, stack, mode, value), Close, stack # <<>>
  PROVE  \E T : Grows(T, stack', mode', value')
  <1> DEFINE inner == SubSeq(stack, 1, Len(stack) - 1)
             top == stack[Len(stack)]
             v == [top EXCEPT !.end = Next_ + 1]
  <1>1. Complete(v, inner) /\ mode \in Settled
    BY DEF Close, Top, Settled
  <1>2. /\ Len(stack) \in Nat /\ DOMAIN stack = 1 .. Len(stack) /\ Len(stack) \in 1 .. Len(stack)
    BY SequenceHasLast DEF Grows, Stacked, Frames
  <1>3. IsOpen(top, S, 0)
    BY <1>1 DEF Grows, Stacked
  <1>4. IsOpen(v, S, 0)
    <2>1. top = [kind |-> top.kind, at |-> top.at, end |-> top.end, raw |-> top.raw,
                 names |-> top.names, items |-> top.items]
      BY <1>3 DEF IsOpen, IsNode
    <2>2. PICK c : c = Next_ + 1
      OBVIOUS
    <2>3. v = [kind |-> top.kind, at |-> top.at, end |-> c, raw |-> top.raw,
               names |-> top.names, items |-> top.items]
      <3> DEFINE r == [kind |-> top.kind, at |-> top.at, end |-> top.end, raw |-> top.raw,
                       names |-> top.names, items |-> top.items]
      <3>1. v = [r EXCEPT !.end = c]
        BY <2>1, <2>2
      <3> QED BY <3>1
    <2> HIDE DEF top, v
    <2> QED BY <1>3, <2>3 DEF IsOpen, IsNode
  <1>5. Frames(inner) /\ \A i \in 1 .. Len(inner) : IsOpen(inner[i], S, 1)
    <2>1. inner = [i \in 1 .. Len(stack) - 1 |-> stack[i]] /\ Len(stack) - 1 \in Nat
      BY <1>2
    <2>2. inner = [i \in 1 .. Len(stack) - 1 |-> inner[i]] /\ \A i \in 1 .. Len(stack) - 1 : inner[i] = stack[i]
      BY <2>1
    <2> HIDE DEF inner, v, top
    <2>3. IsSequence(inner) /\ Len(inner) = Len(stack) - 1
      BY <2>1, <2>2, IsSequenceOf
    <2>4. \A i \in 1 .. Len(inner) : "end" \in DOMAIN inner[i]
      BY <1>2, <2>2, <2>3 DEF Grows, Stacked, Frames
    <2>5. \A i \in 1 .. Len(inner) : IsOpen(inner[i], S, 1)
      BY <2>2, <2>3 DEF Grows, Stacked
    <2> QED BY <2>3, <2>4, <2>5 DEF Frames
  <1>6. AllValues(S)
    BY DEF Grows
  <1> HIDE DEF inner, v
  <1>7. \E T : AllValues(T) /\ S \subseteq T /\ Stacked(T, stack', mode') /\ (mode' = "complete" => value' \in T)
    BY <1>1, <1>4, <1>5, <1>6, CompleteBuilds
  <1> QED BY <1>7 DEF Grows

\* Part of the text is a text.
LEMMA RawIsText ==
  ASSUME NEW t \in Seq(Symbols), NEW i \in Nat, i >= 1, NEW k \in Int, k <= Len(t)
  PROVE  SubSeq(t, i, k) \in Seq(Symbols)
  <1>1. \A j \in i .. k : t[j] \in Symbols
    OBVIOUS
  <1> QED BY <1>1

\* Whatever the reader does next.
LEMMA ReadJsonGrows ==
  ASSUME Grown, Scanning(1), Nested, ReadJson
  PROVE  Grown'
  <1>1. PICK S : Grows(S, stack, mode, value)
    BY DEF Grown
  <1>2. text \in Seq(Symbols) /\ pos \in 1 .. Len(text) + 1 /\ start \in Nat
    BY DEF Scanning, Reached, Grown
  <1> SUFFICES start' \in Nat /\ \E T : Grows(T, stack', mode', value')
    BY DEF Grown
  <1>3. CASE TooDeep \/ Expected \/ TooManyMembers
    <2>1. start' = start /\ stack' = stack /\ mode' = "stopped"
      BY <1>3 DEF TooDeep, Expected, TooManyMembers, Stop
    <2>2. mode' \notin Pending /\ mode' \notin Settled /\ mode' \notin Naming /\ mode' # "complete"
      BY <2>1 DEF Pending, Settled, Naming
    <2> QED BY <1>1, <1>2, <2>1, <2>2, ModeGrows
  <1>4. CASE Open
    BY <1>1, <1>2, <1>4, OpenGrows DEF Open
  <1>5. CASE OpenString
    <2>1. /\ start' = pos /\ stack' = stack
          /\ (mode = "value" /\ mode' = "in_string") \/ (mode = "name" /\ mode' = "in_name")
      BY <1>5 DEF OpenString
    <2>2. start' \in Nat
      BY <1>2, <2>1
    <2>3. /\ mode' # "complete" /\ (mode' \in Pending => mode \in Pending)
          /\ (mode' \in Settled => mode \in Settled) /\ (mode' \in Naming => mode \in Naming)
      BY <2>1 DEF Pending, Settled, Naming
    <2> QED BY <1>1, <2>1, <2>2, <2>3, ModeGrows
  <1>6. CASE ReadLiteral
    <2>1. start' = start /\ mode \in Pending /\ Peek \in Literal
          /\ Complete(Atom(IF Peek = "null" THEN "null" ELSE "boolean", pos, pos + 1, <<Peek>>), stack)
      BY <1>6 DEF ReadLiteral, Pending
    <2>2. PICK kind, raw, at, end :
            kind = (IF Peek = "null" THEN "null" ELSE "boolean") /\ raw = <<Peek>> /\ at = pos /\ end = pos + 1
      OBVIOUS
    <2>3. Peek \in Symbols
      BY <2>1, SymbolsAssumption
    <2>4. raw \in Seq(Symbols) /\ kind # "object"
      BY <2>2, <2>3
    <2> QED BY <1>1, <1>2, <2>1, <2>2, <2>4, AtomGrows
  <1>7. CASE ReadNumber
    <2>1. start' = start /\ mode \in Pending /\ NumberEnd # NONE
          /\ Complete(Atom("number", pos, NumberEnd, SubSeq(text, pos, NumberEnd - 1)), stack)
      BY <1>7 DEF ReadNumber, Pending
    <2>2. NumberEnd \in pos .. Len(text) + 1
      BY <1>2, <2>1, NumberIsPassed DEF Numerals
    <2>3. PICK raw, at, end : raw = SubSeq(text, pos, NumberEnd - 1) /\ at = pos /\ end = NumberEnd
      OBVIOUS
    <2>4. raw \in Seq(Symbols)
      <3>1. at \in Nat /\ at >= 1 /\ end - 1 \in Int /\ end - 1 <= Len(text)
        BY <1>2, <2>2, <2>3
      <3> QED BY <1>2, <2>3, <3>1, RawIsText
    <2> QED BY <1>1, <1>2, <2>1, <2>3, <2>4, AtomGrows
  <1>8. Raw \in Seq(Symbols)
    <2>1. start + 1 \in Nat /\ start + 1 >= 1 /\ pos - 1 \in Int /\ pos - 1 <= Len(text)
      BY <1>2
    <2> QED BY <1>2, <2>1, RawIsText DEF Raw
  <1>9. CASE ReadPlain \/ ReadEscape
    <2>1. start' = start /\ stack' = stack /\ mode' = mode /\ value' = value
      BY <1>9 DEF ReadPlain, ReadEscape
    <2> QED BY <1>1, <1>2, <2>1, ModeGrows
  <1>10. CASE CloseString
    <2>1. start' = start /\ mode \in Pending /\ Complete(Atom("string", start, pos + 1, Raw), stack)
      BY <1>10 DEF CloseString, Pending
    <2>2. PICK end, raw : end = pos + 1 /\ raw = Raw
      OBVIOUS
    <2> QED BY <1>1, <1>2, <1>8, <2>1, <2>2, AtomGrows
  <1>11. CASE CloseName
    <2>1. stack # <<>> /\ start' = start
      BY <1>11 DEF CloseName, Nested
    <2> QED BY <1>1, <1>2, <1>8, <1>11, <2>1, CloseNameGrows
  <1>12. CASE Colon
    <2>1. start' = start /\ stack' = stack /\ mode = "colon" /\ mode' = "value"
      BY <1>12 DEF Colon
    <2>2. mode' # "complete" /\ mode \in Pending /\ mode' \notin Settled /\ mode' \notin Naming
      BY <2>1 DEF Pending, Settled, Naming
    <2> QED BY <1>1, <1>2, <2>1, <2>2, ModeGrows
  <1>13. CASE Comma
    <2>1. start' = start /\ stack' = stack /\ mode = "next"
          /\ mode' = (IF Top.kind = "object" THEN "name" ELSE "value") /\ stack # <<>>
      BY <1>13 DEF Comma, Nested
    <2>2. CASE Top.kind = "object"
      <3>1. mode' # "complete" /\ mode \in Settled /\ mode' \notin Pending
        BY <2>1, <2>2 DEF Pending, Settled
      <3>2. Grows(S, stack', mode', value')
        BY <1>1, <2>1, <2>2, <3>1 DEF Grows, Stacked, Top
      <3> QED BY <1>2, <2>1, <3>2
    <2>3. CASE Top.kind # "object"
      <3>1. mode' # "complete" /\ mode \in Settled /\ mode' \notin Settled /\ mode' \notin Naming
        BY <2>1, <2>3 DEF Settled, Naming
      <3>2. IsOpen(stack[Len(stack)], S, 1)
        <4>1. IsOpen(stack[Len(stack)], S, 0)
          BY <1>1, <2>1, <3>1 DEF Grows, Stacked
        <4> QED BY <2>3, <4>1 DEF IsOpen, Top
      <3>3. Grows(S, stack', mode', value')
        BY <1>1, <2>1, <3>1, <3>2 DEF Grows, Stacked
      <3> QED BY <1>2, <2>1, <3>3
    <2> QED BY <2>2, <2>3
  <1>14. CASE Close
    <2>1. stack # <<>> /\ start' = start
      BY <1>14 DEF Close, Nested
    <2> QED BY <1>1, <1>2, <1>14, <2>1, CloseGrows
  <1> QED BY <1>3, <1>4, <1>5, <1>6, <1>7, <1>9, <1>10, <1>11, <1>12, <1>13, <1>14 DEF ReadJson

-----------------------------------------------------------------------------
\* An object that was read.
IsTree(v) == v.kind = "object" /\ \E S : AllValues(S) /\ v \in S

\* What is read of the sections is made of values, the payload is an object, and what
\* its fields report is judged.
Judging ==
  /\ start \in Nat
  /\ section \in {"payload", "signature"} => Grown
  /\ section \in {"signature", "typed"} \/ IsRead => IsTree(payload.tree)
  /\ section = "done" /\ verdict = "Read" =>
       Rejected(profile, dev) = {} /\ PayloadDeviations(payload.tree) \subseteq dev

\* Nothing has been read.
LEMMA JudgingAtFirst ==
  ASSUME NEW t, NEW p, Reading(t, p)
  PROVE  Judging'
  BY DEF Reading, Judging, IsRead

\* Nothing is read.
LEMMA JudgingStays ==
  ASSUME Judging, UNCHANGED <<json, reading>>
  PROVE  Judging'
  <1>1. start' = start /\ stack' = stack /\ mode' = mode /\ value' = value /\ dev' = dev
    BY DEF json
  <1>2. section' = section /\ payload' = payload /\ verdict' = verdict /\ profile' = profile
    BY DEF reading
  <1>3. Grown => Grown'
    BY <1>1 DEF Grown
  <1>4. IsRead' => IsRead
    BY <1>2 DEF IsRead
  <1> QED BY <1>1, <1>2, <1>3, <1>4 DEF Judging

\* Reading ends with an error.
LEMMA JudgingRefused ==
  ASSUME Judging, NEW why \in Unreadability, Refuse(why)
  PROVE  Judging'
  <1>1. section' = "done" /\ verdict' = why /\ start' = start
    BY DEF Refuse, Conclude, json
  <1>2. ~IsRead' /\ verdict' # "Read"
    BY <1>1, ErrorsDiffer DEF IsRead
  <1> QED BY <1>1, <1>2 DEF Judging

\* A section begins: nothing is open.
LEMMA BeginValueGrows ==
  ASSUME NEW at, BeginValue(at), start' \in Nat
  PROVE  Grown'
  <1>1. stack' = <<>> /\ mode' = "value"
    BY DEF BeginValue
  <1>2. AllValues({})
    BY DEF AllValues
  <1>3. Stacked({}, stack', mode')
    BY <1>1 DEF Stacked, Frames, IsSequence
  <1>4. Grows({}, stack', mode', value')
    BY <1>1, <1>2, <1>3 DEF Grows
  <1> QED BY <1>4 DEF Grown

\* A text is read by steps that keep it.
LEMMA ReadKeepsJudging ==
  ASSUME Sections, Judging, Read
  PROVE  Judging'
  <1>1. CASE ReadHeader
    <2>1. CASE HeaderError # NONE
      <3>1. HeaderError \in Unreadability /\ Refuse(HeaderError)
        BY <1>1, <2>1, HeaderIsRight DEF ReadHeader
      <3> QED BY <3>1, JudgingRefused
    <2>2. CASE HeaderError = NONE
      <3>1. BeginValue(Lead + 2) /\ start' = start /\ section' = "payload"
        BY <1>1, <2>2 DEF ReadHeader
      <3>2. start' \in Nat
        BY <3>1 DEF Judging
      <3>3. Grown'
        BY <3>1, <3>2, BeginValueGrows
      <3> QED BY <3>1, <3>2, <3>3 DEF Judging, IsRead
    <2> QED BY <2>1, <2>2
  <1>2. CASE ReadValue
    <2>1. ReadJson /\ section \in {"payload", "signature"} /\ section' = section /\ payload' = payload
      BY <1>2 DEF ReadValue, reading
    <2>2. Scanning(1) /\ Nested
      BY <2>1 DEF Sections, Started
    <2>3. Grown
      BY <2>1 DEF Judging
    <2>4. Grown'
      BY <2>1, <2>2, <2>3, ReadJsonGrows
    <2>5. start' \in Nat
      BY <2>4 DEF Grown
    <2> QED BY <2>1, <2>4, <2>5 DEF Judging, IsRead
  <1>3. CASE Unreadable
    <2>1. error \in Unreadability /\ Refuse(error)
      BY <1>3 DEF Unreadable, Sections, Started
    <2> QED BY <2>1, JudgingRefused
  <1>4. CASE EndPayload
    <2>1. CASE PayloadError # NONE
      <3>1. PayloadError \in Unreadability /\ Refuse(PayloadError)
        BY <1>4, <2>1, PayloadIsRight DEF EndPayload
      <3> QED BY <3>1, JudgingRefused
    <2>2. CASE PayloadError = NONE
      <3>1. /\ section = "payload" /\ mode = "complete"
            /\ BeginValue(Bar + 1) /\ start' = start /\ section' = "signature"
            /\ payload' = [payload EXCEPT !.to = Bar - 1, !.tree = value]
        BY <1>4, <2>2 DEF EndPayload
      <3>2. start' \in Nat
        BY <3>1 DEF Judging
      <3>3. Grown'
        BY <3>1, <3>2, BeginValueGrows
      <3>4. IsTree(value)
        BY <2>2, <3>1, PayloadIsRight DEF Judging, Grown, Grows, IsTree
      <3>5. payload'.tree = value
        BY <3>1 DEF Sections, IsSection
      <3> QED BY <3>1, <3>2, <3>3, <3>4, <3>5 DEF Judging, IsRead
    <2> QED BY <2>1, <2>2
  <1>5. CASE EndSignature
    <2>1. CASE SignatureError # NONE
      <3>1. SignatureError \in Unreadability /\ Refuse(SignatureError)
        BY <1>5, <2>1, SignatureIsRight DEF EndSignature
      <3> QED BY <3>1, JudgingRefused
    <2>2. CASE SignatureError = NONE
      <3>1. section = "signature" /\ start' = start /\ section' = "typed" /\ payload' = payload
        BY <1>5, <2>2 DEF EndSignature
      <3> QED BY <3>1 DEF Judging, IsRead
    <2> QED BY <2>1, <2>2
  <1>6. CASE Judge
    <2> DEFINE all == dev \union PayloadDeviations(payload.tree) \union SignatureDeviations(signature.tree)
    <2>1. /\ section = "typed" /\ section' = "done" /\ payload' = payload /\ profile' = profile
          /\ dev' = all /\ start' = start
          /\ verdict' = (IF Rejected(profile, all) = {} THEN "Read" ELSE "Deviates")
      BY <1>6 DEF Judge, Conclude
    <2>2. PayloadDeviations(payload.tree) \subseteq all
      OBVIOUS
    <2> HIDE DEF all
    <2>3. verdict' = "Read" => Rejected(profile, all) = {}
      BY <2>1
    <2> QED BY <2>1, <2>2, <2>3 DEF Judging
  <1> QED BY <1>1, <1>2, <1>3, <1>4, <1>5, <1>6 DEF Read, Scan

\* Signing keeps it too.
LEMMA BuildKeepsJudging ==
  ASSUME Sections, Judging, Build
  PROVE  Judging'
  <1>1. CASE Render
    BY <1>1, JudgingStays DEF Render
  <1>2. CASE Emit
    BY <1>2, JudgingStays, JudgingAtFirst DEF Emit
  <1>3. CASE ReadBack
    BY <1>3, ReadKeepsJudging DEF ReadBack
  <1>4. CASE SelfCheck
    BY <1>4, JudgingStays DEF SelfCheck
  <1> QED BY <1>1, <1>2, <1>3, <1>4 DEF Build

\* Whatever a program asks of the library.
LEMMA JudgingAlways == Spec => []Judging
  <1>1. Init => Judging
    <2> SUFFICES ASSUME Init PROVE Judging
      OBVIOUS
    <2>1. NothingRead
      BY DEF Init
    <2> QED BY <2>1 DEF NothingRead, Judging, IsRead
  <1>2. Judging /\ Sections /\ [Next]_vars => Judging'
    <2> SUFFICES ASSUME Sections, Judging, [Next]_vars PROVE Judging'
      OBVIOUS
    <2>1. CASE UNCHANGED using_library
      BY <2>1, JudgingStays DEF using_library
    <2>2. CASE CallRead
      <3>1. PICK task \in ReadTasks : Reading(task[1], task[2])
        BY <2>2 DEF CallRead
      <3> QED BY <3>1, JudgingAtFirst
    <2>3. CASE CallSign
      BY <2>3, JudgingStays DEF CallSign
    <2>4. CASE ReadOnly
      BY <2>4, ReadKeepsJudging DEF ReadOnly
    <2>5. CASE Building
      BY <2>5, BuildKeepsJudging DEF Building
    <2>6. CASE CallTool \/ Tool \/ CallForm \/ Forming
      BY <2>1, <2>6 DEF CallTool, Tool, CallForm, Forming
    <2>7. CASE UNCHANGED vars
      BY <2>1, <2>7 DEF vars
    <2> QED BY <2>2, <2>3, <2>4, <2>5, <2>6, <2>7 DEF Next
  <1>3. (Sections /\ Writing) => Sections
    OBVIOUS
  <1> QED BY <1>1, <1>2, <1>3, SectionsAlways, PTL DEF Spec

-----------------------------------------------------------------------------
\* What an object has under a name is a value.
LEMMA GetIsValue ==
  ASSUME NEW S, AllValues(S), NEW o \in S, NEW name, Has(o, name)
  PROVE  Get(o, name) \in S
  <1> DEFINE M == Named(o, name)
  <1>1. PICK n, i : n = o.names /\ i = o.items
    OBVIOUS
  <1>2. n \in Seq(Seq(Symbols)) /\ i \in Seq(S) /\ Len(n) <= Len(i)
    <2>1. IsOpen(o, S, 0)
      BY DEF AllValues
    <2> QED BY <1>1, <2>1 DEF IsOpen, IsNode
  <1>3. M \in SUBSET (1 .. Len(n)) /\ Len(n) \in Nat /\ Len(i) \in Nat
    <2>1. PICK V : V = Seq(Symbols)
      OBVIOUS
    <2>2. DOMAIN n = 1 .. Len(n) /\ Len(n) \in Nat
      BY <1>2, <2>1
    <2> QED BY <1>1, <1>2, <2>2 DEF Named
  <1>4. Get(o, name) = (IF M = {} THEN NONE ELSE i[CHOOSE m \in M : \A k \in M : k <= m])
    BY <1>1 DEF Get, Latest
  <1> HIDE DEF M
  <1>5. M # {}
    BY <1>4 DEF Has
  <1>6. \E m \in M : \A k \in M : k <= m
    BY <1>3, <1>5, GreatestExists
  <1>7. (CHOOSE m \in M : \A k \in M : k <= m) \in 1 .. Len(n)
    BY <1>3, <1>6
  <1>8. PICK last : last = CHOOSE m \in M : \A k \in M : k <= m
    OBVIOUS
  <1>9. last \in 1 .. Len(i)
    BY <1>2, <1>3, <1>7, <1>8
  <1> QED BY <1>2, <1>4, <1>5, <1>8, <1>9

\* A value that has a text has one.
LEMMA TextIsThere ==
  ASSUME NEW S, AllValues(S), NEW v \in S, HasText(v)
  PROVE  TextOf(v) # NONE
  <1>1. v.raw \in Seq(Symbols)
    BY DEF AllValues, IsOpen, IsNode
  <1>2. Decode(v.raw) \in Seq(Symbols)
    BY <1>1, DecodeIsText
  <1> QED BY <1>1, <1>2, SymbolsAssumption DEF TextOf

\* Unless a text field is reported, what is in it is a text.
LEMMA ScalarsAreKept ==
  ASSUME NEW S, AllValues(S), NEW o \in S, NEW key, Has(o, key),
         "FieldTypeMismatch" \notin Scalar(Get(o, key))
  PROVE  TextOf(Get(o, key)) # NONE
  <1>1. PICK v : v = Get(o, key)
    OBVIOUS
  <1>2. v \in S /\ v # NONE
    BY <1>1, GetIsValue DEF Has
  <1>3. HasText(v)
    BY <1>1, <1>2 DEF Scalar, Report
  <1> QED BY <1>1, <1>2, <1>3, TextIsThere

\* Kinds of deviation that depart from the specification in the payload.
Departures ==
  {"FieldTypeMismatch", "ReadingsMissing", "LossCompensationIncomplete", "PaginationMissing",
   "PaginationMalformed", "UndefinedTableValue", "MeterSerialMissing", "FormatVersionMalformed",
   "IdentificationStatusMissing", "IdentificationFlagsMissing", "IdentificationTypeMissing",
   "IdentificationDataFormat", "ChargePointIdFormat", "FieldTooLong", "MandatoryReadingFieldMissing",
   "TimeStatusMissing", "NumberUnrepresentable", "ObisNonCanonical"}

\* Strict refuses a record for each of them.
LEMMA StrictRefuses ==
  ASSUME NEW all, Rejected("Strict", all) = {}
  PROVE  all \intersect Departures = {}
  <1>1. ASSUME NEW kind \in Departures
        PROVE  Rejects("Strict", kind)
    <2>1. kind \in PresenceKinds \union FieldKinds \union FormKinds \union ReadingKinds /\ kind \notin Advisory
      BY DEF PresenceKinds, FieldKinds, FormKinds, ReadingKinds, Advisory, Departures
    <2>2. DeviationKind[kind].departure = "Specification"
      BY <2>1 DEF DeviationKind
    <2> QED BY <2>2, Zenon DEF Rejects
  <1> QED BY <1>1 DEF Rejected

\* Unless the readings are reported, each is kept, and each of its text fields.
LEMMA ReadingsAreKept ==
  ASSUME NEW S, AllValues(S), NEW v, v # NONE => v \in S,
         Readings(v) \intersect {"FieldTypeMismatch", "ReadingsMissing"} = {}
  PROVE  KeepsItems(v.items, Items(v))
  <1>1. v # NONE /\ v.kind = "array" /\ Items(v) = Kept(v)
    BY DEF Readings, Typed, Report
  <1>2. "FieldTypeMismatch" \notin ItemsDeviations(Items(v))
    BY DEF Readings
  <1>3. PICK w : w = v.items
    OBVIOUS
  <1>4. w \in Seq(S)
    BY <1>1, <1>3 DEF AllValues, IsOpen, IsNode
  <1>5. Kept(v) = SubSeq(w, 1, IF Len(w) <= Limits.readings THEN Len(w) ELSE Limits.readings)
    BY <1>1, <1>3 DEF Kept
  <1>6. Limits.readings \in Nat
    BY LimitsAssumption
  <1>7. PICK n \in Nat : n = Limits.readings
    BY <1>6
  <1>8. PICK items_ : items_ = Items(v)
    OBVIOUS
  <1>9. items_ \in Seq(S) /\ (Len(w) <= n => items_ = w)
    <2>1. items_ = SubSeq(w, 1, IF Len(w) <= n THEN Len(w) ELSE n)
      BY <1>1, <1>5, <1>7, <1>8
    <2>2. CASE Len(w) <= n
      BY <1>4, <2>1, <2>2
    <2>3. CASE ~(Len(w) <= n)
      BY <1>4, <2>1, <2>3
    <2> QED BY <2>2, <2>3
  <1>10. ASSUME NEW k \in DOMAIN items_, NEW key \in ScalarKeys, Has(items_[k], key)
         PROVE  TextOf(Get(items_[k], key)) # NONE
    <2>1. items_[k] \in S
      BY <1>9
    <2>2. Scalar(Get(items_[k], key)) \subseteq FieldDeviations(items_[k])
      BY DEF FieldDeviations
    <2>3. FieldDeviations(items_[k]) \subseteq ItemsDeviations(items_)
      BY DEF ItemsDeviations
    <2>4. "FieldTypeMismatch" \notin Scalar(Get(items_[k], key))
      BY <1>2, <1>8, <2>2, <2>3
    <2> QED BY <1>10, <2>1, <2>4, ScalarsAreKept
  <1> QED BY <1>3, <1>7, <1>8, <1>9, <1>10 DEF KeepsItems

\* Unless they are reported, the flags are all texts.
LEMMA FlagsAreKept ==
  ASSUME NEW v, v # NONE, NEW S, v.items \in Seq(S),
         "FieldTypeMismatch" \notin Typed(v, "array") \union Flags(FlagTexts(v))
  PROVE  v.kind = "array" /\ \A item \in Range(v.items) : item.kind = "string"
  <1>1. v.kind = "array"
    BY DEF Typed, Report
  <1>2. PICK w : w = v.items
    OBVIOUS
  <1>3. PICK texts : texts = FlagTexts(v)
    OBVIOUS
  <1>4. texts = [i \in DOMAIN w |-> IF w[i].kind = "string" THEN Decode(w[i].raw) ELSE NONE]
    BY <1>1, <1>2, <1>3 DEF FlagTexts
  <1>5. {i \in DOMAIN texts : texts[i] # NONE} = DOMAIN texts
    <2>1. "FieldTypeMismatch" \notin Flags(texts)
      BY <1>3
    <2> QED BY <2>1 DEF Flags, Report
  <1>6. ASSUME NEW i \in DOMAIN w PROVE w[i].kind = "string"
    BY <1>4, <1>5
  <1>7. \A item \in Range(w) : item.kind = "string"
    BY <1>6 DEF Range
  <1> QED BY <1>1, <1>2, <1>7

\* A loss compensation that is not reported has what it needs.
LEMMA LossIsKept ==
  ASSUME NEW lc, lc # NONE,
         LossCompensation(lc) \intersect {"FieldTypeMismatch", "LossCompensationIncomplete"} = {}
  PROVE  KeepsLoss(lc)
  <1>1. lc.kind = "object"
    BY DEF LossCompensation, Typed, Report
  <1>2. Has(lc, "LR") /\ Has(lc, "LU")
    BY <1>1 DEF LossCompensation, Report
  <1>3. PICK unit : unit = Get(lc, "LU")
    OBVIOUS
  <1>4. "FieldTypeMismatch" \notin LossUnit(unit)
    BY <1>1, <1>3 DEF LossCompensation
  <1>5. unit # NONE
    BY <1>2, <1>3 DEF Has
  <1>6. unit.kind = "string"
    BY <1>4, <1>5 DEF LossUnit, Typed, Report
  <1> QED BY <1>1, <1>2, <1>3, <1>6 DEF KeepsLoss

\* What Strict reads has a value of its type in every field that is there.
LEMMA MembersAreKept ==
  ASSUME NEW o, IsTree(o), NEW all, Rejected("Strict", all) = {}, PayloadDeviations(o) \subseteq all
  PROVE  KeepsMembers(Members(o), Texts(o))
  <1>1. PICK S : AllValues(S) /\ o \in S
    BY DEF IsTree
  <1>2. PICK v, t : v = Members(o) /\ t = Texts(o)
    OBVIOUS
  <1>3. Blocks(v, t) \intersect {"FieldTypeMismatch", "ReadingsMissing", "LossCompensationIncomplete"} = {}
    BY <1>2, StrictRefuses DEF PayloadDeviations, Departures
  <1>4. \A key \in KNOWN_KEYS : v[key] = Get(o, key) /\ (v[key] # NONE => v[key] \in S)
    BY <1>1, <1>2, GetIsValue DEF Members, Has
  <1>5. \A key \in TextKeys : t[key] = TextOf(Get(o, key)) /\ key \in KNOWN_KEYS
    BY <1>2 DEF Texts, TextKeys
  <1>6. {"IS", "IF", "LC", "RD"} \subseteq KNOWN_KEYS
    BY DEF KNOWN_KEYS
  <1>7. ASSUME NEW key \in TextKeys, v[key] # NONE PROVE t[key] # NONE
    <2>1. Scalar(v[key]) \subseteq Blocks(v, t)
      BY DEF Blocks
    <2>2. "FieldTypeMismatch" \notin Scalar(Get(o, key)) /\ Has(o, key)
      BY <1>3, <1>4, <1>5, <1>7, <2>1 DEF Has
    <2> QED BY <1>1, <1>5, <2>2, ScalarsAreKept
  <1>8. Assignment(v, t) \union LossCompensation(v["LC"]) \union Readings(v["RD"]) \subseteq Blocks(v, t)
    BY DEF Blocks
  <1>9. /\ Typed(v["IS"], "boolean") \subseteq Assignment(v, t)
        /\ Typed(v["IF"], "array") \union Flags(FlagTexts(v["IF"])) \subseteq Assignment(v, t)
    BY DEF Assignment
  <1>10. v["IS"] # NONE => v["IS"].kind = "boolean"
    BY <1>3, <1>8, <1>9 DEF Typed, Report
  <1>11. v["IF"] # NONE => /\ v["IF"].kind = "array"
                           /\ \A item \in Range(v["IF"].items) : item.kind = "string"
    <2> SUFFICES ASSUME v["IF"] # NONE PROVE v["IF"].kind = "array" /\ \A item \in Range(v["IF"].items) : item.kind = "string"
      OBVIOUS
    <2>1. PICK f : f = v["IF"]
      OBVIOUS
    <2>2. f \in S
      BY <1>4, <1>6, <2>1
    <2>3. f.items \in Seq(S)
      BY <1>1, <2>2 DEF AllValues, IsOpen, IsNode
    <2>4. "FieldTypeMismatch" \notin Typed(f, "array") \union Flags(FlagTexts(f))
      BY <1>3, <1>8, <1>9, <2>1
    <2> QED BY <2>1, <2>3, <2>4, FlagsAreKept
  <1>12. v["LC"] # NONE => KeepsLoss(v["LC"])
    <2>1. LossCompensation(v["LC"]) \intersect {"FieldTypeMismatch", "LossCompensationIncomplete"} = {}
      BY <1>3, <1>8
    <2> QED BY <2>1, LossIsKept
  <1>13. KeepsItems(v["RD"].items, Items(v["RD"]))
    <2>1. v["RD"] # NONE => v["RD"] \in S
      BY <1>4, <1>6
    <2>2. Readings(v["RD"]) \intersect {"FieldTypeMismatch", "ReadingsMissing"} = {}
      BY <1>3, <1>8
    <2> QED BY <1>1, <2>1, <2>2, ReadingsAreKept
  <1> QED BY <1>2, <1>7, <1>10, <1>11, <1>12, <1>13 DEF KeepsMembers

\* A record that Strict reads says all that was written under a known name: no field is
\* dropped because of its type, whatever its names and strings are spelled with, and no
\* reading within the limit (payload/mod.rs, from_object; json.rs, value).
THEOREM StrictAlwaysLosesNothing == Spec => []StrictLosesNothing
  <1>1. Judging => StrictLosesNothing
    <2> SUFFICES ASSUME Judging, section = "done", verdict = "Read", profile = "Strict"
                 PROVE  KeepsMembers(Members(payload.tree), Texts(payload.tree))
      BY DEF StrictLosesNothing
    <2>1. IsTree(payload.tree) /\ Rejected("Strict", dev) = {} /\ PayloadDeviations(payload.tree) \subseteq dev
      BY DEF Judging, IsRead
    <2> QED BY <2>1, MembersAreKept
  <1> QED BY <1>1, JudgingAlways, PTL

-----------------------------------------------------------------------------
(***************************************************************************)
(* What Strict reads, the builder would take.                              *)
(***************************************************************************)
\* What a record that is read may still break.
Tolerated == {"NoReadings", "TransactionMarkers"}

\* A rule that holds, or need not.
IsKept(rule) == rule.holds \/ rule.why \in Tolerated

AreKept(rules) == \E S : rules \in Seq(S) /\ \A rule \in S : IsKept(rule)

\* The first of them that is broken is one that need not hold.
LEMMA FirstBrokenIsTolerated ==
  ASSUME NEW rules, AreKept(rules)
  PROVE  FirstBroken(rules) \in {NONE} \union Tolerated
  <1>1. PICK S : rules \in Seq(S) /\ \A rule \in S : IsKept(rule)
    BY DEF AreKept
  <1> DEFINE B == {i \in DOMAIN rules : ~rules[i].holds}
             Least(i) == \A k \in B : i <= k
  <1>2. B \in SUBSET Nat
    BY <1>1
  <1>3. \A i \in B : rules[i] \in S /\ ~rules[i].holds
    BY <1>1
  <1>4. FirstBroken(rules) = (IF B = {} THEN NONE ELSE rules[CHOOSE i \in B : Least(i)].why)
    BY DEF FirstBroken
  <1>5. CASE B # {}
    <2> HIDE DEF B
    <2>1. \E i \in B : Least(i)
      BY <1>2, <1>5, LeastExists
    <2>2. PICK i \in B : i = CHOOSE k \in B : Least(k)
      BY <2>1
    <2>3. rules[i].why \in Tolerated
      BY <1>1, <1>3 DEF IsKept
    <2> QED BY <1>4, <1>5, <2>2, <2>3
  <1> HIDE DEF B, Least
  <1> QED BY <1>4, <1>5

\* Rules one after the other.
LEMMA MoreRules ==
  ASSUME NEW r, NEW s, AreKept(r), AreKept(s)
  PROVE  AreKept(r \o s)
  <1>1. PICK R : r \in Seq(R) /\ \A rule \in R : IsKept(rule)
    BY DEF AreKept
  <1>2. PICK S : s \in Seq(S) /\ \A rule \in S : IsKept(rule)
    BY DEF AreKept
  <1>3. PICK T : T = R \union S
    OBVIOUS
  <1>4. r \in Seq(T) /\ s \in Seq(T) /\ \A rule \in T : IsKept(rule)
    BY <1>1, <1>2, <1>3
  <1>5. r \o s \in Seq(T)
    BY <1>4
  <1> QED BY <1>4, <1>5 DEF AreKept

\* Five of them.
LEMMA FiveRules ==
  ASSUME NEW a, NEW c, NEW d, NEW e, NEW f,
         \A rule \in {a, c, d, e, f} : IsKept(rule)
  PROVE  AreKept(<<a, c, d, e, f>>)
  <1>1. PICK S : S = {a, c, d, e, f}
    OBVIOUS
  <1>2. <<a, c, d, e, f>> \in Seq(S) /\ \A rule \in S : IsKept(rule)
    BY <1>1
  <1> QED BY <1>2 DEF AreKept

\* Six.
LEMMA SixRules ==
  ASSUME NEW a, NEW c, NEW d, NEW e, NEW f, NEW g,
         \A rule \in {a, c, d, e, f, g} : IsKept(rule)
  PROVE  AreKept(<<a, c, d, e, f, g>>)
  <1>1. PICK S : S = {a, c, d, e, f, g}
    OBVIOUS
  <1>2. <<a, c, d, e, f, g>> \in Seq(S) /\ \A rule \in S : IsKept(rule)
    BY <1>1
  <1> QED BY <1>2 DEF AreKept

\* Seven.
LEMMA SevenRules ==
  ASSUME NEW a, NEW c, NEW d, NEW e, NEW f, NEW g, NEW h,
         \A rule \in {a, c, d, e, f, g, h} : IsKept(rule)
  PROVE  AreKept(<<a, c, d, e, f, g, h>>)
  <1>1. PICK S : S = {a, c, d, e, f, g, h}
    OBVIOUS
  <1>2. <<a, c, d, e, f, g, h>> \in Seq(S) /\ \A rule \in S : IsKept(rule)
    BY <1>1
  <1> QED BY <1>2 DEF AreKept

\* Nine.
LEMMA NineRules ==
  ASSUME NEW a, NEW c, NEW d, NEW e, NEW f, NEW g, NEW h, NEW j, NEW k,
         \A rule \in {a, c, d, e, f, g, h, j, k} : IsKept(rule)
  PROVE  AreKept(<<a, c, d, e, f, g, h, j, k>>)
  <1>1. PICK S : S = {a, c, d, e, f, g, h, j, k}
    OBVIOUS
  <1>2. <<a, c, d, e, f, g, h, j, k>> \in Seq(S) /\ \A rule \in S : IsKept(rule)
    BY <1>1
  <1> QED BY <1>2 DEF AreKept

\* The members of a payload object that is read, and what they say.
AreTaken(v, t) ==
  /\ Blocks(v, t) \intersect Departures = {}
  /\ \A key \in TextKeys : t[key] = TextOf(v[key])
  /\ KeepsMembers(v, t)

\* Where a text is, there is a value; and the other way round.
LEMMA TextsAreThere ==
  ASSUME NEW v, NEW t, AreTaken(v, t), NEW key \in TextKeys
  PROVE  t[key] = NONE <=> v[key] = NONE
  <1>1. TextOf(NONE) = NONE
    BY DEF TextOf, HasText
  <1> QED BY <1>1 DEF AreTaken, KeepsMembers

\* The fields that rules are about are text fields.
LEMMA KeysAreThere ==
  {"PG", "MS", "FV", "IT", "ID", "IL", "CT", "CI", "TT", "CF"} \subseteq TextKeys
  BY DEF TextKeys, KNOWN_KEYS

\* The rules about what must be there.
LEMMA ShapeIsKept ==
  ASSUME NEW v, NEW t, AreTaken(v, t), NEW b, b.texts = t
  PROVE  AreKept(Shape(b))
  <1> DEFINE a == Rule(b.texts["PG"] # NONE, "MissingField: PG")
             c == Rule(b.texts["PG"] # NONE => ContextOf[b.texts["PG"][1]] # "?", "FieldValue: PG")
             d == Rule(b.readings # <<>>, "NoReadings")
             e == Rule(b.texts["MS"] # NONE, "MissingField: MS")
             f == Rule(b.texts["FV"] = NONE \/ IsVersion(b.texts["FV"]), "FieldValue: FV")
  <1>1. Shape(b) = <<a, c, d, e, f>>
    BY DEF Shape
  <1>3. /\ Pagination(v["PG"], t["PG"]) \intersect Departures = {}
        /\ Identity(v, t) \intersect Departures = {}
        /\ FormatVersion(t["FV"]) \intersect Departures = {}
    BY DEF AreTaken, Blocks
  <1>4. t["PG"] # NONE /\ ContextOf[t["PG"][1]] # "?"
    <2>1. t["PG"] = NONE => v["PG"] = NONE
      BY KeysAreThere, TextsAreThere
    <2> QED BY <1>3, <2>1 DEF Pagination, Report, Departures
  <1>5. t["MS"] # NONE
    BY <1>3 DEF Identity, Report, Departures
  <1>6. t["FV"] = NONE \/ IsVersion(t["FV"])
    <2>1. SUFFICES ASSUME t["FV"] # NONE, ~IsVersion(t["FV"]) PROVE FALSE
      OBVIOUS
    <2>2. FormatVersion(t["FV"]) = {"FormatVersionMalformed"}
      BY <2>1, Zenon DEF FormatVersion
    <2> QED BY <1>3, <2>2 DEF Departures
  <1>7. IsKept(a)
    BY <1>4 DEF IsKept, Rule
  <1>8. IsKept(c)
    BY <1>4 DEF IsKept, Rule
  <1>9. IsKept(d)
    BY DEF IsKept, Rule, Tolerated
  <1>10. IsKept(e)
    BY <1>5 DEF IsKept, Rule
  <1>11. IsKept(f)
    BY <1>6 DEF IsKept, Rule
  <1> HIDE DEF a, c, d, e, f
  <1> QED BY <1>1, <1>7, <1>8, <1>9, <1>10, <1>11, FiveRules

\* What is said of the user: b.assigned and b.flags are there when the members are.
LEMMA UserAssignmentIsKept ==
  ASSUME NEW v, NEW t, AreTaken(v, t), NEW b, b.texts = t,
         b.assigned # NONE <=> v["IS"] # NONE,
         b.flags # NONE <=> v["IF"] # NONE,
         b.flags # NONE => \A i \in DOMAIN b.flags : b.flags[i].group # NONE
  PROVE  AreKept(UserAssignment(b))
  <1> DEFINE a == Rule(ContextOf[b.texts["PG"][1]] = "T" => b.assigned # NONE, "MissingField: IS")
             c == Rule(b.assigned # NONE => b.flags # NONE, "MissingField: IF")
             d == Rule(b.assigned # NONE => b.texts["IT"] # NONE, "MissingField: IT")
             e == Rule(Defined(b.texts["IL"], IdentificationLevel), "FieldValue: IL")
             f == Rule(Defined(b.texts["IT"], IdentificationType), "FieldValue: IT")
             g == Rule(b.flags = NONE \/ \A i \in DOMAIN b.flags : b.flags[i].group # NONE, "FieldValue: IF")
             h == Rule(b.texts["IT"] # NONE /\ b.texts["ID"] # NONE => DataIsWellFormed(b.texts["IT"], b.texts["ID"]), "FieldValue: ID")
  <1>1. UserAssignment(b) = <<a, c, d, e, f, g, h>>
    BY DEF UserAssignment
  <1>3. /\ Pagination(v["PG"], t["PG"]) \intersect Departures = {}
        /\ Assignment(v, t) \intersect Departures = {}
    BY DEF AreTaken, Blocks
  <1>4. \A key \in {"PG", "IT", "ID", "IL"} : t[key] = NONE <=> v[key] = NONE
    BY KeysAreThere, TextsAreThere
  <1>5. ContextOf[t["PG"][1]] = "T" => b.assigned # NONE
    <2> SUFFICES ASSUME ContextOf[t["PG"][1]] = "T" PROVE v["IS"] # NONE
      OBVIOUS
    <2>1. t["PG"] # NONE /\ v["PG"] # NONE
      BY <1>3, <1>4 DEF Pagination, Report, Departures
    <2>2. InTransaction(v["PG"], t["PG"])
      BY <2>1 DEF InTransaction
    <2>3. Report("IdentificationStatusMissing", v["IS"] = NONE /\ InTransaction(v["PG"], t["PG"])) \subseteq Assignment(v, t)
      BY DEF Assignment
    <2>4. "IdentificationStatusMissing" \in Departures
      BY DEF Departures
    <2> QED BY <1>3, <2>2, <2>3, <2>4 DEF Report
  <1>6. b.assigned # NONE => b.flags # NONE /\ t["IT"] # NONE
    <2> SUFFICES ASSUME v["IS"] # NONE PROVE v["IF"] # NONE /\ v["IT"] # NONE
      BY <1>4
    <2>1. IsAssigned(v["IS"])
      BY DEF IsAssigned, AreTaken, KeepsMembers
    <2>2. /\ Report("IdentificationFlagsMissing", v["IF"] = NONE /\ IsAssigned(v["IS"])) \subseteq Assignment(v, t)
          /\ Report("IdentificationTypeMissing", IsAssigned(v["IS"]) /\ v["IT"] = NONE) \subseteq Assignment(v, t)
      BY DEF Assignment
    <2>3. {"IdentificationFlagsMissing", "IdentificationTypeMissing"} \subseteq Departures
      BY DEF Departures
    <2> QED BY <1>3, <2>1, <2>2, <2>3 DEF Report
  <1>7. Defined(t["IL"], IdentificationLevel) /\ Defined(t["IT"], IdentificationType)
    <2>1. /\ InTable(t["IT"], IdentificationType) \subseteq Assignment(v, t)
          /\ InTable(t["IL"], IdentificationLevel) \subseteq Assignment(v, t)
      BY DEF Assignment
    <2>2. "UndefinedTableValue" \in Departures
      BY DEF Departures
    <2> QED BY <1>3, <2>1, <2>2 DEF Defined, InTable, Report
  <1>8. t["IT"] # NONE /\ t["ID"] # NONE => DataIsWellFormed(t["IT"], t["ID"])
    <2>1. Report("IdentificationDataFormat",
                 t["IT"] # NONE /\ t["ID"] # NONE /\ ~DataIsWellFormed(t["IT"], t["ID"])) \subseteq Assignment(v, t)
      BY DEF Assignment
    <2>2. "IdentificationDataFormat" \in Departures
      BY DEF Departures
    <2> QED BY <1>3, <2>1, <2>2 DEF Report
  <1>9. IsKept(a)
    BY <1>5 DEF IsKept, Rule
  <1>10. IsKept(c) /\ IsKept(d)
    BY <1>6 DEF IsKept, Rule
  <1>11. IsKept(e) /\ IsKept(f)
    BY <1>7 DEF IsKept, Rule
  <1>12. IsKept(g)
    BY DEF IsKept, Rule
  <1>13. IsKept(h)
    BY <1>8 DEF IsKept, Rule
  <1> HIDE DEF a, c, d, e, f, g, h
  <1> QED BY <1>1, <1>9, <1>10, <1>11, <1>12, <1>13, SevenRules

\* What is said of the charge point, and how long texts are: b.loss is there when
\* the member is.
LEMMA BoundsAreKept ==
  ASSUME NEW v, NEW t, AreTaken(v, t), NEW b, b.texts = t, NEW S, AllValues(S),
         b.loss # NONE => v["LC"] # NONE /\ v["LC"] \in S /\ b.loss = GivenLoss(v["LC"])
  PROVE  AreKept(ChargePointAndBounds(b))
  <1> DEFINE a == Rule(Defined(b.texts["CT"], ChargePointIdType), "FieldValue: CT")
             c == Rule(b.texts["CT"] # NONE /\ b.texts["CI"] # NONE => IdIsWellFormed(b.texts["CT"], b.texts["CI"]), "FieldValue: CI")
             d == Rule(Within(b.texts["TT"], 250), "TooLong: TT")
             e == Rule(Within(b.texts["CF"], 25), "TooLong: CF")
             f == Rule(b.loss # NONE => b.loss.LU \in Words({"mOhm", "uOhm"}), "FieldValue: LU")
             g == Rule(b.loss # NONE => Within(b.loss.LN, 20), "TooLong: LN")
  <1>1. ChargePointAndBounds(b) = <<a, c, d, e, f, g>>
    BY DEF ChargePointAndBounds
  <1>3. /\ ChargePoint(t["CT"], t["CI"]) \intersect Departures = {}
        /\ Bounded(t["TT"], 250) \intersect Departures = {}
        /\ Bounded(t["CF"], 25) \intersect Departures = {}
        /\ LossCompensation(v["LC"]) \intersect Departures = {}
    BY DEF AreTaken, Blocks
  <1>4. Defined(t["CT"], ChargePointIdType)
    BY <1>3 DEF Defined, ChargePoint, InTable, Report, Departures
  <1>5. t["CT"] # NONE /\ t["CI"] # NONE => IdIsWellFormed(t["CT"], t["CI"])
    BY <1>3 DEF ChargePoint, Report, Departures
  <1>6. Within(t["TT"], 250) /\ Within(t["CF"], 25)
    BY <1>3 DEF Within, Bounded, Report, Departures
  <1>7. ASSUME b.loss # NONE PROVE b.loss.LU \in Words({"mOhm", "uOhm"}) /\ Within(b.loss.LN, 20)
    <2>1. PICK lc : lc = v["LC"]
      OBVIOUS
    <2>2. PICK unit, name : unit = Get(lc, "LU") /\ name = Get(lc, "LN")
      OBVIOUS
    <2>3. lc # NONE /\ lc.kind = "object" /\ Has(lc, "LU") /\ unit.kind = "string"
      BY <1>7, <2>1, <2>2 DEF AreTaken, KeepsMembers, KeepsLoss
    <2>4. b.loss.LU = GivenString(unit) /\ b.loss.LN = GivenString(name)
      BY <1>7, <2>1, <2>2, <2>3 DEF GivenLoss
    <2>5. LossUnit(unit) \intersect Departures = {} /\ LossName(name) \intersect Departures = {}
      BY <1>3, <2>1, <2>2, <2>3 DEF LossCompensation
    <2>6. unit # NONE
      BY <2>2, <2>3 DEF Has
    <2>7. GivenString(unit) = Decode(unit.raw)
      BY <2>3, <2>6 DEF GivenString
    <2>8. GivenString(unit) \in Words({"mOhm", "uOhm"})
      <3>1. InTable(Decode(unit.raw), {<<"mOhm">>, <<"uOhm">>}) \intersect Departures = {}
        BY <2>3, <2>5, <2>6 DEF LossUnit
      <3>2. Decode(unit.raw) = NONE \/ Decode(unit.raw) \in {<<"mOhm">>, <<"uOhm">>}
        BY <3>1 DEF InTable, Report, Departures
      <3>3. Decode(unit.raw) # NONE
        <4>1. unit \in S
          BY <1>7, <2>1, <2>2, <2>3, GetIsValue
        <4>2. unit.raw \in Seq(Symbols)
          BY <4>1 DEF AllValues, IsOpen, IsNode
        <4> QED BY <4>2, DecodeIsText, SymbolsAssumption
      <3> QED BY <2>7, <3>2, <3>3 DEF Words
    <2>9. Within(GivenString(name), 20)
      <3>1. CASE name = NONE \/ name.kind # "string"
        BY <3>1 DEF GivenString, Within
      <3>2. CASE name # NONE /\ name.kind = "string"
        <4>1. Bounded(Decode(name.raw), 20) \intersect Departures = {}
          BY <2>5, <3>2 DEF LossName
        <4>2. GivenString(name) = Decode(name.raw)
          BY <3>2 DEF GivenString
        <4> QED BY <4>1, <4>2 DEF Within, Bounded, Report, Departures
      <3> QED BY <3>1, <3>2
    <2> QED BY <2>4, <2>8, <2>9
  <1>8. IsKept(a)
    BY <1>4 DEF IsKept, Rule
  <1>9. IsKept(c)
    BY <1>5 DEF IsKept, Rule
  <1>10. IsKept(d) /\ IsKept(e)
    BY <1>6 DEF IsKept, Rule
  <1>11. IsKept(f) /\ IsKept(g)
    BY <1>7 DEF IsKept, Rule
  <1> HIDE DEF a, c, d, e, f, g
  <1> QED BY <1>1, <1>8, <1>9, <1>10, <1>11, SixRules

-----------------------------------------------------------------------------
\* What a reading says of itself or was said before it, is said by one of the items.
LEMMA ResolvedIsMeant ==
  ASSUME NEW given, NEW k \in Nat, NEW name
  PROVE  Resolved(given, k, name) = NONE \/ \E m \in 1 .. k : Resolved(given, k, name) = Meant(given[m], name)
  <1>1. PICK names : names = IF name \in {"RI", "RU"} THEN {"RI", "RU"} ELSE {name}
    OBVIOUS
  <1>2. PICK M : M = Stating(given, k, names)
    OBVIOUS
  <1>3. M \in SUBSET (1 .. k)
    BY <1>2 DEF Stating
  <1>4. Resolved(given, k, name) = LastOf(given, M, name)
    BY <1>1, <1>2 DEF Resolved
  <1>5. CASE M = {}
    BY <1>4, <1>5 DEF LastOf
  <1>6. CASE M # {}
    <2>1. \E m \in M : \A n \in M : n <= m
      BY <1>3, <1>6, GreatestExists
    <2>2. PICK m \in M : m = CHOOSE l \in M : \A n \in M : n <= l
      BY <2>1
    <2>3. LastOf(given, M, name) = Meant(given[m], name)
      BY <1>6, <2>2 DEF LastOf
    <2> QED BY <1>3, <1>4, <2>3
  <1> QED BY <1>5, <1>6

\* The texts of an item that is taken.
LEMMA ItemIsTaken ==
  ASSUME NEW given, ItemsDeviations(given) \intersect Departures = {}, NEW m \in DOMAIN given
  PROVE  /\ TextDeviations(ItemTexts(given[m])) \intersect Departures = {}
         /\ Has(given[m], "RV") => IsNumber(Get(given[m], "RV"))
         /\ \A name \in ScalarKeys : ItemTexts(given[m])[name] = TextOf(Get(given[m], name))
  <1>1. FieldDeviations(given[m]) \subseteq ItemsDeviations(given)
    BY DEF ItemsDeviations
  <1>2. TextDeviations(ItemTexts(given[m])) \subseteq FieldDeviations(given[m])
    BY DEF FieldDeviations
  <1>3. Report("NumberUnrepresentable",
               \E key \in NumberKeys : Has(given[m], key) /\ ~IsNumber(Get(given[m], key)))
          \subseteq FieldDeviations(given[m])
    BY DEF FieldDeviations
  <1>4. "NumberUnrepresentable" \in Departures /\ "RV" \in NumberKeys
    BY DEF Departures, NumberKeys
  <1>5. Has(given[m], "RV") => IsNumber(Get(given[m], "RV"))
    BY <1>1, <1>3, <1>4 DEF Report
  <1> QED BY <1>1, <1>2, <1>5 DEF ItemTexts

\* What it says is in the tables; a date has its letter, and a code its form.
LEMMA TextsAreTaken ==
  ASSUME NEW t, TextDeviations(t) \intersect Departures = {}
  PROVE  /\ t["TM"] \in Words(Instants) => \A w \in Instants : t["TM"] = <<w>> => InstantStatus[w] # NONE
         /\ Defined(t["TX"], Words({"B","C","X","E","L","R","A","P","S","T"}))
         /\ Defined(t["ST"], Words({"N","G","T","D","R","M","X","I","O","S","E","F"}))
         /\ Defined(t["RU"], {<<"k", "Wh">>} \union Words({"Wh", "mOhm", "uOhm"}))
         /\ Defined(t["RT"], Words({"AC", "DC"}))
         /\ t["EF"] = NONE \/ Range(t["EF"]) \subseteq {"E", "t"}
         /\ t["RI"] \in Words(Codes) => t["RI"] \in Words(CanonicalCodes)
  <1>1. {"UndefinedTableValue", "TimeStatusMissing", "ObisNonCanonical"} \subseteq Departures
    BY DEF Departures
  <1>2. ASSUME NEW w \in Instants, t["TM"] = <<w>> PROVE InstantStatus[w] # NONE
    <2>1. Report("TimeStatusMissing",
                 t["TM"] \in {<<x>> : x \in {i \in Instants : InstantStatus[i] = NONE}}) \subseteq TextDeviations(t)
      BY DEF TextDeviations
    <2>2. t["TM"] \notin {<<x>> : x \in {i \in Instants : InstantStatus[i] = NONE}}
      BY <1>1, <2>1 DEF Report
    <2> QED BY <1>2, <2>2
  <1>3. /\ InTable(t["TX"], {<<w>> : w \in {"B","C","X","E","L","R","A","P","S","T"}}) \subseteq TextDeviations(t)
        /\ InTable(t["ST"], {<<w>> : w \in {"N","G","T","D","R","M","X","I","O","S","E","F"}}) \subseteq TextDeviations(t)
        /\ InTable(t["RU"], {<<"k", "Wh">>, <<"Wh">>, <<"mOhm">>, <<"uOhm">>}) \subseteq TextDeviations(t)
        /\ InTable(t["RT"], {<<"AC">>, <<"DC">>}) \subseteq TextDeviations(t)
    BY DEF TextDeviations
  <1>4. /\ Defined(t["TX"], Words({"B","C","X","E","L","R","A","P","S","T"}))
        /\ Defined(t["ST"], Words({"N","G","T","D","R","M","X","I","O","S","E","F"}))
    BY <1>1, <1>3 DEF Defined, InTable, Report, Words
  <1>5. /\ Defined(t["RU"], {<<"k", "Wh">>} \union Words({"Wh", "mOhm", "uOhm"}))
        /\ Defined(t["RT"], Words({"AC", "DC"}))
    <2>1. /\ {<<"k", "Wh">>, <<"Wh">>, <<"mOhm">>, <<"uOhm">>} \subseteq {<<"k", "Wh">>} \union Words({"Wh", "mOhm", "uOhm"})
          /\ {<<"AC">>, <<"DC">>} \subseteq Words({"AC", "DC"})
      BY DEF Words
    <2> QED BY <1>1, <1>3, <2>1 DEF Defined, InTable, Report
  <1>6. t["EF"] = NONE \/ Range(t["EF"]) \subseteq {"E", "t"}
    <2>1. Report("UndefinedTableValue",
                 t["EF"] # NONE /\ \E i \in DOMAIN t["EF"] : t["EF"][i] \notin {"E", "t"}) \subseteq TextDeviations(t)
      BY DEF TextDeviations
    <2> QED BY <1>1, <2>1 DEF Report, Range
  <1>7. t["RI"] \in Words(Codes) => t["RI"] \in Words(CanonicalCodes)
    <2>1. Report("ObisNonCanonical", t["RI"] \in {<<w>> : w \in Codes \ CanonicalCodes}) \subseteq TextDeviations(t)
      BY DEF TextDeviations
    <2> QED BY <1>1, <2>1 DEF Report, Words
  <1> QED BY <1>2, <1>4, <1>5, <1>6, <1>7

\* What is asked of a reading holds for one that is taken.
LEMMA ReadingIsKept ==
  ASSUME NEW T, NEW given \in Seq(T), ItemsDeviations(given) \intersect Departures = {},
         NEW n \in Nat, n \in DOMAIN given, NEW r, r = GivenReading(given, n)
  PROVE  AreKept(Reading_(r))
  <1> DEFINE a == Rule(r.TM \in Words(Instants \union {"far"}), "FieldValue: TM")
             c == Rule(r.TM[1] \in Instants => InstantStatus[r.TM[1]] # NONE, "MissingField: TM")
             d == Rule(r.ST \in Words({"N","G","T","D","R","M","X","I","O","S","E","F"}), "FieldValue: ST")
             e == Rule(Defined(r.TX, Words({"B","C","X","E","L","R","A","P","S","T"})), "FieldValue: TX")
             f == Rule(Defined(r.RU, {<<"k", "Wh">>} \union Words({"Wh", "mOhm", "uOhm"})), "FieldValue: RU")
             g == Rule(Defined(r.RT, Words({"AC", "DC"})), "FieldValue: RT")
             h == Rule(r.RV # NONE => r.RU # NONE, "MissingField: RU")
             j == Rule(r.EF = NONE \/ Range(r.EF) \subseteq {"E", "t"}, "FieldValue: EF")
             k == Rule(Defined(r.RI, Words(CanonicalCodes)), "FieldValue: RI")
  <1>1. Reading_(r) = <<a, c, d, e, f, g, h, j, k>>
    BY DEF Reading_
  <1>2. /\ r.TM = Resolved(given, n, "TM") /\ r.ST = Resolved(given, n, "ST")
        /\ r.RI = Resolved(given, n, "RI") /\ r.RU = Resolved(given, n, "RU")
    BY DEF GivenReading, ScalarKeys, NumberKeys
  <1>3. /\ r.TX = TextOf(Get(given[n], "TX")) /\ r.RT = TextOf(Get(given[n], "RT"))
        /\ r.EF = TextOf(Get(given[n], "EF")) /\ r.RV = AsWritten(given[n], "RV")
    BY DEF GivenReading, ScalarKeys, NumberKeys
  <1>4. \A m \in 1 .. n : m \in DOMAIN given
    BY DEF GivenReading
  <1>5. \A m \in DOMAIN given :
          /\ TextDeviations(ItemTexts(given[m])) \intersect Departures = {}
          /\ Has(given[m], "RV") => IsNumber(Get(given[m], "RV"))
          /\ \A name \in ScalarKeys : ItemTexts(given[m])[name] = TextOf(Get(given[m], name))
    BY ItemIsTaken
  <1>6. /\ Resolved(given, n, "TM") # NONE /\ Resolved(given, n, "ST") # NONE
        /\ Has(given[n], "RV") => Resolved(given, n, "RU") # NONE
    <2>1. "MandatoryReadingFieldMissing" \notin ItemsDeviations(given)
      BY DEF Departures
    <2>2. ~ \E i \in DOMAIN given :
               \/ \E name \in {"TM", "ST"} : Resolved(given, i, name) = NONE
               \/ /\ Has(given[i], "RV") /\ IsNumber(Get(given[i], "RV"))
                  /\ Resolved(given, i, "RU") = NONE
      BY <2>1 DEF ItemsDeviations, Report
    <2> QED BY <1>5, <2>2
  <1>7. ASSUME NEW name \in ScalarKeys, Resolved(given, n, name) # NONE
        PROVE  \E m \in DOMAIN given : /\ TextDeviations(ItemTexts(given[m])) \intersect Departures = {}
                                       /\ Resolved(given, n, name) = Meaning(name, ItemTexts(given[m])[name])
    <2>1. PICK m \in 1 .. n : Resolved(given, n, name) = Meant(given[m], name)
      BY <1>7, ResolvedIsMeant
    <2> QED BY <1>4, <1>5, <2>1 DEF Meant
  <1>8. {"TM", "ST", "RI", "RU", "TX", "RT", "EF"} \subseteq ScalarKeys
    BY DEF ScalarKeys
  <1>9. r.TM \in Words(Instants) /\ \A w \in Instants : r.TM = <<w>> => InstantStatus[w] # NONE
    <2>1. PICK m \in DOMAIN given : /\ TextDeviations(ItemTexts(given[m])) \intersect Departures = {}
                                    /\ r.TM = Meaning("TM", ItemTexts(given[m])["TM"])
      BY <1>2, <1>6, <1>7, <1>8
    <2>2. PICK t : t = ItemTexts(given[m])
      OBVIOUS
    <2>3. r.TM = Meaning("TM", t["TM"]) /\ r.TM # NONE
      BY <1>2, <1>6, <2>1, <2>2
    <2>4. t["TM"] \in {<<w>> : w \in Instants}
      <3>1. t["TM"] \notin {<<w>> : w \in Instants} => Meaning("TM", t["TM"]) = NONE
        BY Zenon DEF Meaning
      <3> QED BY <2>3, <3>1
    <2>5. Meaning("TM", t["TM"]) = t["TM"]
      BY <2>4, Zenon DEF Meaning
    <2> QED BY <2>1, <2>2, <2>3, <2>4, <2>5, TextsAreTaken DEF Words
  <1>10. r.ST \in Words({"N","G","T","D","R","M","X","I","O","S","E","F"})
    <2>1. PICK m \in DOMAIN given : /\ TextDeviations(ItemTexts(given[m])) \intersect Departures = {}
                                    /\ r.ST = Meaning("ST", ItemTexts(given[m])["ST"])
      BY <1>2, <1>6, <1>7, <1>8
    <2>2. PICK t : t = ItemTexts(given[m])
      OBVIOUS
    <2>3. Meaning("ST", t["ST"]) = t["ST"]
      BY Zenon DEF Meaning
    <2>4. Defined(t["ST"], Words({"N","G","T","D","R","M","X","I","O","S","E","F"}))
      BY <2>1, <2>2, TextsAreTaken
    <2> QED BY <1>2, <1>6, <2>1, <2>2, <2>3, <2>4 DEF Defined
  <1>11. Defined(r.RU, {<<"k", "Wh">>} \union Words({"Wh", "mOhm", "uOhm"}))
    <2>1. SUFFICES ASSUME r.RU # NONE PROVE r.RU \in {<<"k", "Wh">>} \union Words({"Wh", "mOhm", "uOhm"})
      BY DEF Defined
    <2>2. PICK m \in DOMAIN given : /\ TextDeviations(ItemTexts(given[m])) \intersect Departures = {}
                                    /\ r.RU = Meaning("RU", ItemTexts(given[m])["RU"])
      BY <1>2, <1>7, <1>8, <2>1
    <2>3. PICK t : t = ItemTexts(given[m])
      OBVIOUS
    <2>4. Meaning("RU", t["RU"]) = t["RU"]
      BY Zenon DEF Meaning
    <2>5. Defined(t["RU"], {<<"k", "Wh">>} \union Words({"Wh", "mOhm", "uOhm"}))
      BY <2>2, <2>3, TextsAreTaken
    <2> QED BY <2>1, <2>2, <2>3, <2>4, <2>5 DEF Defined
  <1>12. Defined(r.RI, Words(CanonicalCodes))
    <2>1. SUFFICES ASSUME r.RI # NONE PROVE r.RI \in Words(CanonicalCodes)
      BY DEF Defined
    <2>2. PICK m \in DOMAIN given : /\ TextDeviations(ItemTexts(given[m])) \intersect Departures = {}
                                    /\ r.RI = Meaning("RI", ItemTexts(given[m])["RI"])
      BY <1>2, <1>7, <1>8, <2>1
    <2>3. PICK t : t = ItemTexts(given[m])
      OBVIOUS
    <2>4. t["RI"] \in {<<w>> : w \in Codes}
      <3>1. t["RI"] \notin {<<w>> : w \in Codes} => Meaning("RI", t["RI"]) = NONE
        BY Zenon DEF Meaning
      <3> QED BY <2>1, <2>2, <2>3, <3>1
    <2>5. Meaning("RI", t["RI"]) = t["RI"]
      BY <2>4, Zenon DEF Meaning
    <2> QED BY <2>2, <2>3, <2>4, <2>5, TextsAreTaken DEF Words
  <1>13. /\ Defined(r.TX, Words({"B","C","X","E","L","R","A","P","S","T"}))
         /\ Defined(r.RT, Words({"AC", "DC"}))
         /\ r.EF = NONE \/ Range(r.EF) \subseteq {"E", "t"}
    <2>1. PICK t : t = ItemTexts(given[n])
      OBVIOUS
    <2>2. r.TX = t["TX"] /\ r.RT = t["RT"] /\ r.EF = t["EF"]
      BY <1>3, <1>5, <1>8, <2>1
    <2>3. TextDeviations(t) \intersect Departures = {}
      BY <1>5, <2>1
    <2> QED BY <2>2, <2>3, TextsAreTaken
  <1>14. IsKept(a)
    BY <1>9 DEF IsKept, Rule, Words
  <1>15. IsKept(c)
    <2>1. PICK w \in Instants : r.TM = <<w>>
      BY <1>9 DEF Words
    <2>2. r.TM[1] = w /\ InstantStatus[w] # NONE
      BY <1>9, <2>1
    <2>3. r.TM[1] \in Instants => InstantStatus[r.TM[1]] # NONE
      BY <2>2
    <2> QED BY <2>3 DEF IsKept, Rule
  <1>16. IsKept(d)
    BY <1>10 DEF IsKept, Rule
  <1>17. IsKept(e) /\ IsKept(g) /\ IsKept(j)
    BY <1>13 DEF IsKept, Rule
  <1>18. IsKept(f)
    BY <1>11 DEF IsKept, Rule
  <1>19. IsKept(h)
    BY <1>2, <1>3, <1>6 DEF IsKept, Rule, AsWritten
  <1>20. IsKept(k)
    BY <1>12 DEF IsKept, Rule
  <1> HIDE DEF a, c, d, e, f, g, h, j, k
  <1> QED BY <1>1, <1>14, <1>15, <1>16, <1>17, <1>18, <1>19, <1>20, NineRules

\* The rules of all readings, one reading after the other.
LEMMA ReadingsAreRuled ==
  ASSUME NEW n \in Nat, NEW rd, n = Len(rd), \A i \in 1 .. n : AreKept(Reading_(rd[i]))
  PROVE  AreKept(ReadingsRules(rd))
  <1> DEFINE g == [i \in 1 .. n |-> Reading_(rd[i])]
             S == UNION {Range(g[i]) : i \in 1 .. n}
             body(f) == [i \in 0 .. n |-> IF i = 0 THEN <<>> ELSE f[i - 1] \o Reading_(rd[i])]
             upto == CHOOSE f : f = body(f)
  <1>1. ASSUME NEW i \in 1 .. n
        PROVE  g[i] \in Seq(Range(g[i])) /\ \A rule \in Range(g[i]) : IsKept(rule)
    <2>1. PICK rules : rules = g[i]
      OBVIOUS
    <2>2. PICK R : rules \in Seq(R) /\ \A rule \in R : IsKept(rule)
      <3>1. AreKept(rules)
        BY <2>1
      <3> QED BY <3>1 DEF AreKept
    <2>3. rules \in Seq(Range(rules)) /\ Range(rules) \subseteq R
      BY <2>2 DEF Range
    <2> HIDE DEF g
    <2> QED BY <2>1, <2>2, <2>3
  <1>2. \A rule \in S : IsKept(rule)
    <2> HIDE DEF g
    <2> QED BY <1>1
  <1>3. g \in [1 .. n -> Seq(S)]
    <2>1. ASSUME NEW i \in 1 .. n PROVE g[i] \in Seq(S)
      <3>1. PICK rules, R : rules = g[i] /\ R = Range(g[i])
        OBVIOUS
      <3>2. rules \in Seq(R) /\ R \subseteq S
        <4> HIDE DEF g
        <4> QED BY <1>1, <3>1
      <3> HIDE DEF g, S
      <3> QED BY <3>1, <3>2
    <2>2. g = [i \in 1 .. n |-> g[i]]
      OBVIOUS
    <2> HIDE DEF g, S
    <2> QED BY <2>1, <2>2
  <1> HIDE DEF S
  <1>4. PICK e : e = <<>>
    OBVIOUS
  <1>5. ReadingsRules(rd) = upto[n]
    BY DEF ReadingsRules
  <1>6. e \in Seq(S) /\ \A i \in 1 .. n : g[i] = Reading_(rd[i])
    BY <1>4
  <1> HIDE DEF g
  <1>7. PICK u \in [0 .. n -> Seq(S)] : u[0] = e /\ \A i \in 1 .. n : u[i] = u[i - 1] \o g[i]
    <2>1. Adds(n, S, e, g) # {}
      BY <1>3, <1>6, PiecesAreAdded
    <2> QED BY <2>1 DEF Adds
  <1>8. u = body(u)
    <2>1. ASSUME NEW i \in 0 .. n PROVE u[i] = IF i = 0 THEN <<>> ELSE u[i - 1] \o Reading_(rd[i])
      <3>1. i = 0 \/ i \in 1 .. n
        OBVIOUS
      <3> QED BY <1>4, <1>7, <1>6, <3>1
    <2> QED BY <1>7, <2>1
  <1>9. upto = body(upto)
    <2> HIDE DEF body
    <2> QED BY <1>8
  <1>10. \A i \in 0 .. n : upto[i] = IF i = 0 THEN <<>> ELSE upto[i - 1] \o Reading_(rd[i])
    <2> HIDE DEF upto
    <2> QED BY <1>9
  <1> HIDE DEF upto
  <1>11. upto[0] \in Seq(S)
    <2>1. 0 \in 0 .. n
      OBVIOUS
    <2>2. upto[0] = <<>>
      BY <1>10, <2>1
    <2> QED BY <1>4, <1>6, <2>2
  <1>12. \A i \in 1 .. n : upto[i - 1] \in Seq(S) => upto[i] \in Seq(S)
    <2> SUFFICES ASSUME NEW i \in 1 .. n, upto[i - 1] \in Seq(S) PROVE upto[i] \in Seq(S)
      OBVIOUS
    <2>1. i \in 0 .. n /\ i # 0 /\ g[i] \in Seq(S)
      BY <1>3
    <2>2. upto[i] = upto[i - 1] \o g[i]
      BY <1>10, <1>6, <2>1
    <2> QED BY <2>1, <2>2
  <1>13. upto[n] \in Seq(S)
    BY <1>11, <1>12, AddedPieces
  <1> QED BY <1>2, <1>5, <1>13 DEF AreKept

\* A flag is of one of four groups, or of none.
LEMMA GroupIsNumbered ==
  ASSUME NEW t
  PROVE  Group(t) \in Option(0 .. 3)
  <1>1. Group(t) \in {0, 1, 2, 3, NONE}
    BY Zenon DEF Group
  <1>2. {0, 1, 2, 3} \subseteq 0 .. 3
    OBVIOUS
  <1> QED BY <1>1, <1>2 DEF Option

\* The flags that are taken are of a group each, and a list of them is a list.
LEMMA FlagsAreTaken ==
  ASSUME NEW S, AllValues(S), NEW v \in S, v # NONE, v.kind = "array",
         \A item \in Range(v.items) : item.kind = "string",
         Flags(FlagTexts(v)) \intersect Departures = {}
  PROVE  /\ GivenFlags(v) # NONE
         /\ \A i \in DOMAIN GivenFlags(v) : GivenFlags(v)[i].group # NONE
  <1>1. PICK w : w = v.items
    OBVIOUS
  <1>2. w \in Seq(S)
    BY <1>1 DEF AllValues, IsOpen, IsNode
  <1>3. PICK texts : texts = FlagTexts(v)
    OBVIOUS
  <1>4. ASSUME NEW i \in DOMAIN w
        PROVE  w[i].kind = "string" /\ Decode(w[i].raw) \in Seq(Symbols)
    <2>1. w[i] \in S /\ w[i] \in Range(w)
      BY <1>2 DEF Range
    <2>2. w[i].raw \in Seq(Symbols)
      BY <2>1 DEF AllValues, IsOpen, IsNode
    <2> QED BY <1>1, <2>1, <2>2, DecodeIsText
  <1>5. texts = [i \in DOMAIN w |-> Decode(w[i].raw)]
    <2>1. texts = [i \in DOMAIN w |-> IF w[i].kind = "string" THEN Decode(w[i].raw) ELSE NONE]
      BY <1>1, <1>3 DEF FlagTexts
    <2> QED BY <1>4, <2>1
  <1>6. \A i \in DOMAIN w : texts[i] # NONE /\ texts[i] = Decode(w[i].raw)
    BY <1>4, <1>5, SymbolsAssumption
  <1>7. \A i \in DOMAIN w : Group(Decode(w[i].raw)) # NONE
    <2>1. PICK named : named = {i \in DOMAIN texts : texts[i] # NONE}
      OBVIOUS
    <2>2. Report("UndefinedTableValue", \E i \in named : Group(texts[i]) = NONE) \subseteq Flags(texts)
      BY <2>1 DEF Flags
    <2>3. "UndefinedTableValue" \in Departures
      BY DEF Departures
    <2>4. ~ \E i \in named : Group(texts[i]) = NONE
      BY <1>3, <2>2, <2>3 DEF Report
    <2>5. DOMAIN texts = DOMAIN w
      BY <1>5
    <2> QED BY <1>6, <2>1, <2>4, <2>5
  <1>8. PICK flags : flags = GivenFlags(v)
    OBVIOUS
  <1>9. flags = [i \in DOMAIN w |-> GivenFlag(Decode(w[i].raw))]
    BY <1>1, <1>8 DEF GivenFlags
  <1>10. flags \in Seq([group : Option(0 .. 3), text : Seq(Symbols)])
    <2>1. ASSUME NEW i \in DOMAIN w
          PROVE  GivenFlag(Decode(w[i].raw)) \in [group : Option(0 .. 3), text : Seq(Symbols)]
      <3>1. PICK t \in Seq(Symbols) : t = Decode(w[i].raw)
        BY <1>4
      <3> QED BY <3>1, GroupIsNumbered DEF GivenFlag, Flag
    <2>2. PICK n \in Nat : n = Len(w) /\ DOMAIN w = 1 .. n
      BY <1>2
    <2>3. PICK R : R = [group : Option(0 .. 3), text : Seq(Symbols)]
      OBVIOUS
    <2>4. flags \in [1 .. n -> R]
      BY <1>9, <2>1, <2>2, <2>3
    <2>5. flags \in Seq(R)
      BY <2>4
    <2> QED BY <2>3, <2>5
  <1>11. flags # NONE
    BY <1>10, FlagsAssumption
  <1>12. \A i \in DOMAIN flags : flags[i].group # NONE
    BY <1>7, <1>9 DEF GivenFlag, Flag
  <1> QED BY <1>8, <1>11, <1>12

\* What is kept of the readings are values.
LEMMA ItemsAreValues ==
  ASSUME NEW S, AllValues(S), NEW v, v # NONE => v \in S,
         Readings(v) \intersect Departures = {}
  PROVE  Items(v) \in Seq(S)
  <1>1. {"FieldTypeMismatch", "ReadingsMissing"} \subseteq Departures
    BY DEF Departures
  <1>2. v # NONE /\ v.kind = "array" /\ Items(v) = Kept(v)
    BY <1>1 DEF Readings, Typed, Report
  <1>3. PICK w : w = v.items
    OBVIOUS
  <1>4. w \in Seq(S)
    BY <1>2, <1>3 DEF AllValues, IsOpen, IsNode
  <1>5. PICK n \in Nat : n = Limits.readings
    BY LimitsAssumption
  <1>6. Items(v) = SubSeq(w, 1, IF Len(w) <= n THEN Len(w) ELSE n)
    BY <1>2, <1>3, <1>5 DEF Kept
  <1>7. CASE Len(w) <= n
    BY <1>4, <1>6, <1>7
  <1>8. CASE ~(Len(w) <= n)
    BY <1>4, <1>6, <1>8
  <1> QED BY <1>7, <1>8

\* The fields of a record that Strict reads are fields that validate accepts.
LEMMA TakenIsBuildable ==
  ASSUME NEW o, IsTree(o), NEW all, Rejected("Strict", all) = {}, PayloadDeviations(o) \subseteq all
  PROVE  Validate(Given(o)) \in {NONE} \union Tolerated
  <1>1. PICK S : AllValues(S) /\ o \in S
    BY DEF IsTree
  <1>2. PICK v, t : v = Members(o) /\ t = Texts(o)
    OBVIOUS
  <1>3. PICK b : b = Given(o)
    OBVIOUS
  <1>4. \A key \in KNOWN_KEYS : v[key] = Get(o, key) /\ (v[key] # NONE => v[key] \in S)
    BY <1>1, <1>2, GetIsValue DEF Members, Has
  <1>5. \A key \in TextKeys : t[key] = TextOf(v[key])
    BY <1>2, <1>4 DEF Texts, TextKeys
  <1>6. {"IS", "IF", "LC", "RD"} \subseteq KNOWN_KEYS
    BY DEF KNOWN_KEYS
  <1>7. AreTaken(v, t)
    <2>1. Blocks(v, t) \intersect Departures = {}
      BY <1>2, StrictRefuses DEF PayloadDeviations
    <2>2. KeepsMembers(v, t)
      BY <1>2, MembersAreKept
    <2> QED BY <1>5, <2>1, <2>2 DEF AreTaken
  <1>8. /\ b.texts = t
        /\ b.assigned = (IF Has(o, "IS") THEN AsWritten(o, "IS") = <<"true">> ELSE NONE)
        /\ b.flags = GivenFlags(v["IF"])
        /\ b.loss = GivenLoss(v["LC"])
        /\ b.readings = GivenReadings(Items(v["RD"]))
    BY <1>2, <1>3, <1>4, <1>6 DEF Given
  <1>9. b.assigned # NONE <=> v["IS"] # NONE
    <2>1. CASE Has(o, "IS")
      <3>1. b.assigned \in BOOLEAN
        BY <1>8, <2>1
      <3> QED BY <1>4, <1>6, <2>1, <3>1, FlagsAssumption DEF Has
    <2>2. CASE ~Has(o, "IS")
      BY <1>4, <1>6, <1>8, <2>2 DEF Has
    <2> QED BY <2>1, <2>2
  <1>10. /\ b.flags # NONE <=> v["IF"] # NONE
         /\ b.flags # NONE => \A i \in DOMAIN b.flags : b.flags[i].group # NONE
    <2>1. PICK f : f = v["IF"]
      OBVIOUS
    <2>2. CASE f = NONE
      BY <1>8, <2>1, <2>2 DEF GivenFlags
    <2>3. CASE f # NONE
      <3>1. f \in S
        BY <1>4, <1>6, <2>1, <2>3
      <3>2. f.kind = "array" /\ \A item \in Range(f.items) : item.kind = "string"
        BY <1>7, <2>1, <2>3 DEF AreTaken, KeepsMembers
      <3>3. Flags(FlagTexts(f)) \intersect Departures = {}
        BY <1>7, <2>1 DEF AreTaken, Blocks, Assignment
      <3>4. GivenFlags(f) # NONE /\ \A i \in DOMAIN GivenFlags(f) : GivenFlags(f)[i].group # NONE
        BY <1>1, <2>3, <3>1, <3>2, <3>3, FlagsAreTaken
      <3> QED BY <1>8, <2>1, <2>3, <3>4
    <2> QED BY <2>2, <2>3
  <1>11. b.loss # NONE => v["LC"] # NONE /\ v["LC"] \in S /\ b.loss = GivenLoss(v["LC"])
    <2>1. GivenLoss(NONE) = NONE
      BY DEF GivenLoss
    <2> QED BY <1>4, <1>6, <1>8, <2>1
  <1>12. AreKept(Shape(b))
    BY <1>7, <1>8, ShapeIsKept
  <1>13. AreKept(UserAssignment(b))
    BY <1>7, <1>8, <1>9, <1>10, UserAssignmentIsKept
  <1>14. AreKept(ChargePointAndBounds(b))
    BY <1>1, <1>7, <1>8, <1>11, BoundsAreKept
  <1>15. AreKept(ReadingsRules(b.readings))
    <2>1. PICK given, rd : given = Items(v["RD"]) /\ rd = b.readings
      OBVIOUS
    <2>2. ItemsDeviations(given) \intersect Departures = {}
      BY <1>7, <2>1 DEF AreTaken, Blocks, Readings
    <2>3. given \in Seq(S)
      BY <1>1, <1>4, <1>6, <1>7, <2>1, ItemsAreValues DEF AreTaken, Blocks
    <2>4. PICK n \in Nat : n = Len(given) /\ DOMAIN given = 1 .. n
      BY <2>3
    <2>5. rd = [k \in 1 .. n |-> GivenReading(given, k)]
      BY <1>8, <2>1, <2>4 DEF GivenReadings
    <2>6. n = Len(rd)
      BY <2>5
    <2>7. ASSUME NEW k \in 1 .. n PROVE AreKept(Reading_(rd[k]))
      <3>1. k \in Nat /\ k \in DOMAIN given /\ rd[k] = GivenReading(given, k)
        BY <2>4, <2>5
      <3> QED BY <2>2, <2>3, <3>1, ReadingIsKept
    <2> QED BY <2>1, <2>6, <2>7, ReadingsAreRuled
  <1> DEFINE a == Rule(Cardinality(Marking(b.readings, Begins)) <= 1, "TransactionMarkers")
             c == Rule(Cardinality(Marking(b.readings, Ends)) <= 1, "TransactionMarkers")
  <1>16. IsKept(a) /\ IsKept(c)
    BY DEF IsKept, Rule, Tolerated
  <1>17. Validate(b) = IF FirstBroken(Shape(b)) # NONE THEN FirstBroken(Shape(b))
                       ELSE FirstBroken(UserAssignment(b) \o ChargePointAndBounds(b)
                                          \o ReadingsRules(b.readings) \o <<a, c>>)
    BY DEF Validate
  <1> HIDE DEF a, c
  <1>18. AreKept(<<a, c>>)
    <2>1. PICK R : R = {a, c}
      OBVIOUS
    <2>2. <<a, c>> \in Seq(R) /\ \A rule \in R : IsKept(rule)
      BY <1>16, <2>1
    <2> QED BY <2>2 DEF AreKept
  <1>19. AreKept(UserAssignment(b) \o ChargePointAndBounds(b) \o ReadingsRules(b.readings) \o <<a, c>>)
    <2>1. AreKept(UserAssignment(b) \o ChargePointAndBounds(b))
      BY <1>13, <1>14, MoreRules
    <2>2. AreKept(UserAssignment(b) \o ChargePointAndBounds(b) \o ReadingsRules(b.readings))
      BY <1>15, <2>1, MoreRules
    <2> QED BY <1>18, <2>2, MoreRules
  <1> QED BY <1>3, <1>12, <1>17, <1>19, FirstBrokenIsTolerated

\* What Strict reads a station could have built: the fields of a record that is read under
\* Strict are fields that validate accepts, save that there may be no readings and more
\* than one begin or end (sign.rs, validate; payload/mod.rs, from_object).
THEOREM StrictIsAlwaysBuildable == Spec => []StrictIsBuildable
  <1>1. Judging => StrictIsBuildable
    <2> SUFFICES ASSUME Judging, section = "done", verdict = "Read", profile = "Strict"
                 PROVE  Validate(Given(payload.tree)) \in {NONE, "NoReadings", "TransactionMarkers"}
      BY DEF StrictIsBuildable
    <2>1. IsTree(payload.tree) /\ Rejected("Strict", dev) = {} /\ PayloadDeviations(payload.tree) \subseteq dev
      BY DEF Judging, IsRead
    <2>2. Validate(Given(payload.tree)) \in {NONE} \union Tolerated
      BY <2>1, TakenIsBuildable
    <2> QED BY <2>2 DEF Tolerated
  <1> QED BY <1>1, JudgingAlways, PTL

-----------------------------------------------------------------------------
(***************************************************************************)
(* What is inside a value: a path leads there over items.                  *)
(***************************************************************************)
\* c is a path of n steps from v to w.
IsPath(c, n, v, w) ==
  c[0] = v /\ c[n] = w /\ \A i \in 0 .. n - 1 : c[i + 1] \in Range(c[i].items)

Leads(v, n, w) == \E c : IsPath(c, n, v, w)

\* No path from v has more than n steps.
Nests(v, n) == \A k \in Nat : \A w : Leads(v, k, w) => k <= n

\* A path without a step.
LEMMA NoSteps ==
  ASSUME NEW v, NEW w
  PROVE  Leads(v, 0, w) <=> v = w
  <1>1. ASSUME v = w PROVE Leads(v, 0, w)
    <2> DEFINE c == [i \in {0} |-> v]
    <2>1. c[0] = v
      OBVIOUS
    <2> HIDE DEF c
    <2>2. IsPath(c, 0, v, w)
      BY <1>1, <2>1 DEF IsPath
    <2> QED BY <2>2 DEF Leads
  <1>2. ASSUME Leads(v, 0, w) PROVE v = w
    BY <1>2 DEF Leads, IsPath
  <1> QED BY <1>1, <1>2

\* The first step of a path.
LEMMA FirstStep ==
  ASSUME NEW v, NEW n \in Nat, NEW w
  PROVE  Leads(v, n + 1, w) <=> \E u \in Range(v.items) : Leads(u, n, w)
  <1>1. ASSUME Leads(v, n + 1, w) PROVE \E u \in Range(v.items) : Leads(u, n, w)
    <2>1. PICK c : IsPath(c, n + 1, v, w)
      BY <1>1 DEF Leads
    <2> DEFINE d == [i \in 0 .. n |-> c[i + 1]]
    <2>2. \A i \in 0 .. n : d[i] = c[i + 1]
      OBVIOUS
    <2> HIDE DEF d
    <2>3. c[0] = v /\ c[n + 1] = w /\ \A i \in 0 .. n : c[i + 1] \in Range(c[i].items)
      BY <2>1 DEF IsPath
    <2>4. d[0] = c[1] /\ d[n] = w
      BY <2>2, <2>3
    <2>5. \A i \in 0 .. n - 1 : d[i + 1] \in Range(d[i].items)
      <3> SUFFICES ASSUME NEW i \in 0 .. n - 1 PROVE d[i + 1] \in Range(d[i].items)
        OBVIOUS
      <3>1. PICK j : j = i + 1
        OBVIOUS
      <3>2. j \in 0 .. n /\ i \in 0 .. n
        BY <3>1
      <3>3. d[i] = c[j] /\ d[j] = c[j + 1]
        BY <2>2, <3>1, <3>2
      <3>4. c[j + 1] \in Range(c[j].items)
        BY <2>3, <3>2
      <3> QED BY <3>1, <3>3, <3>4
    <2>6. IsPath(d, n, c[1], w)
      BY <2>4, <2>5 DEF IsPath
    <2>7. c[1] \in Range(v.items)
      <3>1. 0 \in 0 .. n
        OBVIOUS
      <3>2. c[0 + 1] \in Range(c[0].items)
        BY <2>3, <3>1
      <3> QED BY <2>3, <3>2
    <2> QED BY <2>6, <2>7 DEF Leads
  <1>2. ASSUME NEW u \in Range(v.items), Leads(u, n, w) PROVE Leads(v, n + 1, w)
    <2>1. PICK c : IsPath(c, n, u, w)
      BY <1>2 DEF Leads
    <2> DEFINE d == [i \in 0 .. n + 1 |-> IF i = 0 THEN v ELSE c[i - 1]]
    <2>2. d[0] = v /\ \A i \in 1 .. n + 1 : d[i] = c[i - 1]
      OBVIOUS
    <2> HIDE DEF d
    <2>3. c[0] = u /\ c[n] = w /\ \A i \in 0 .. n - 1 : c[i + 1] \in Range(c[i].items)
      BY <2>1 DEF IsPath
    <2>4. d[n + 1] = w
      BY <2>2, <2>3
    <2>5. d[1] = u
      BY <2>2, <2>3
    <2>6. \A i \in 0 .. n : d[i + 1] \in Range(d[i].items)
      <3> SUFFICES ASSUME NEW i \in 0 .. n PROVE d[i + 1] \in Range(d[i].items)
        OBVIOUS
      <3>1. CASE i = 0
        BY <1>2, <2>2, <2>5, <3>1
      <3>2. CASE i # 0
        <4>1. PICK j : j = i - 1
          OBVIOUS
        <4>2. j \in 0 .. n - 1 /\ i \in 1 .. n + 1 /\ i + 1 \in 1 .. n + 1
          BY <3>2, <4>1
        <4>3. d[i] = c[j] /\ d[i + 1] = c[j + 1]
          <5>1. i + 1 - 1 = j + 1
            BY <4>1, <4>2
          <5> QED BY <2>2, <4>1, <4>2, <5>1
        <4>4. c[j + 1] \in Range(c[j].items)
          BY <2>3, <4>2
        <4> QED BY <4>3, <4>4
      <3> QED BY <3>1, <3>2
    <2>7. IsPath(d, n + 1, v, w)
      BY <2>2, <2>4, <2>6 DEF IsPath
    <2> QED BY <2>7 DEF Leads
  <1> QED BY <1>1, <1>2

\* One step more.
LEMMA LastStep ==
  ASSUME NEW v, NEW n \in Nat, NEW u, Leads(v, n, u), NEW w \in Range(u.items)
  PROVE  Leads(v, n + 1, w)
  <1>1. PICK c : IsPath(c, n, v, u)
    BY DEF Leads
  <1> DEFINE d == [i \in 0 .. n + 1 |-> IF i = n + 1 THEN w ELSE c[i]]
  <1>2. d[n + 1] = w /\ \A i \in 0 .. n : d[i] = c[i]
    OBVIOUS
  <1> HIDE DEF d
  <1>3. c[0] = v /\ c[n] = u /\ \A i \in 0 .. n - 1 : c[i + 1] \in Range(c[i].items)
    BY <1>1 DEF IsPath
  <1>4. d[0] = v
    BY <1>2, <1>3
  <1>5. \A i \in 0 .. n : d[i + 1] \in Range(d[i].items)
    <2> SUFFICES ASSUME NEW i \in 0 .. n PROVE d[i + 1] \in Range(d[i].items)
      OBVIOUS
    <2>1. CASE i = n
      BY <1>2, <1>3, <2>1
    <2>2. CASE i # n
      <3>1. i \in 0 .. n - 1 /\ i + 1 \in 0 .. n
        BY <2>2
      <3> QED BY <1>2, <1>3, <3>1
    <2> QED BY <2>1, <2>2
  <1>6. IsPath(d, n + 1, v, w)
    BY <1>2, <1>4, <1>5 DEF IsPath
  <1> QED BY <1>6 DEF Leads

\* The last step of a path.
LEMMA OneStepBefore ==
  ASSUME NEW v, NEW n \in Nat, n > 0, NEW w, Leads(v, n, w)
  PROVE  \E u : Leads(v, n - 1, u) /\ w \in Range(u.items)
  <1>1. PICK c : IsPath(c, n, v, w)
    BY DEF Leads
  <1>2. PICK m \in Nat : m = n - 1
    <2>1. n - 1 \in Nat
      OBVIOUS
    <2> QED BY <2>1
  <1>3. m \in 0 .. n - 1 /\ m + 1 = n /\ \A i \in 0 .. m - 1 : i \in 0 .. n - 1
    BY <1>2
  <1>4. w \in Range(c[m].items)
    BY <1>1, <1>3 DEF IsPath
  <1>5. IsPath(c, m, v, c[m])
    BY <1>1, <1>3 DEF IsPath
  <1> QED BY <1>2, <1>4, <1>5 DEF Leads

\* A value nests one level more than its items.
LEMMA NestsAsItems ==
  ASSUME NEW v, NEW n \in Nat, \A u \in Range(v.items) : Nests(u, n - 1)
  PROVE  Nests(v, n)
  <1> SUFFICES ASSUME NEW k \in Nat, NEW w, Leads(v, k, w) PROVE k <= n
    BY DEF Nests
  <1>1. CASE k = 0
    BY <1>1
  <1>2. CASE k # 0
    <2>1. PICK j \in Nat : k = j + 1
      <3>1. k - 1 \in Nat /\ k = k - 1 + 1
        BY <1>2
      <3> QED BY <3>1
    <2>2. PICK u \in Range(v.items) : Leads(u, j, w)
      BY <2>1, FirstStep
    <2>3. j <= n - 1
      BY <2>2 DEF Nests
    <2> QED BY <2>1, <2>3
  <1> QED BY <1>1, <1>2

\* And its items one less than it.
LEMMA ItemsNest ==
  ASSUME NEW v, NEW n \in Nat, Nests(v, n), NEW u \in Range(v.items)
  PROVE  Nests(u, n - 1)
  <1> SUFFICES ASSUME NEW k \in Nat, NEW w, Leads(u, k, w) PROVE k <= n - 1
    BY DEF Nests
  <1>1. Leads(v, k + 1, w)
    BY FirstStep
  <1>2. k + 1 <= n
    BY <1>1 DEF Nests
  <1> QED BY <1>2

-----------------------------------------------------------------------------
(***************************************************************************)
(* What a value shows, or something inside it.                             *)
(***************************************************************************)
Twice(o) == Cardinality({Decode(name) : name \in Range(o.names)}) < Len(o.names)
ZeroLed(raw) == Len(raw) > 1 /\ raw[1] = "0" /\ raw[2] \in Digit
IsZeroLed(v) == v.kind = "number" /\ ZeroLed(IF v.raw[1] = "-" THEN Tail(v.raw) ELSE v.raw)

\* What is about a value, as opposed to a character.
OfValues == {"DuplicateKey", "NonCanonicalNumber"}

Shows(v, x) == IF x = "DuplicateKey" THEN Twice(v) ELSE IsZeroLed(v)
Exhibits(v, x) == \E n \in Nat : \E w : Leads(v, n, w) /\ Shows(w, x)

\* Either it does itself or one of its items does.
LEMMA HoldsAsItems ==
  ASSUME NEW v, NEW x
  PROVE  Exhibits(v, x) <=> Shows(v, x) \/ \E u \in Range(v.items) : Exhibits(u, x)
  <1>1. ASSUME NEW n \in Nat, NEW w, Leads(v, n, w), Shows(w, x)
        PROVE  Shows(v, x) \/ \E u \in Range(v.items) : Exhibits(u, x)
    <2>1. CASE n = 0
      BY <1>1, <2>1, NoSteps
    <2>2. CASE n # 0
      <3>1. PICK j \in Nat : n = j + 1
        <4>1. n - 1 \in Nat /\ n = n - 1 + 1
          BY <2>2
        <4> QED BY <4>1
      <3>2. PICK u \in Range(v.items) : Leads(u, j, w)
        BY <1>1, <3>1, FirstStep
      <3> QED BY <1>1, <3>2 DEF Exhibits
    <2> QED BY <2>1, <2>2
  <1>2. ASSUME Shows(v, x) PROVE Exhibits(v, x)
    <2>1. Leads(v, 0, v) /\ 0 \in Nat
      BY NoSteps
    <2> QED BY <1>2, <2>1 DEF Exhibits
  <1>3. ASSUME NEW u \in Range(v.items), Exhibits(u, x) PROVE Exhibits(v, x)
    <2>1. PICK n \in Nat : \E w : Leads(u, n, w) /\ Shows(w, x)
      BY <1>3 DEF Exhibits
    <2>2. PICK w : Leads(u, n, w) /\ Shows(w, x)
      BY <2>1
    <2>3. Leads(v, n + 1, w) /\ n + 1 \in Nat
      BY <2>2, FirstStep
    <2> QED BY <2>2, <2>3 DEF Exhibits
  <1> QED BY <1>1, <1>2, <1>3 DEF Exhibits

\* The values of both sections are what paths from the two lead to.
LEMMA ValuesAreInside ==
  ASSUME \A t \in {payload.tree, signature.tree} : Nests(t, Bound), NEW v
  PROVE  v \in Values <=> \E t \in {payload.tree, signature.tree} : \E n \in Nat : Leads(t, n, v)
  <1> DEFINE T == {payload.tree, signature.tree}
             body(u, m) == [n \in 0 .. m |-> IF n = 0 THEN T ELSE Inside(u[n - 1])]
             Upto(m) == \E u : u = body(u, m)
             last == CHOOSE u : u = body(u, Bound)
  <1>1. Bound \in Nat
    BY LimitsAssumption DEF Bound
  <1>2. Upto(0)
    <2> DEFINE u == [n \in 0 .. 0 |-> T]
    <2>1. u = body(u, 0)
      OBVIOUS
    <2> QED BY <2>1
  <1>3. ASSUME NEW m \in Nat, Upto(m) PROVE Upto(m + 1)
    <2>1. PICK u : u = body(u, m)
      BY <1>3
    <2> DEFINE w == [n \in 0 .. m + 1 |-> IF n = m + 1 THEN Inside(u[m]) ELSE u[n]]
    <2> HIDE DEF T
    <2>2. u[0] = T /\ \A n \in 1 .. m : u[n] = Inside(u[n - 1])
      BY <2>1
    <2>3. w[0] = T /\ (\A n \in 0 .. m : w[n] = u[n]) /\ w[m + 1] = Inside(u[m])
      BY <2>2
    <2>4. \A n \in 1 .. m + 1 : w[n] = Inside(w[n - 1])
      <3> HIDE DEF w
      <3> SUFFICES ASSUME NEW n \in 1 .. m + 1 PROVE w[n] = Inside(w[n - 1])
        OBVIOUS
      <3>1. CASE n = m + 1
        BY <2>3, <3>1
      <3>2. CASE n # m + 1
        <4>1. n \in 1 .. m /\ n \in 0 .. m /\ n - 1 \in 0 .. m
          BY <3>2
        <4> QED BY <2>2, <2>3, <4>1
      <3> QED BY <3>1, <3>2
    <2>5. w = [n \in 0 .. m + 1 |-> w[n]]
      OBVIOUS
    <2>6. \A n \in 0 .. m + 1 : w[n] = IF n = 0 THEN T ELSE Inside(w[n - 1])
      <3> HIDE DEF w
      <3> QED BY <2>3, <2>4
    <2>7. w = body(w, m + 1)
      <3> HIDE DEF w
      <3> QED BY <2>5, <2>6
    <2> QED BY <2>7
  <1>4. Upto(Bound)
    <2> DEFINE Failing == {m \in Nat : ~Upto(m)}
    <2> HIDE DEF Upto
    <2>1. Failing = {}
      <3>1. SUFFICES ASSUME Failing # {} PROVE FALSE
        OBVIOUS
      <3>2. PICK m \in Failing : \A k \in Failing : m <= k
        <4>1. Failing \in SUBSET Nat
          OBVIOUS
        <4> HIDE DEF Failing
        <4> QED BY <3>1, <4>1, LeastExists
      <3>3. m \in Nat /\ ~Upto(m) /\ m # 0
        BY <1>2
      <3>4. m - 1 \in Nat /\ m - 1 + 1 = m
        BY <3>3
      <3>5. Upto(m - 1)
        BY <3>2, <3>4
      <3> QED BY <1>3, <3>3, <3>4, <3>5
    <2> QED BY <1>1, <2>1
  <1>5. last = body(last, Bound)
    <2> HIDE DEF body
    <2> QED BY <1>4
  <1>6. Values = last[Bound]
    BY DEF Values
  <1> HIDE DEF T
  <1>7. last[0] = T /\ \A n \in 1 .. Bound : last[n] = Inside(last[n - 1])
    <2> HIDE DEF last
    <2> QED BY <1>1, <1>5
  <1> HIDE DEF last, body, Upto
  <1> DEFINE From(n) == \A w : w \in last[n] <=> \E t \in T : \E k \in 0 .. n : Leads(t, k, w)
             Wrong == {n \in 0 .. Bound : ~From(n)}
  <1>8. From(0)
    <2>1. \A k \in 0 .. 0 : k = 0
      OBVIOUS
    <2>2. 0 \in 0 .. 0
      OBVIOUS
    <2> QED BY <1>7, <2>1, <2>2, NoSteps
  <1>9. ASSUME NEW n \in 1 .. Bound, From(n - 1) PROVE From(n)
    <2>0. n - 1 \in Nat /\ n \in Nat
      BY <1>1
    <2> SUFFICES ASSUME NEW w PROVE w \in last[n] <=> \E t \in T : \E k \in 0 .. n : Leads(t, k, w)
      OBVIOUS
    <2>1. w \in last[n] <=> w \in last[n - 1] \/ \E u \in last[n - 1] : w \in Range(u.items)
      BY <1>7 DEF Inside
    <2>2. ASSUME w \in last[n - 1] PROVE \E t \in T : \E k \in 0 .. n : Leads(t, k, w)
      <3>1. PICK t \in T : \E k \in 0 .. n - 1 : Leads(t, k, w)
        BY <1>9, <2>2
      <3>2. PICK k \in 0 .. n - 1 : Leads(t, k, w)
        BY <3>1
      <3>3. k \in 0 .. n
        BY <2>0
      <3> QED BY <3>2, <3>3
    <2>3. ASSUME NEW u \in last[n - 1], w \in Range(u.items) PROVE \E t \in T : \E k \in 0 .. n : Leads(t, k, w)
      <3>1. PICK t \in T : \E k \in 0 .. n - 1 : Leads(t, k, u)
        BY <1>9
      <3>2. PICK k \in 0 .. n - 1 : Leads(t, k, u)
        BY <3>1
      <3>3. k \in Nat /\ k + 1 \in 0 .. n
        BY <2>0
      <3>4. Leads(t, k + 1, w)
        BY <2>3, <3>2, <3>3, LastStep
      <3> QED BY <3>3, <3>4
    <2>4. ASSUME NEW t \in T, NEW k \in 0 .. n, Leads(t, k, w) PROVE w \in last[n]
      <3>1. CASE k \in 0 .. n - 1
        <4>1. w \in last[n - 1]
          BY <1>9, <2>4, <3>1
        <4> QED BY <2>1, <4>1
      <3>2. CASE k = n
        <4>1. PICK u : Leads(t, n - 1, u) /\ w \in Range(u.items)
          BY <2>0, <2>4, <3>2, OneStepBefore
        <4>2. n - 1 \in 0 .. n - 1
          BY <2>0
        <4>3. u \in last[n - 1]
          BY <1>9, <4>1, <4>2
        <4> QED BY <2>1, <4>1, <4>3
      <3>3. k \in 0 .. n - 1 \/ k = n
        BY <2>0
      <3> QED BY <3>1, <3>2, <3>3
    <2> QED BY <2>1, <2>2, <2>3, <2>4
  <1>10. Wrong = {}
    <2>1. SUFFICES ASSUME Wrong # {} PROVE FALSE
      OBVIOUS
    <2>2. PICK n \in Wrong : \A k \in Wrong : n <= k
      <3>1. Wrong \in SUBSET Nat
        BY <1>1
      <3> HIDE DEF Wrong
      <3> QED BY <2>1, <3>1, LeastExists
    <2> HIDE DEF From
    <2>3. n \in 0 .. Bound /\ ~From(n) /\ n # 0
      BY <1>8
    <2>4. n \in 1 .. Bound /\ n - 1 \in 0 .. Bound /\ ~(n <= n - 1)
      BY <1>1, <2>3
    <2>5. From(n - 1)
      BY <2>2, <2>4
    <2> QED BY <1>9, <2>3, <2>4, <2>5
  <1>11. From(Bound)
    <2> HIDE DEF From
    <2>1. Bound \in 0 .. Bound
      BY <1>1
    <2> QED BY <1>10, <2>1
  <1>12. \A t \in T, k \in Nat : Leads(t, k, v) => k \in 0 .. Bound
    BY <1>1 DEF Nests, T
  <1>13. \A k \in 0 .. Bound : k \in Nat
    BY <1>1
  <1>14. v \in Values <=> \E t \in T : \E n \in Nat : Leads(t, n, v)
    BY <1>6, <1>11, <1>12, <1>13
  <1> QED BY <1>14 DEF T

-----------------------------------------------------------------------------
(***************************************************************************)
(* What the reader reports of the values it reads.                         *)
(***************************************************************************)
\* A number that is read has a leading zero if the reader says so.
LEMMA ZeroIsFound ==
  ASSUME text \in Seq(Symbols), pos \in 1 .. Len(text) + 1, NumberEnd # NONE, Peek \in Digit \union {"-"}
  PROVE  IsZeroLed(Atom("number", pos, NumberEnd, SubSeq(text, pos, NumberEnd - 1))) <=> LeadingZero
  <1>1. PICK i, k, e : i = IntegerStart /\ k = IntegerEnd /\ e = NumberEnd
    OBVIOUS
  <1>2. Len(text) \in Nat /\ pos \in 1 .. Len(text) /\ Peek = text[pos]
    <2>1. Peek # NONE
      BY SymbolsAssumption
    <2> QED BY <2>1, PeekIsThere
  <1>3. "-" \notin Digit /\ NONE \notin Digit
    BY SymbolsAssumption DEF Digit
  <1>4. i = (IF text[pos] = "-" THEN pos + 1 ELSE pos) /\ k # NONE
    BY <1>1, <1>2 DEF IntegerStart, NumberEnd
  <1>5. k = PastAll(text, i, Digit) /\ At(text, i) \in Digit
    BY <1>1, <1>4 DEF IntegerEnd, Digits
  <1>6. i \in 1 .. Len(text) /\ At(text, i) = text[i]
    <2>1. i \in Nat /\ At(text, i) # NONE
      BY <1>2, <1>3, <1>4, <1>5
    <2> QED BY <2>1, SymbolIsThere
  <1>7. k \in i .. Len(text) + 1 /\ At(text, k) \notin Digit /\ \A j \in i .. k - 1 : text[j] \in Digit
    <2>1. i \in 1 .. Len(text) + 1
      BY <1>6
    <2> QED BY <1>3, <1>5, <2>1, PastAllFinds
  <1>8. k > i
    BY <1>5, <1>6, <1>7
  <1>9. e \in k .. Len(text) + 1
    BY <1>1, NumberGoesOn DEF Numerals
  <1> DEFINE raw == SubSeq(text, pos, e - 1)
             digits == IF raw[1] = "-" THEN Tail(raw) ELSE raw
  <1>10. raw = [j \in 1 .. e - pos |-> text[pos + j - 1]] /\ Len(raw) = e - pos /\ e - pos \in Nat /\ e - pos >= 1
    BY <1>2, <1>4, <1>6, <1>7, <1>8, <1>9
  <1>11. raw[1] = text[pos]
    <2>1. 1 \in 1 .. e - pos /\ pos + 1 - 1 = pos
      BY <1>2, <1>10
    <2> HIDE DEF raw
    <2> QED BY <1>10, <2>1
  <1>12. Len(digits) = e - i /\ \A j \in 1 .. e - i : digits[j] = text[i + j - 1]
    <2>1. CASE text[pos] = "-"
      <3>1. digits = Tail(raw) /\ i = pos + 1
        BY <1>4, <1>11, <2>1
      <3>2. Tail(raw) = SubSeq(raw, 2, Len(raw)) /\ raw \in Seq(Symbols)
        <4>1. raw \in Seq(Symbols)
          BY <1>2, <1>9, <1>6, <1>7, RawIsText
        <4> HIDE DEF raw
        <4> QED BY <1>10, <4>1
      <3>3. Len(Tail(raw)) = e - pos - 1 /\ \A j \in 1 .. e - pos - 1 : Tail(raw)[j] = raw[j + 1]
        <4> HIDE DEF raw, digits
        <4> QED BY <1>10, <3>2
      <3>4. \A j \in 1 .. e - i : j + 1 \in 1 .. e - pos /\ pos + (j + 1) - 1 = i + j - 1 /\ j \in 1 .. e - pos - 1
        BY <1>2, <1>6, <1>9, <1>7, <3>1
      <3>5. e - pos - 1 = e - i
        BY <1>2, <1>7, <1>9, <3>1
      <3> HIDE DEF raw, digits
      <3> QED BY <1>10, <3>1, <3>3, <3>4, <3>5
    <2>2. CASE text[pos] # "-"
      BY <1>4, <1>10, <1>11, <2>2
    <2> QED BY <2>1, <2>2
  <1> HIDE DEF raw, digits
  <1>13. ZeroLed(digits) <=> e - i > 1 /\ text[i] = "0" /\ text[i + 1] \in Digit
    <2>1. e - i > 1 => digits[1] = text[i] /\ digits[2] = text[i + 1]
      <3> SUFFICES ASSUME e - i > 1 PROVE digits[1] = text[i] /\ digits[2] = text[i + 1]
        OBVIOUS
      <3>1. 1 \in 1 .. e - i /\ 2 \in 1 .. e - i /\ i + 1 - 1 = i /\ i + 2 - 1 = i + 1
        BY <1>6, <1>7, <1>9
      <3> QED BY <1>12, <3>1
    <2> QED BY <1>12, <2>1 DEF ZeroLed
  <1>14. e - i > 1 /\ text[i + 1] \in Digit <=> k > i + 1
    <2>1. ASSUME k > i + 1 PROVE e - i > 1 /\ text[i + 1] \in Digit
      <3>1. i + 1 \in i .. k - 1
        BY <1>6, <1>7, <2>1
      <3> QED BY <1>6, <1>7, <1>9, <2>1, <3>1
    <2>2. ASSUME e - i > 1, text[i + 1] \in Digit, ~(k > i + 1) PROVE FALSE
      <3>1. k = i + 1
        BY <1>6, <1>7, <1>8, <2>2
      <3>2. k \in 1 .. Len(text)
        BY <1>2, <1>6, <1>7, <1>9, <2>2, <3>1
      <3>3. At(text, k) = text[k]
        BY <1>2, <3>2 DEF At
      <3> QED BY <1>7, <2>2, <3>1, <3>3
    <2> QED BY <2>1, <2>2
  <1>15. LeadingZero <=> text[i] = "0" /\ k > i + 1
    BY <1>1 DEF LeadingZero
  <1>16. IsZeroLed(Atom("number", pos, NumberEnd, SubSeq(text, pos, NumberEnd - 1))) <=> ZeroLed(digits)
    <2>1. raw = SubSeq(text, pos, NumberEnd - 1)
      BY <1>1 DEF raw
    <2> QED BY <2>1 DEF IsZeroLed, Atom, digits
  <1> QED BY <1>13, <1>14, <1>15, <1>16

\* A name more is one that was there, or the names stay as many as they are.
LEMMA NameIsTwice ==
  ASSUME NEW v, NEW w, v.names \in Seq(Seq(Symbols)), NEW raw \in Seq(Symbols), w.names = Append(v.names, raw)
  PROVE  Twice(w) <=> Twice(v) \/ IsDuplicate(raw, v.names)
  <1>1. PICK n, m, V : n = v.names /\ m = w.names /\ V = Seq(Symbols)
    OBVIOUS
  <1>2. n \in Seq(V) /\ raw \in V /\ m = Append(n, raw)
    BY <1>1
  <1>3. IsSequence(n)
    BY <1>2 DEF IsSequence, Range
  <1>4. Range(m) = Range(n) \union {raw} /\ Len(m) = Len(n) + 1 /\ Len(n) \in Nat /\ DOMAIN n = 1 .. Len(n)
    BY <1>2, <1>3, Appended
  <1> DEFINE D == {Decode(name) : name \in Range(n)}
             E == {Decode(name) : name \in Range(m)}
  <1>5. E = D \union {Decode(raw)}
    BY <1>4
  <1>6. IsFiniteSet(D) /\ Cardinality(D) <= Len(n) /\ Cardinality(D) \in Nat
    <2> DEFINE f == [i \in 1 .. Len(n) |-> Decode(n[i])]
    <2>1. f \in Surjection(1 .. Len(n), D)
      <3>1. \A i \in 1 .. Len(n) : f[i] \in D
        BY <1>4 DEF Range
      <3>2. \A d \in D : \E i \in 1 .. Len(n) : f[i] = d
        BY <1>4 DEF Range
      <3>3. f \in [1 .. Len(n) -> D]
        BY <3>1
      <3> HIDE DEF f, D
      <3> QED BY <3>2, <3>3 DEF Surjection
    <2>2. IsFiniteSet(1 .. Len(n)) /\ Cardinality(1 .. Len(n)) = Len(n)
      <3>1. PICK l \in Int : l = Len(n) /\ l >= 0
        <4>1. Len(n) \in Int /\ Len(n) >= 0
          BY <1>4
        <4> QED BY <4>1
      <3>2. PICK one \in Int : one = 1
        OBVIOUS
      <3>3. IsFiniteSet(one .. l) /\ Cardinality(one .. l) = IF one > l THEN 0 ELSE l - one + 1
        BY FS_Interval
      <3> HIDE DEF f, D, E
      <3> QED BY <3>1, <3>2, <3>3
    <2> HIDE DEF f, D
    <2> QED BY <2>1, <2>2, FS_Surjection, FS_CardinalityType
  <1>7. IsDuplicate(raw, v.names) <=> Decode(raw) \in D
    BY <1>1, <1>4 DEF IsDuplicate, Range
  <1>8. (Twice(v) <=> Cardinality(D) < Len(n)) /\ (Twice(w) <=> Cardinality(E) < Len(n) + 1)
    BY <1>1, <1>4 DEF Twice
  <1> HIDE DEF D, E
  <1>9. CASE Decode(raw) \in D
    <2>1. E = D
      BY <1>5, <1>9
    <2> QED BY <1>4, <1>6, <1>7, <1>8, <1>9, <2>1
  <1>10. CASE Decode(raw) \notin D
    <2>1. Cardinality(E) = Cardinality(D) + 1
      BY <1>5, <1>6, <1>10, FS_AddElement
    <2> QED BY <1>4, <1>6, <1>7, <1>8, <1>10, <2>1
  <1> QED BY <1>9, <1>10

-----------------------------------------------------------------------------
\* Something open exhibits x, or something inside it.
FramesExhibit(s, x) == \E i \in 1 .. Len(s) : Exhibits(s[i], x)

\* What is open is within the bound, and what is in it.
FramesFit(s) == Len(s) <= Bound /\ \A i \in 1 .. Len(s) : Nests(s[i], Bound - i + 1)

Exhibited(x) == FramesExhibit(stack, x) \/ (mode = "complete" /\ Exhibits(value, x))
Fitting      == FramesFit(stack) /\ (mode = "complete" => Nests(value, Bound))

\* After the trees in T, what is reported of values is what they exhibit.
Reported(T) == \A x \in OfValues : x \in dev <=> (\E t \in T : Exhibits(t, x)) \/ Exhibited(x)

\* What a value shows does not depend on its items.
LEMMA ShowsTheSame ==
  ASSUME NEW v, NEW w, w.kind = v.kind, w.raw = v.raw, w.names = v.names, NEW x
  PROVE  Shows(w, x) <=> Shows(v, x)
  BY DEF Shows, Twice, IsZeroLed

\* All of a sequence of frames is the last and those before.
LEMMA FramesSplit ==
  ASSUME NEW s, Frames(s), s # <<>>
  PROVE  /\ Len(s) \in Nat /\ DOMAIN s = 1 .. Len(s) /\ Len(s) \in 1 .. Len(s)
         /\ \A i \in 1 .. Len(s) : i = Len(s) \/ i \in 1 .. Len(s) - 1
         /\ \A i \in 1 .. Len(s) - 1 : i \in 1 .. Len(s)
  <1>1. Len(s) \in Nat /\ DOMAIN s = 1 .. Len(s) /\ Len(s) \in 1 .. Len(s)
    BY SequenceHasLast DEF Frames
  <1>2. PICK n \in Nat : n = Len(s)
    BY <1>1
  <1>3. \A i \in 1 .. n : i = n \/ i \in 1 .. n - 1
    OBVIOUS
  <1>4. \A i \in 1 .. n - 1 : i \in 1 .. n
    OBVIOUS
  <1> QED BY <1>1, <1>2, <1>3, <1>4

\* With an item more, a frame exhibits what it did and what the item does.
LEMMA ItemAdded ==
  ASSUME NEW S, NEW i \in Seq(S), NEW top, top.items = i, NEW v, NEW n \in Nat, Nests(top, n), Nests(v, n - 1),
         NEW new, new.items = Append(i, v), new.kind = top.kind, new.raw = top.raw, new.names = top.names
  PROVE  /\ Nests(new, n)
         /\ \A x : Exhibits(new, x) <=> Exhibits(top, x) \/ Exhibits(v, x)
  <1>1. PICK a : a = Append(i, v)
    OBVIOUS
  <1>4. new.items = a /\ new.kind = top.kind /\ new.raw = top.raw /\ new.names = top.names
    BY <1>1
  <1>5. IsSequence(i)
    BY DEF IsSequence, Range
  <1>6. Range(a) = Range(i) \union {v}
    BY <1>1, <1>5, Appended
  <1>7. Nests(new, n)
    <2>1. \A u \in Range(i) : Nests(u, n - 1)
      BY ItemsNest
    <2> QED BY <1>4, <1>6, <2>1, NestsAsItems
  <1>8. ASSUME NEW x PROVE Exhibits(new, x) <=> Exhibits(top, x) \/ Exhibits(v, x)
    <2>1. Shows(new, x) <=> Shows(top, x)
      BY <1>4, ShowsTheSame
    <2>2. Exhibits(new, x) <=> Shows(new, x) \/ \E u \in Range(a) : Exhibits(u, x)
      BY <1>4, HoldsAsItems
    <2>3. Exhibits(top, x) <=> Shows(top, x) \/ \E u \in Range(i) : Exhibits(u, x)
      BY HoldsAsItems
    <2> QED BY <1>6, <2>1, <2>2, <2>3
  <1> QED BY <1>7, <1>8

\* A value is complete.
LEMMA CompleteExhibits ==
  ASSUME NEW frames, Frames(frames), FramesFit(frames), NEW S, \A i \in 1 .. Len(frames) : IsNode(frames[i], S),
         NEW v, Nests(v, Bound - Len(frames)), Complete(v, frames)
  PROVE  Fitting' /\ \A x : Exhibited(x)' <=> FramesExhibit(frames, x) \/ Exhibits(v, x)
  <1>0. Bound \in Nat
    BY LimitsAssumption DEF Bound
  <1>1. CASE frames = <<>>
    <2>1. stack' = <<>> /\ value' = v /\ mode' = "complete"
      BY <1>1 DEF Complete
    <2>2. Len(stack') = 0 /\ Len(frames) = 0
      BY <1>1, <2>1
    <2>3. FramesFit(stack') /\ Nests(value', Bound)
      BY <1>0, <2>1, <2>2 DEF FramesFit
    <2>4. ASSUME NEW x PROVE ~FramesExhibit(stack', x) /\ ~FramesExhibit(frames, x)
      BY <2>2 DEF FramesExhibit
    <2> QED BY <2>1, <2>3, <2>4 DEF Fitting, Exhibited
  <1>2. CASE frames # <<>>
    <2> DEFINE top == frames[Len(frames)]
               new == [top EXCEPT !.items = Append(@, v)]
    <2>1. stack' = [frames EXCEPT ![Len(frames)] = new] /\ mode' = "next"
      BY <1>2 DEF Complete
    <2>2. PICK n \in Nat : n = Len(frames)
      BY <1>2, FramesSplit
    <2>3. /\ DOMAIN frames = 1 .. n /\ n \in 1 .. n
          /\ \A i \in 1 .. n : i = n \/ i \in 1 .. n - 1
          /\ \A i \in 1 .. n - 1 : i \in 1 .. n
      BY <1>2, <2>2, FramesSplit
    <2>4. DOMAIN new = DOMAIN top
      OBVIOUS
    <2>5. IsNode(top, S) /\ Nests(top, Bound - n + 1) /\ n <= Bound
      BY <2>2, <2>3 DEF FramesFit
    <2>6. PICK m : m = Bound - n + 1
      OBVIOUS
    <2>7. Nests(new, Bound - n + 1) /\ \A x : Exhibits(new, x) <=> Exhibits(top, x) \/ Exhibits(v, x)
      <3> HIDE DEF top
      <3>1. m \in Nat /\ m - 1 = Bound - n
        BY <1>0, <2>5, <2>6
      <3>2. Nests(top, m) /\ Nests(v, m - 1)
        BY <2>2, <2>5, <2>6, <3>1
      <3>3. PICK i : i = top.items
        OBVIOUS
      <3>4. i \in Seq(S) /\ new.items = Append(i, v)
            /\ new.kind = top.kind /\ new.raw = top.raw /\ new.names = top.names
        BY <2>5, <3>3 DEF IsNode
      <3> HIDE DEF new, top
      <3> QED BY <2>6, <3>1, <3>2, <3>3, <3>4, ItemAdded
    <2> HIDE DEF new
    <2>8. Frames(stack') /\ Len(stack') = n
      BY <1>2, <2>1, <2>2, <2>4, FrameChanged
    <2>9. stack'[n] = new /\ \A i \in 1 .. n - 1 : stack'[i] = frames[i]
      BY <2>1, <2>2, <2>3
    <2> HIDE DEF top
    <2>10. top = frames[n]
      BY <2>2 DEF top
    <2>11. FramesFit(stack')
      <3>1. \A i \in 1 .. n : Nests(frames[i], Bound - i + 1)
        BY <2>2 DEF FramesFit
      <3> QED BY <2>3, <2>5, <2>7, <2>8, <2>9, <3>1 DEF FramesFit
    <2>12. ASSUME NEW x PROVE FramesExhibit(stack', x) <=> FramesExhibit(frames, x) \/ Exhibits(v, x)
      <3>1. FramesExhibit(stack', x) <=> Exhibits(new, x) \/ \E i \in 1 .. n - 1 : Exhibits(frames[i], x)
        BY <2>3, <2>8, <2>9 DEF FramesExhibit
      <3>2. FramesExhibit(frames, x) <=> Exhibits(top, x) \/ \E i \in 1 .. n - 1 : Exhibits(frames[i], x)
        BY <2>2, <2>3, <2>10 DEF FramesExhibit
      <3> QED BY <2>7, <3>1, <3>2
    <2> QED BY <2>1, <2>11, <2>12 DEF Fitting, Exhibited
  <1> QED BY <1>1, <1>2

-----------------------------------------------------------------------------
\* The kinds that are in A are reported, and what is held exhibits them.
Telling(A) ==
  \A x \in OfValues : (x \in dev' <=> x \in dev \/ x \in A) /\ (Exhibited(x)' <=> Exhibited(x) \/ x \in A)

\* Then what is reported stays right.
LEMMA TellingReports ==
  ASSUME NEW T, Reported(T), NEW A, Telling(A)
  PROVE  Reported(T)'
  BY DEF Reported, Telling

\* Nothing is opened or completed.
LEMMA NothingTold ==
  ASSUME Fitting, stack' = stack, mode # "complete", mode' # "complete",
         \A x \in OfValues : x \in dev' <=> x \in dev
  PROVE  Fitting' /\ Telling({})
  BY DEF Fitting, Telling, Exhibited

\* Who has no items is one level, and exhibits what it shows.
LEMMA NoItems ==
  ASSUME NEW v, v.items = <<>>
  PROVE  (\A n \in Nat : Nests(v, n)) /\ (\A x : Exhibits(v, x) <=> Shows(v, x))
  <1>1. Range(v.items) = {}
    BY DEF Range
  <1> QED BY <1>1, NestsAsItems, HoldsAsItems

\* Who has the items of another is like it.
LEMMA SameItems ==
  ASSUME NEW v, NEW w, w.items = v.items, w.kind = v.kind, w.raw = v.raw, w.names = v.names
  PROVE  (\A n \in Nat : Nests(v, n) => Nests(w, n)) /\ (\A x : Exhibits(w, x) <=> Exhibits(v, x))
  <1>1. ASSUME NEW n \in Nat, Nests(v, n) PROVE Nests(w, n)
    <2>1. \A u \in Range(v.items) : Nests(u, n - 1)
      BY <1>1, ItemsNest
    <2> QED BY <2>1, NestsAsItems
  <1>2. ASSUME NEW x PROVE Exhibits(w, x) <=> Exhibits(v, x)
    <2>1. Shows(w, x) <=> Shows(v, x)
      BY ShowsTheSame
    <2> QED BY <2>1, HoldsAsItems
  <1> QED BY <1>1, <1>2

\* No names: none is there twice.
LEMMA NoneTwice ==
  ASSUME NEW v, v.names = <<>>
  PROVE  ~Twice(v)
  <1>1. {Decode(name) : name \in Range(v.names)} = {} /\ Len(v.names) = 0
    BY DEF Range
  <1> QED BY <1>1, FS_EmptySet DEF Twice

\* A word, a string or a number is read.
LEMMA AtomTells ==
  ASSUME Grown, Nested, Fitting, mode # "complete",
         NEW v, v.items = <<>>, Complete(v, stack), NEW A, \A x \in OfValues : Shows(v, x) <=> x \in A,
         \A x \in OfValues : x \in dev' <=> x \in dev \/ x \in A
  PROVE  Fitting' /\ Telling(A)
  <1>1. PICK S : Grows(S, stack, mode, value)
    BY DEF Grown
  <1>2. Frames(stack) /\ \A i \in 1 .. Len(stack) : IsNode(stack[i], S)
    BY <1>1 DEF Grows, Stacked
  <1>3. FramesFit(stack) /\ Bound \in Nat /\ Len(stack) \in Nat /\ Len(stack) <= Bound
    BY <1>2, SequenceHasLast, LimitsAssumption DEF Fitting, FramesFit, Frames, Bound
  <1>4. Nests(v, Bound - Len(stack)) /\ \A x : Exhibits(v, x) <=> Shows(v, x)
    BY <1>3, NoItems
  <1>5. Fitting' /\ \A x : Exhibited(x)' <=> FramesExhibit(stack, x) \/ Exhibits(v, x)
    BY <1>2, <1>3, <1>4, CompleteExhibits
  <1>6. \A x : Exhibited(x) <=> FramesExhibit(stack, x)
    BY DEF Exhibited
  <1> QED BY <1>4, <1>5, <1>6 DEF Telling

\* An array or object is entered.
LEMMA OpenTells ==
  ASSUME Grown, Nested, Fitting, Open
  PROVE  Fitting' /\ Telling({})
  <1> DEFINE f == Atom(IF Peek = LBRACE THEN "object" ELSE "array", pos, pos, <<>>)
  <1>1. f.items = <<>> /\ f.names = <<>> /\ f.kind # "number"
    BY DEF Atom
  <1>2. stack' = Append(stack, f) /\ dev' = dev /\ depth < Bound /\ mode = "value"
    BY DEF Open
  <1> HIDE DEF f
  <1>3. mode' # "complete" /\ mode # "complete"
    BY DEF Open
  <1>4. IsSequence(stack) /\ depth = Len(stack)
    BY DEF Nested, Frames
  <1>5. /\ Len(stack') = Len(stack) + 1 /\ Len(stack) \in Nat
        /\ stack'[Len(stack) + 1] = f /\ \A i \in 1 .. Len(stack) : stack'[i] = stack[i]
    BY <1>2, <1>4, Appended
  <1>6. PICK n \in Nat : n = Len(stack)
    BY <1>5
  <1>7. Bound \in Nat /\ n < Bound
    BY <1>2, <1>4, <1>6, LimitsAssumption DEF Bound
  <1>8. \A i \in 1 .. n + 1 : i = n + 1 \/ i \in 1 .. n
    OBVIOUS
  <1>9. n + 1 \in 1 .. n + 1 /\ \A i \in 1 .. n : i \in 1 .. n + 1
    OBVIOUS
  <1>10. FramesFit(stack')
    <2>1. \A i \in 1 .. n : Nests(stack[i], Bound - i + 1)
      BY <1>6 DEF Fitting, FramesFit
    <2>2. Nests(f, Bound - (n + 1) + 1)
      <3>1. Bound - (n + 1) + 1 \in Nat
        BY <1>7
      <3> QED BY <1>1, <3>1, NoItems
    <2>3. n + 1 <= Bound
      BY <1>7
    <2> QED BY <1>5, <1>6, <1>8, <2>1, <2>2, <2>3 DEF FramesFit
  <1>11. ASSUME NEW x \in OfValues PROVE ~Exhibits(f, x)
    <2>1. ~Shows(f, x)
      BY <1>1, NoneTwice DEF Shows, IsZeroLed
    <2> QED BY <1>1, <2>1, NoItems
  <1>12. ASSUME NEW x \in OfValues PROVE FramesExhibit(stack', x) <=> FramesExhibit(stack, x)
    BY <1>5, <1>6, <1>8, <1>9, <1>11, <1>12 DEF FramesExhibit
  <1> QED BY <1>2, <1>3, <1>10, <1>12 DEF Fitting, Telling, Exhibited

\* The name of a member is complete.
LEMMA CloseNameTells ==
  ASSUME Grown, Nested, Fitting, CloseName, Raw \in Seq(Symbols)
  PROVE  \E A : Fitting' /\ Telling(A)
  <1>1. PICK S : Grows(S, stack, mode, value)
    BY DEF Grown
  <1> DEFINE top == stack[Len(stack)]
             new == [top EXCEPT !.names = Append(@, Raw)]
             A == IF IsDuplicate(Raw, top.names) THEN {"DuplicateKey"} ELSE {}
  <1>2. stack' = [stack EXCEPT ![Len(stack)] = new] /\ dev' = dev \union A
    BY DEF CloseName, Top
  <1>3. mode # "complete" /\ mode' # "complete" /\ stack # <<>>
    BY DEF CloseName, Nested
  <1>4. PICK n \in Nat : n = Len(stack)
    BY <1>3, FramesSplit DEF Nested
  <1>5. /\ DOMAIN stack = 1 .. n /\ n \in 1 .. n
        /\ \A i \in 1 .. n : i = n \/ i \in 1 .. n - 1
        /\ \A i \in 1 .. n - 1 : i \in 1 .. n
    BY <1>3, <1>4, FramesSplit DEF Nested
  <1>6. IsNode(top, S)
    BY <1>1, <1>4, <1>5 DEF Grows, Stacked
  <1>7. /\ new.items = top.items /\ new.kind = top.kind /\ new.raw = top.raw
        /\ new.names = Append(top.names, Raw) /\ top.names \in Seq(Seq(Symbols)) /\ DOMAIN new = DOMAIN top
    BY <1>6 DEF IsNode
  <1> HIDE DEF new
  <1>8. Frames(stack') /\ Len(stack') = n
    BY <1>2, <1>3, <1>4, <1>7, FrameChanged DEF Nested
  <1>9. stack'[n] = new /\ top = stack[n] /\ \A i \in 1 .. n - 1 : stack'[i] = stack[i]
    BY <1>2, <1>4, <1>5
  <1>10. Bound \in Nat /\ n <= Bound /\ \A i \in 1 .. n : Nests(stack[i], Bound - i + 1)
    BY <1>4, LimitsAssumption DEF Fitting, FramesFit, Bound
  <1> HIDE DEF top
  <1>11. Nests(new, Bound - n + 1)
    <2>1. PICK m : m = Bound - n + 1
      OBVIOUS
    <2>2. m \in Nat /\ Nests(top, m)
      BY <1>5, <1>9, <1>10, <2>1
    <2>3. \A u \in Range(top.items) : Nests(u, m - 1)
      BY <2>2, ItemsNest
    <2> QED BY <1>7, <2>1, <2>2, <2>3, NestsAsItems
  <1>12. FramesFit(stack')
    BY <1>5, <1>8, <1>9, <1>10, <1>11 DEF FramesFit
  <1>13. ASSUME NEW x \in OfValues PROVE Exhibits(new, x) <=> Exhibits(top, x) \/ x \in A
    <2>1. Twice(new) <=> Twice(top) \/ IsDuplicate(Raw, top.names)
      BY <1>7, NameIsTwice
    <2>2. IsZeroLed(new) <=> IsZeroLed(top)
      BY <1>7 DEF IsZeroLed
    <2>3. Shows(new, x) <=> Shows(top, x) \/ x \in A
      BY <2>1, <2>2 DEF Shows, OfValues
    <2> QED BY <1>7, <2>3, HoldsAsItems
  <1> HIDE DEF A
  <1>14. ASSUME NEW x \in OfValues PROVE FramesExhibit(stack', x) <=> FramesExhibit(stack, x) \/ x \in A
    <2>1. FramesExhibit(stack', x) <=> Exhibits(new, x) \/ \E i \in 1 .. n - 1 : Exhibits(stack[i], x)
      BY <1>5, <1>8, <1>9 DEF FramesExhibit
    <2>2. FramesExhibit(stack, x) <=> Exhibits(top, x) \/ \E i \in 1 .. n - 1 : Exhibits(stack[i], x)
      BY <1>4, <1>5, <1>9 DEF FramesExhibit
    <2> QED BY <1>13, <2>1, <2>2
  <1>15. Fitting' /\ Telling(A)
    BY <1>2, <1>3, <1>12, <1>14 DEF Fitting, Telling, Exhibited
  <1> QED BY <1>15

\* An array or object is left.
LEMMA CloseTells ==
  ASSUME Grown, Nested, Fitting, Close
  PROVE  Fitting' /\ Telling({})
  <1>1. PICK S : Grows(S, stack, mode, value)
    BY DEF Grown
  <1> DEFINE inner == SubSeq(stack, 1, Len(stack) - 1)
             top == stack[Len(stack)]
             v == [top EXCEPT !.end = Next_ + 1]
  <1>2. Complete(v, inner) /\ dev' = dev /\ mode # "complete"
    BY DEF Close, Top
  <1>3. stack # <<>>
    BY DEF Close, Nested
  <1>4. PICK n \in Nat : n = Len(stack)
    BY <1>3, FramesSplit DEF Nested
  <1>5. /\ DOMAIN stack = 1 .. n /\ n \in 1 .. n
        /\ \A i \in 1 .. n : i = n \/ i \in 1 .. n - 1
        /\ \A i \in 1 .. n - 1 : i \in 1 .. n
    BY <1>3, <1>4, FramesSplit DEF Nested
  <1>6. Bound \in Nat /\ n <= Bound /\ \A i \in 1 .. n : Nests(stack[i], Bound - i + 1)
    BY <1>4, LimitsAssumption DEF Fitting, FramesFit, Bound
  <1>7. inner = [i \in 1 .. n - 1 |-> stack[i]] /\ n - 1 \in Nat
    BY <1>4, <1>5
  <1>8. inner = [i \in 1 .. n - 1 |-> inner[i]] /\ \A i \in 1 .. n - 1 : inner[i] = stack[i]
    BY <1>7
  <1>9. IsNode(top, S) /\ top = stack[n]
    BY <1>1, <1>4, <1>5 DEF Grows, Stacked
  <1>10. v.items = top.items /\ v.kind = top.kind /\ v.raw = top.raw /\ v.names = top.names
    BY <1>9 DEF IsNode
  <1> HIDE DEF inner, v, top
  <1>11. IsSequence(inner) /\ Len(inner) = n - 1
    BY <1>7, <1>8, IsSequenceOf
  <1>12. Frames(inner) /\ \A i \in 1 .. Len(inner) : IsNode(inner[i], S)
    BY <1>1, <1>4, <1>5, <1>8, <1>11 DEF Frames, Grows, Stacked
  <1>13. FramesFit(inner)
    <2>1. n - 1 <= Bound
      BY <1>6
    <2> QED BY <1>5, <1>6, <1>8, <1>11, <2>1 DEF FramesFit
  <1>14. (\A m \in Nat : Nests(top, m) => Nests(v, m)) /\ \A x : Exhibits(v, x) <=> Exhibits(top, x)
    BY <1>10, SameItems
  <1>15. Nests(v, Bound - Len(inner))
    <2>1. PICK m : m = Bound - n + 1
      OBVIOUS
    <2>2. m \in Nat /\ m = Bound - Len(inner)
      BY <1>6, <1>11, <2>1
    <2> QED BY <1>5, <1>6, <1>9, <1>14, <2>1, <2>2
  <1>16. Fitting' /\ \A x : Exhibited(x)' <=> FramesExhibit(inner, x) \/ Exhibits(v, x)
    BY <1>2, <1>12, <1>13, <1>15, CompleteExhibits
  <1>17. ASSUME NEW x PROVE Exhibited(x) <=> FramesExhibit(inner, x) \/ Exhibits(v, x)
    <2>1. FramesExhibit(stack, x) <=> Exhibits(top, x) \/ \E i \in 1 .. n - 1 : Exhibits(stack[i], x)
      BY <1>4, <1>5, <1>9 DEF FramesExhibit
    <2>2. FramesExhibit(inner, x) <=> \E i \in 1 .. n - 1 : Exhibits(stack[i], x)
      BY <1>8, <1>11 DEF FramesExhibit
    <2> QED BY <1>2, <1>14, <2>1, <2>2 DEF Exhibited
  <1> QED BY <1>2, <1>16, <1>17 DEF Telling

\* Whatever the reader does next.
LEMMA ReadJsonTells ==
  ASSUME Grown, Nested, Fitting, Scanning(1), ReadJson
  PROVE  \E A : Fitting' /\ Telling(A)
  <1>1. text \in Seq(Symbols) /\ pos \in 1 .. Len(text) + 1 /\ start \in Nat
    BY DEF Scanning, Reached, Grown
  <1>2. CASE TooDeep \/ Expected \/ TooManyMembers
    <2>1. stack' = stack /\ dev' = dev /\ mode' = "stopped"
      BY <1>2 DEF TooDeep, Expected, TooManyMembers, Stop
    <2>2. mode # "complete"
      BY <1>2 DEF TooDeep, Expected, TooManyMembers
    <2> QED BY <2>1, <2>2, NothingTold
  <1>3. CASE OpenString \/ ReadPlain \/ ReadEscape \/ Colon \/ Comma
    <2>1. stack' = stack
      BY <1>3 DEF OpenString, ReadPlain, ReadEscape, Colon, Comma
    <2>2. mode # "complete" /\ mode' # "complete"
      BY <1>3 DEF OpenString, ReadPlain, ReadEscape, Colon, Comma, InString
    <2>3. /\ dev \subseteq dev'
          /\ dev' \subseteq dev \union {"ControlCharacterInString", "InvalidStringEscape"}
      BY <1>3 DEF OpenString, ReadPlain, ReadEscape, Colon, Comma
    <2>4. \A x \in OfValues : x \in dev' <=> x \in dev
      BY <2>3 DEF OfValues
    <2> QED BY <2>1, <2>2, <2>4, NothingTold
  <1>4. CASE ReadLiteral
    <2>1. PICK v : v = Atom(IF Peek = "null" THEN "null" ELSE "boolean", pos, pos + 1, <<Peek>>)
      OBVIOUS
    <2>2. mode = "value" /\ Complete(v, stack) /\ dev' = dev
      BY <1>4, <2>1 DEF ReadLiteral
    <2>3. v.items = <<>> /\ v.names = <<>> /\ v.kind # "number"
      BY <2>1 DEF Atom
    <2>4. \A x \in OfValues : ~Shows(v, x)
      BY <2>3, NoneTwice DEF Shows, IsZeroLed
    <2>5. Fitting' /\ Telling({})
      <3>1. mode # "complete" /\ \A x \in OfValues : (Shows(v, x) <=> x \in {}) /\ (x \in dev' <=> x \in dev \/ x \in {})
        BY <2>2, <2>4
      <3> QED BY <2>2, <2>3, <3>1, AtomTells
    <2> QED BY <2>5
  <1>5. CASE CloseString
    <2>1. PICK v : v = Atom("string", start, pos + 1, Raw)
      OBVIOUS
    <2>2. mode = "in_string" /\ Complete(v, stack) /\ dev' = dev
      BY <1>5, <2>1 DEF CloseString
    <2>3. v.items = <<>> /\ v.names = <<>> /\ v.kind # "number"
      BY <2>1 DEF Atom
    <2>4. \A x \in OfValues : ~Shows(v, x)
      BY <2>3, NoneTwice DEF Shows, IsZeroLed
    <2>5. Fitting' /\ Telling({})
      <3>1. mode # "complete" /\ \A x \in OfValues : (Shows(v, x) <=> x \in {}) /\ (x \in dev' <=> x \in dev \/ x \in {})
        BY <2>2, <2>4
      <3> QED BY <2>2, <2>3, <3>1, AtomTells
    <2> QED BY <2>5
  <1>6. CASE ReadNumber
    <2>1. PICK v : v = Atom("number", pos, NumberEnd, SubSeq(text, pos, NumberEnd - 1))
      OBVIOUS
    <2>2. PICK A : A = IF LeadingZero THEN {"NonCanonicalNumber"} ELSE {}
      OBVIOUS
    <2>3. mode = "value" /\ Complete(v, stack) /\ dev' = dev \union A
      BY <1>6, <2>1, <2>2 DEF ReadNumber
    <2>4. v.items = <<>> /\ v.names = <<>>
      BY <2>1 DEF Atom
    <2>5. IsZeroLed(v) <=> LeadingZero
      BY <1>1, <1>6, <2>1, ZeroIsFound DEF ReadNumber
    <2>6. \A x \in OfValues : Shows(v, x) <=> x \in A
      BY <2>2, <2>4, <2>5, NoneTwice DEF Shows, OfValues
    <2>7. Fitting' /\ Telling(A)
      <3>1. mode # "complete" /\ \A x \in OfValues : x \in dev' <=> x \in dev \/ x \in A
        BY <2>3
      <3> QED BY <2>3, <2>4, <2>6, <3>1, AtomTells
    <2> QED BY <2>7
  <1>7. CASE Open
    BY <1>7, OpenTells
  <1>8. CASE CloseName
    <2>1. start + 1 \in Nat /\ start + 1 >= 1 /\ pos - 1 \in Int /\ pos - 1 <= Len(text)
      BY <1>1
    <2>2. Raw \in Seq(Symbols)
      BY <1>1, <2>1, RawIsText DEF Raw
    <2> QED BY <1>8, <2>2, CloseNameTells
  <1>9. CASE Close
    BY <1>9, CloseTells
  <1> QED BY <1>2, <1>3, <1>4, <1>5, <1>6, <1>7, <1>8, <1>9 DEF ReadJson

-----------------------------------------------------------------------------
(***************************************************************************)
(* Control characters in strings.                                          *)
(***************************************************************************)
\* At position i a string holds a control character that no backslash escapes.
IsBare(t, i) == t[i] \in Control /\ Quoted(t, i) /\ ~(Cardinality(Backslashes(t, i)) % 2 = 1)

\* There is one before p.
HasBare(t, p) == \E i \in 1 .. p - 1 : IsBare(t, i)

\* There is none from p to q.
Clean(t, p, q) == \A i \in p .. q - 1 : ~IsBare(t, i)

\* Where a stretch is clean nothing is added.
LEMMA CleanAddsNothing ==
  ASSUME NEW t, NEW p \in Nat, NEW q \in Nat, p >= 1, p <= q, Clean(t, p, q)
  PROVE  HasBare(t, q) <=> HasBare(t, p)
  <1>1. \A i \in 1 .. q - 1 : i \in 1 .. p - 1 \/ i \in p .. q - 1
    OBVIOUS
  <1>2. \A i \in 1 .. p - 1 : i \in 1 .. q - 1
    OBVIOUS
  <1> QED BY <1>1, <1>2 DEF HasBare, Clean

\* Outside the strings all is clean up to the next quote.
LEMMA OutsideIsClean ==
  ASSUME NEW t, NEW p, NEW q, NEW n, Reached(t, 1, p), q \in p .. Len(t) + 1, Outside(t, 1, p, n),
         \A i \in p .. q - 1 : t[i] # QUOTE
  PROVE  Clean(t, p, q)
  <1> SUFFICES ASSUME NEW i \in p .. q - 1 PROVE ~Quoted(t, i)
    BY DEF Clean, IsBare
  <1>1. /\ t \in Seq(Symbols) /\ p \in Nat /\ p >= 1 /\ i \in 1 .. Len(t) /\ i + 1 \in 1 .. Len(t) + 1
        /\ Len(t) \in Nat /\ p <= i /\ i < q
    BY DEF Reached
  <1>2. Reached(t, 1, i + 1) /\ p <= i + 1
    BY <1>1 DEF Reached
  <1>3. Parts(t, 1, p, i + 1)
    BY <1>2, PartsContinue
  <1> DEFINE s == Part(t, 1, p)
             r == Part(t, 1, i + 1)
  <1>4. Continues(r, s) /\ Len(s) = p - 1 /\ Len(r) = i /\ \A k \in 1 .. i : r[k] = t[k]
    <2> HIDE DEF s, r
    <2>1. i + 1 - 1 = i /\ \A k \in 1 .. i : 1 + k - 1 = k
      BY <1>1
    <2> QED BY <1>1, <1>3, <2>1 DEF Parts, s, r
  <1> HIDE DEF s, r
  <1>5. \A k \in Len(s) + 1 .. Len(r) : k \notin Quotes(r)
    <2>1. \A k \in p .. i : r[k] = t[k] /\ t[k] # QUOTE
      BY <1>1, <1>4
    <2>2. Len(s) + 1 = p /\ Len(r) = i
      BY <1>1, <1>4
    <2> QED BY <2>1, <2>2 DEF Quotes
  <1>6. Quotes(r) = Quotes(s)
    BY <1>4, <1>5, NoQuoteAdded
  <1>7. ~Unclosed(r)
    BY <1>6 DEF Outside, Unclosed, s
  <1> QED BY <1>1, <1>7, QuotedIsUnclosed DEF r

\* What is no control character is none.
LEMMA SymbolIsClean ==
  ASSUME NEW t, NEW p \in Nat, NEW q, q = p + 1, t[p] \notin Control
  PROVE  Clean(t, p, q)
  <1>1. \A i \in p .. q - 1 : i = p
    OBVIOUS
  <1> QED BY <1>1 DEF Clean, IsBare

\* Two clean stretches in a row.
LEMMA CleanTwice ==
  ASSUME NEW t, NEW p \in Nat, NEW q \in Nat, NEW r \in Nat, Clean(t, p, q), Clean(t, q, r)
  PROVE  Clean(t, p, r)
  <1>1. \A i \in p .. r - 1 : i \in p .. q - 1 \/ i \in q .. r - 1
    OBVIOUS
  <1> QED BY <1>1 DEF Clean

-----------------------------------------------------------------------------
\* What is reported of control characters is what has been passed.
Watched == "ControlCharacterInString" \in dev <=> HasBare(text, pos)

\* A step over what is clean.
LEMMA CleanStep ==
  ASSUME Watched, Moves(1), pos \in Nat, pos >= 1, Clean(text, pos, pos'),
         "ControlCharacterInString" \in dev' <=> "ControlCharacterInString" \in dev
  PROVE  Watched'
  <1>1. text' = text /\ pos' \in Nat /\ pos <= pos'
    BY DEF Moves, Advanced, Reached
  <1>2. HasBare(text, pos') <=> HasBare(text, pos)
    BY <1>1, CleanAddsNothing
  <1> QED BY <1>1, <1>2 DEF Watched

\* A step outside the strings that passes no quote.
LEMMA StepOutside ==
  ASSUME Watched, Scanning(1), Moves(1), mode \in Between, \A i \in pos .. pos' - 1 : text[i] # QUOTE,
         dev' \subseteq dev \union {"NonCanonicalNumber"}, dev \subseteq dev'
  PROVE  Watched'
  <1>1. Reached(text, 1, pos) /\ Outside(text, 1, pos, depth)
    BY DEF Scanning
  <1>2. pos' \in pos .. Len(text) + 1 /\ pos \in Nat /\ pos >= 1
    BY <1>1 DEF Moves, Advanced, Reached
  <1>3. Clean(text, pos, pos')
    BY <1>1, <1>2, OutsideIsClean
  <1> QED BY <1>2, <1>3, CleanStep

\* White space holds no quote.
LEMMA SpaceHoldsNoQuote ==
  ASSUME NEW t \in Seq(Symbols), NEW p \in 1 .. Len(t) + 1
  PROVE  /\ SkipSpace(t, p) \in p .. Len(t) + 1 /\ \A i \in p .. SkipSpace(t, p) - 1 : t[i] # QUOTE
  <1>1. \A x \in JsonSpace : x # QUOTE
    BY SymbolsDiffer DEF JsonSpace
  <1> QED BY <1>1, SpaceIsPassed

\* Nor does a symbol that is none, with the white space after it.
LEMMA SymbolAndSpace ==
  ASSUME NEW t \in Seq(Symbols), NEW p \in 1 .. Len(t), t[p] # QUOTE
  PROVE  /\ SkipSpace(t, p + 1) \in p + 1 .. Len(t) + 1
         /\ \A i \in p .. SkipSpace(t, p + 1) - 1 : t[i] # QUOTE
  <1>1. Len(t) \in Nat /\ p + 1 \in 1 .. Len(t) + 1 /\ p \in Nat
    OBVIOUS
  <1>2. PICK q : q = SkipSpace(t, p + 1)
    OBVIOUS
  <1>3. q \in p + 1 .. Len(t) + 1 /\ \A i \in p + 1 .. q - 1 : t[i] # QUOTE
    BY <1>1, <1>2, SpaceHoldsNoQuote
  <1>4. \A i \in p .. q - 1 : i = p \/ i \in p + 1 .. q - 1
    BY <1>1, <1>3
  <1> QED BY <1>2, <1>3, <1>4

\* The backslashes before the end of a part are those before that place of the text.
LEMMA EscapesAreCounted ==
  ASSUME NEW t, NEW p, NEW n, Reached(t, 1, p), Within_(t, 1, p, n)
  PROVE  Cardinality(Backslashes(t, p)) % 2 = 0
  <1> DEFINE s == Part(t, 1, p)
  <1>1. p \in Nat /\ p - 1 + 1 = p /\ p >= 1
    BY DEF Reached
  <1>2. \A i \in 1 .. p - 1 : s[i] = t[i]
    BY DEF Reached, Part
  <1> HIDE DEF s
  <1>3. Backslashes(s, p) = Backslashes(t, p)
    BY <1>1, <1>2 DEF Backslashes
  <1> QED BY <1>1, <1>3 DEF Within_, s

\* A symbol of a string is bare if it is a control character.
LEMMA PlainIsWatched ==
  ASSUME Watched, Scanning(1), ReadPlain
  PROVE  Watched'
  <1>1. mode \in InText /\ Peek # NONE /\ Peek \notin {QUOTE, BACKSLASH} /\ text' = text /\ pos' = pos + 1
        /\ dev' = dev \union (IF Peek \in Control THEN {"ControlCharacterInString"} ELSE {})
    BY DEF ReadPlain, InString, InText
  <1>2. Reached(text, 1, pos) /\ Within_(text, 1, pos, depth)
    BY <1>1 DEF Scanning
  <1>3. text \in Seq(Symbols) /\ Len(text) \in Nat /\ pos \in Nat /\ pos >= 1
    BY <1>2 DEF Reached
  <1>4. pos \in 1 .. Len(text) /\ Peek = text[pos]
    BY <1>1, <1>2, PeekIsThere DEF Reached
  <1>5. Quoted(text, pos)
    <2>1. PICK q : q = pos + 1
      OBVIOUS
    <2>2. Within_(text, 1, q, depth)
      BY <1>1, <1>2, <1>4, <2>1, OverPlain
    <2> QED BY <1>3, <1>4, <2>1, <2>2, QuotedIsUnclosed DEF Within_
  <1>6. Cardinality(Backslashes(text, pos)) % 2 = 0
    BY <1>2, <1>3, EscapesAreCounted
  <1>7. IsBare(text, pos) <=> text[pos] \in Control
    BY <1>5, <1>6 DEF IsBare
  <1>8. HasBare(text, pos + 1) <=> HasBare(text, pos) \/ IsBare(text, pos)
    <2>1. \A i \in 1 .. pos + 1 - 1 : i = pos \/ i \in 1 .. pos - 1
      BY <1>3
    <2>2. pos \in 1 .. pos + 1 - 1 /\ \A i \in 1 .. pos - 1 : i \in 1 .. pos + 1 - 1
      BY <1>3
    <2> QED BY <2>1, <2>2 DEF HasBare
  <1> QED BY <1>1, <1>4, <1>7, <1>8 DEF Watched

\* A backslash is no control character, and what follows it is escaped.
LEMMA EscapeIsWatched ==
  ASSUME Watched, Scanning(1), Moves(1), ReadEscape
  PROVE  Watched'
  <1>1. mode \in InText /\ Peek = BACKSLASH /\ pos' = pos + 2
        /\ dev \subseteq dev' /\ dev' \subseteq dev \union {"InvalidStringEscape"}
    BY DEF ReadEscape, InString, InText, EscapedFrom
  <1>2. Reached(text, 1, pos) /\ Within_(text, 1, pos, depth)
    BY <1>1 DEF Scanning
  <1>3. text \in Seq(Symbols) /\ Len(text) \in Nat /\ pos \in Nat /\ pos >= 1
    BY <1>2 DEF Reached
  <1>4. text[pos] = BACKSLASH
    <2>1. Peek # NONE
      BY <1>1, SymbolsAssumption
    <2> QED BY <1>1, <1>2, <2>1, PeekIsThere DEF Reached
  <1>5. ~IsBare(text, pos)
    <2>1. BACKSLASH \notin Control
      BY Zenon DEF BACKSLASH, Control
    <2> QED BY <1>4, <2>1 DEF IsBare
  <1>6. ~IsBare(text, pos + 1)
    <2> DEFINE c == Cardinality(Backslashes(text, pos))
    <2>1. Cardinality(Backslashes(text, pos + 1)) = c + 1 /\ c \in Nat
      BY <1>3, <1>4, MoreBackslashes
    <2>2. c % 2 = 0
      BY <1>2, <1>3, EscapesAreCounted
    <2> HIDE DEF c
    <2>3. (c + 1) % 2 = 1
      BY <2>1, <2>2
    <2> QED BY <2>1, <2>3 DEF IsBare
  <1>7. Clean(text, pos, pos')
    <2>1. PICK q : q = pos'
      OBVIOUS
    <2>2. \A i \in pos .. q - 1 : i = pos \/ i = pos + 1
      BY <1>1, <1>3, <2>1
    <2>3. Clean(text, pos, q)
      BY <1>5, <1>6, <2>2 DEF Clean
    <2> QED BY <2>1, <2>3
  <1> QED BY <1>1, <1>3, <1>7, CleanStep

\* A quote is no control character.
LEMMA QuoteIsNoControl == QUOTE \notin Control
  BY Zenon DEF QUOTE, Control

\* A value is complete where it ends.
LEMMA AtomEnds ==
  /\ \A v, frames : Complete(v, frames) => pos' = v.end
  /\ \A kind, at, end, raw : Atom(kind, at, end, raw).end = end
  BY DEF Complete, Atom

\* Whatever the reader does next.
LEMMA ReadJsonWatches ==
  ASSUME Watched, Scanning(1), Nested, ReadJson
  PROVE  Watched'
  <1>1. Moves(1)
    BY ReadJsonMoves
  <1>2. Reached(text, 1, pos) /\ text \in Seq(Symbols) /\ Len(text) \in Nat /\ pos \in Nat /\ pos >= 1
        /\ pos \in 1 .. Len(text) + 1
    BY DEF Scanning, Reached
  <1>3. CASE TooDeep \/ Expected \/ TooManyMembers
    <2>1. text' = text /\ pos' = pos /\ dev' = dev
      BY <1>3 DEF TooDeep, Expected, TooManyMembers, Stop
    <2> QED BY <2>1 DEF Watched, HasBare
  <1>4. CASE Open
    <2>1. mode \in Between /\ dev' = dev /\ pos' = SkipSpace(text, pos + 1) /\ Peek \in {LBRACE, "["}
      BY <1>4 DEF Open, Between
    <2>2. pos \in 1 .. Len(text) /\ text[pos] # QUOTE
      BY <1>2, <2>1, PeekIsThere, SymbolsDiffer, SymbolsAssumption
    <2>3. \A i \in pos .. pos' - 1 : text[i] # QUOTE
      BY <1>2, <2>1, <2>2, SymbolAndSpace
    <2> QED BY <1>1, <2>1, <2>3, StepOutside
  <1>5. CASE OpenString
    <2>1. pos' = pos + 1 /\ dev' = dev /\ Peek = QUOTE
      BY <1>5 DEF OpenString
    <2>2. Peek = text[pos]
      BY <1>2, <2>1, PeekIsThere, SymbolsAssumption
    <2>3. Clean(text, pos, pos')
      BY <1>2, <2>1, <2>2, QuoteIsNoControl, SymbolIsClean
    <2> QED BY <1>1, <1>2, <2>1, <2>3, CleanStep
  <1>6. CASE ReadLiteral
    <2>1. mode \in Between /\ dev' = dev /\ pos' = pos + 1 /\ Peek \in Literal
      BY <1>6, AtomEnds DEF ReadLiteral, Between
    <2>2. text[pos] # QUOTE
      BY <1>2, <2>1, PeekIsThere, SymbolsDiffer, SymbolsAssumption DEF Literal
    <2>3. \A i \in pos .. pos' - 1 : text[i] # QUOTE
      <3>1. \A i \in pos .. pos' - 1 : i = pos
        BY <1>2, <2>1
      <3> QED BY <2>2, <3>1
    <2> QED BY <1>1, <2>1, <2>3, StepOutside
  <1>7. CASE ReadNumber
    <2>1. mode \in Between /\ pos' = NumberEnd /\ NumberEnd # NONE
      BY <1>7, AtomEnds DEF ReadNumber, Between
    <2>2. dev \subseteq dev' /\ dev' \subseteq dev \union {"NonCanonicalNumber"}
      BY <1>7 DEF ReadNumber
    <2>3. \A x \in Numeral : x # QUOTE
      BY SymbolsDiffer DEF Numeral, Digit
    <2>4. \A i \in pos .. pos' - 1 : text[i] # QUOTE
      BY <1>2, <2>1, <2>3, NumberIsPassed DEF Numerals
    <2> QED BY <1>1, <2>1, <2>2, <2>4, StepOutside
  <1>8. CASE ReadPlain
    BY <1>8, PlainIsWatched
  <1>9. CASE ReadEscape
    BY <1>1, <1>9, EscapeIsWatched
  <1>10. CASE CloseString
    <2>1. pos' = pos + 1 /\ dev' = dev /\ Peek = QUOTE
      BY <1>10, AtomEnds DEF CloseString
    <2>2. Peek = text[pos]
      BY <1>2, <2>1, PeekIsThere, SymbolsAssumption
    <2>3. Clean(text, pos, pos')
      BY <1>2, <2>1, <2>2, QuoteIsNoControl, SymbolIsClean
    <2> QED BY <1>1, <1>2, <2>1, <2>3, CleanStep
  <1>11. CASE CloseName
    <2>1. /\ mode \in InText /\ pos' = SkipSpace(text, pos + 1) /\ Peek = QUOTE
          /\ dev \subseteq dev' /\ dev' \subseteq dev \union {"DuplicateKey"}
      BY <1>11 DEF CloseName, InText
    <2>2. pos \in 1 .. Len(text) /\ Peek = text[pos]
      BY <1>2, <2>1, PeekIsThere, SymbolsAssumption
    <2>3. Within_(text, 1, pos, depth)
      BY <2>1 DEF Scanning
    <2>4. PICK q, r : q = pos + 1 /\ r = SkipSpace(text, pos + 1)
      OBVIOUS
    <2>5. Outside(text, 1, q, depth) /\ Reached(text, 1, q)
      BY <1>2, <2>1, <2>2, <2>3, <2>4, OverClosingQuote DEF Advanced
    <2>6. q \in 1 .. Len(text) + 1 /\ q \in Nat
      BY <1>2, <2>2, <2>4
    <2>7. r \in q .. Len(text) + 1 /\ \A i \in q .. r - 1 : text[i] # QUOTE
      BY <1>2, <2>4, <2>6, SpaceHoldsNoQuote
    <2>8. Clean(text, q, r)
      BY <2>5, <2>7, OutsideIsClean
    <2>9. Clean(text, pos, q)
      BY <1>2, <2>1, <2>2, <2>4, QuoteIsNoControl, SymbolIsClean
    <2>10. r \in Nat
      BY <2>6, <2>7
    <2>11. Clean(text, pos, pos')
      BY <1>2, <2>1, <2>4, <2>6, <2>8, <2>9, <2>10, CleanTwice
    <2> QED BY <1>1, <1>2, <2>1, <2>11, CleanStep
  <1>12. CASE Colon
    <2>1. mode \in Between /\ dev' = dev /\ pos' = SkipSpace(text, pos + 1) /\ Peek = ":"
      BY <1>12 DEF Colon, Between
    <2>2. pos \in 1 .. Len(text) /\ text[pos] # QUOTE
      BY <1>2, <2>1, PeekIsThere, SymbolsDiffer, SymbolsAssumption
    <2>3. \A i \in pos .. pos' - 1 : text[i] # QUOTE
      BY <1>2, <2>1, <2>2, SymbolAndSpace
    <2> QED BY <1>1, <2>1, <2>3, StepOutside
  <1>13. PICK p : p = Next_
    OBVIOUS
  <1>14. p \in pos .. Len(text) + 1 /\ \A i \in pos .. p - 1 : text[i] # QUOTE
    BY <1>2, <1>13, SpaceHoldsNoQuote DEF Next_
  <1>15. p \in Nat /\ p \in 1 .. Len(text) + 1
    BY <1>2, <1>14
  <1>16. CASE Comma
    <2>1. mode \in Between /\ dev' = dev /\ pos' = SkipSpace(text, p + 1) /\ At(text, p) = COMMA
      BY <1>13, <1>16 DEF Comma, Between
    <2>2. p \in 1 .. Len(text) /\ text[p] # QUOTE
      BY <1>2, <1>15, <2>1, SymbolIsThere, SymbolsDiffer, SymbolsAssumption
    <2>3. PICK q : q = SkipSpace(text, p + 1)
      OBVIOUS
    <2>4. q \in p + 1 .. Len(text) + 1 /\ \A i \in p .. q - 1 : text[i] # QUOTE
      BY <1>2, <2>2, <2>3, SymbolAndSpace
    <2>5. \A i \in pos .. q - 1 : i \in pos .. p - 1 \/ i \in p .. q - 1
      BY <1>2, <1>15, <2>4
    <2>6. \A i \in pos .. pos' - 1 : text[i] # QUOTE
      BY <1>14, <2>1, <2>3, <2>4, <2>5
    <2> QED BY <1>1, <2>1, <2>6, StepOutside
  <1>17. CASE Close
    <2>1. mode \in Between /\ dev' = dev /\ At(text, p) \in {RBRACE, "]"}
      BY <1>13, <1>17 DEF Close, Between
    <2>2. pos' = p + 1
      <3>1. pos' = [Top EXCEPT !.end = p + 1].end
        BY <1>13, <1>17, AtomEnds DEF Close
      <3>2. "end" \in DOMAIN Top
        <4>1. stack # <<>>
          BY <1>17 DEF Close, Nested
        <4> QED BY <4>1, FramesSplit DEF Nested, Frames, Top
      <3> QED BY <3>1, <3>2
    <2>3. text[p] # QUOTE
      BY <1>2, <1>15, <2>1, SymbolIsThere, SymbolsDiffer, SymbolsAssumption
    <2>4. \A i \in pos .. p + 1 - 1 : i = p \/ i \in pos .. p - 1
      BY <1>2, <1>15
    <2>5. \A i \in pos .. pos' - 1 : text[i] # QUOTE
      BY <1>14, <2>2, <2>3, <2>4
    <2> QED BY <1>1, <2>1, <2>5, StepOutside
  <1> QED BY <1>3, <1>4, <1>5, <1>6, <1>7, <1>8, <1>9, <1>10, <1>11, <1>12, <1>16, <1>17 DEF ReadJson

-----------------------------------------------------------------------------
(***************************************************************************)
(* The invariant of what is reported.                                      *)
(***************************************************************************)
\* Where the two sections of a record are.
BothSections == payload.from .. payload.to \union signature.from .. signature.to

\* What a record shows is reported, and nothing else is.
Shown ==
  /\ \A t \in {payload.tree, signature.tree} : Nests(t, Bound)
  /\ \A x \in OfValues : x \in dev <=> \E t \in {payload.tree, signature.tree} : Exhibits(t, x)
  /\ "ControlCharacterInString" \in dev <=> \E i \in BothSections : IsBare(text, i)

\* After the trees in T, what has been passed is reported.
Noted(T) == Fitting /\ Reported(T) /\ Watched /\ ~HasBare(text, payload.from)

Noting ==
  /\ section = "header" => dev = {}
  /\ section = "payload" => Noted({})
  /\ section = "signature" => /\ Noted({payload.tree}) /\ Nests(payload.tree, Bound)
                              /\ payload.from \in Nat \ {0} /\ payload.to \in Nat
                              /\ ~IsBare(text, payload.to + 1)
  /\ section = "typed" \/ IsRead => Shown

\* Nothing has been read.
LEMMA NotingAtFirst ==
  ASSUME NEW t, NEW p, Reading(t, p)
  PROVE  Noting'
  BY DEF Reading, Noting, IsRead

\* Nothing is read.
LEMMA NotingStays ==
  ASSUME Noting, UNCHANGED <<json, reading>>
  PROVE  Noting'
  <1>1. /\ text' = text /\ pos' = pos /\ stack' = stack /\ mode' = mode
        /\ value' = value /\ dev' = dev
    BY DEF json
  <1>2. section' = section /\ payload' = payload /\ signature' = signature /\ verdict' = verdict
    BY DEF reading
  <1>3. ASSUME NEW T, Noted(T) PROVE Noted(T)'
    <2>1. Fitting' /\ \A x : Exhibited(x)' <=> Exhibited(x)
      BY <1>1, <1>3 DEF Noted, Fitting, Exhibited
    <2>2. Reported(T)'
      BY <1>1, <1>3, <2>1 DEF Noted, Reported
    <2> QED BY <1>1, <1>2, <1>3, <2>1, <2>2 DEF Noted, Watched
  <1>4. Shown => Shown'
    BY <1>1, <1>2 DEF Shown, BothSections
  <1>5. section' = "payload" => Noted({})'
    BY <1>2, <1>3 DEF Noting
  <1>6. section' = "signature" => Noted({payload.tree})'
    <2>1. PICK T : T = {payload.tree}
      OBVIOUS
    <2>2. section' = "signature" => Noted(T)'
      BY <1>2, <1>3, <2>1 DEF Noting
    <2> QED BY <1>2, <2>1, <2>2 DEF Noted, Reported
  <1> QED BY <1>1, <1>2, <1>4, <1>5, <1>6 DEF Noting, IsRead

\* Reading ends with an error.
LEMMA NotingRefused ==
  ASSUME NEW why \in Unreadability, Refuse(why)
  PROVE  Noting'
  <1>1. section' = "done" /\ verdict' = why
    BY DEF Refuse, Conclude
  <1>2. ~IsRead'
    BY <1>1, ErrorsDiffer DEF IsRead
  <1> QED BY <1>1, <1>2 DEF Noting

\* White space between the sections.
LEMMA SpaceIsClean ==
  ASSUME NEW t, NEW p, NEW n, Reached(t, 1, p), Outside(t, 1, p, n), NEW q, q = PastAll(t, p, Space)
  PROVE  Clean(t, p, q)
  <1>1. t \in Seq(Symbols) /\ p \in 1 .. Len(t) + 1 /\ NONE \notin Space
    BY SymbolsAssumption DEF Reached
  <1>2. q \in p .. Len(t) + 1 /\ \A k \in p .. q - 1 : t[k] \in Space
    BY <1>1, PastAllFinds
  <1>3. \A x \in Space : x # QUOTE
    BY SymbolsDiffer DEF Space, JsonSpace
  <1> QED BY <1>2, <1>3, OutsideIsClean

\* A bar, and the white space after it.
LEMMA BarIsClean ==
  ASSUME NEW p, Reached(text, 1, p), p <= Len(text), text[p] = "|", Outside(text, 1, p, 0),
         Balanced(text, p), NEW from, from = p + 1, BeginValue(from)
  PROVE  /\ ~IsBare(text, p) /\ Clean(text, p, from) /\ Clean(text, from, pos')
         /\ pos' \in from .. Len(text) + 1 /\ p \in Nat /\ p >= 1
  <1>1. Reached(text, 1, from) /\ Outside(text, 1, from, 0)
    BY OverBar
  <1>2. p \in Nat /\ p >= 1 /\ from \in 1 .. Len(text) + 1 /\ text \in Seq(Symbols)
    BY <1>1 DEF Reached
  <1>3. pos' \in from .. Len(text) + 1 /\ \A i \in from .. pos' - 1 : text[i] # QUOTE
    BY <1>2, SpaceHoldsNoQuote DEF BeginValue
  <1>4. "|" \notin Control
    BY Zenon DEF Control
  <1>5. Clean(text, p, from)
    BY <1>2, <1>4, SymbolIsClean
  <1>6. Clean(text, from, pos')
    BY <1>1, <1>3, OutsideIsClean
  <1> QED BY <1>2, <1>3, <1>4, <1>5, <1>6 DEF IsBare

\* A section begins: nothing is open, and nothing has been read of it.
LEMMA BeginValueFits ==
  ASSUME NEW at, BeginValue(at)
  PROVE  Fitting' /\ \A x : ~Exhibited(x)'
  <1>1. stack' = <<>> /\ mode' = "value"
    BY DEF BeginValue
  <1>2. Bound \in Nat
    BY LimitsAssumption DEF Bound
  <1>3. Bound' = Bound
    BY DEF Bound
  <1>4. Len(stack') = 0 /\ ~ \E i \in 1 .. 0 : TRUE
    BY <1>1
  <1>5. FramesFit(stack')
    BY <1>2, <1>4 DEF FramesFit
  <1> QED BY <1>1, <1>4, <1>5 DEF Fitting, Exhibited, FramesFit, FramesExhibit

\* The payload section begins.
LEMMA ReadHeaderKeepsNoting ==
  ASSUME Sections, Noting, ReadHeader
  PROVE  Noting'
  <1>0. section = "header" /\ text \in Seq(Symbols)
    BY DEF ReadHeader, Sections
  <1>1. CASE HeaderError # NONE
    <2>1. HeaderError \in Unreadability /\ Refuse(HeaderError)
      BY <1>1, HeaderIsRight DEF ReadHeader
    <2> QED BY <2>1, NotingRefused
  <1>2. CASE HeaderError = NONE
    <2>1. /\ section' = "payload" /\ payload' = [payload EXCEPT !.from = Lead + 2]
          /\ BeginValue(Lead + 2) /\ text' = text /\ dev' = dev
      BY <1>2 DEF ReadHeader
    <2>2. At(text, Lead) = "OCMF" /\ At(text, Lead + 1) = "|"
      BY <1>2, HeaderIsRight
    <2>3. PICK l, p, from : l = Lead /\ p = Lead + 1 /\ from = Lead + 2
      OBVIOUS
    <2>4. Outside(text, 1, l, 0) /\ Advanced(text, 1, 1, l) /\ l \in 1 .. Len(text) + 1
      BY <1>0, <2>3, NoBarsAtFirst, OverAnySpace DEF Lead
    <2>5. l \in 1 .. Len(text) /\ text[l] = "OCMF"
      <3>1. At(text, l) # NONE
        BY <2>2, <2>3, SymbolsAssumption, NamesAssumption
      <3> QED BY <1>0, <2>2, <2>3, <2>4, <3>1, SymbolIsThere
    <2>6. l + 1 \in 1 .. Len(text) /\ text[l + 1] = "|"
      <3>1. At(text, l + 1) # NONE /\ l + 1 \in Nat
        BY <2>2, <2>3, <2>5, SymbolsAssumption
      <3> QED BY <1>0, <2>2, <2>3, <3>1, SymbolIsThere
    <2>7. p \in Nat /\ p = l + 1 /\ p <= Len(text) /\ from = p + 1 /\ text[p] = "|" /\ l \in Nat /\ from \in Nat
      BY <2>3, <2>5, <2>6
    <2>8. Outside(text, 1, p, 0) /\ Advanced(text, 1, l, p)
      <3>1. p \in l .. Len(text) + 1 /\ \A i \in l .. p - 1 : i = l
        BY <2>5, <2>6, <2>7
      <3>2. text[l] \notin {LBRACE, "[", RBRACE, "]", QUOTE, BACKSLASH, "|"}
        BY <2>5, SymbolsDiffer
      <3>3. Reached(text, 1, l)
        BY <2>4 DEF Advanced
      <3> QED BY <2>4, <3>1, <3>2, <3>3, OverSymbols
    <2>9. Reached(text, 1, p) /\ Bars(text, p) = {} /\ Balanced(text, p)
      BY <1>0, <2>4, <2>8, NoBarsAtFirst DEF Advanced, Balanced
    <2>10. Clean(text, 1, l)
      <3>1. Reached(text, 1, 1) /\ Outside(text, 1, 1, 0)
        BY <1>0, NoBarsAtFirst
      <3> QED BY <2>3, <3>1, SpaceIsClean DEF Lead
    <2>11. Clean(text, l, p)
      <3>1. "OCMF" \notin Control
        BY Zenon DEF Control
      <3> QED BY <2>5, <2>7, <3>1, SymbolIsClean
    <2>12. Clean(text, p, from) /\ Clean(text, from, pos') /\ pos' \in from .. Len(text) + 1
      BY <2>1, <2>3, <2>7, <2>8, <2>9, BarIsClean
    <2>13. Clean(text, 1, from)
      BY <2>7, <2>10, <2>11, <2>12, CleanTwice
    <2>14. ~HasBare(text, from)
      BY <2>7, <2>13 DEF Clean, HasBare
    <2>15. ~HasBare(text, pos')
      BY <2>7, <2>12, <2>14, CleanAddsNothing
    <2>16. payload'.from = from
      BY <2>1, <2>3 DEF Sections, IsSection
    <2>17. Fitting' /\ \A x : ~Exhibited(x)'
      BY <2>1, BeginValueFits
    <2>18. dev' = {}
      BY <1>0, <2>1 DEF Noting
    <2>19. Reported({})'
      BY <2>17, <2>18 DEF Reported
    <2>20. Watched'
      BY <2>1, <2>15, <2>18 DEF Watched
    <2>21. Noted({})'
      BY <2>1, <2>14, <2>16, <2>17, <2>19, <2>20 DEF Noted
    <2> QED BY <2>1, <2>21 DEF Noting, IsRead
  <1> QED BY <1>1, <1>2

\* A step of the JSON reader keeps what is known of its reports.
LEMMA NotedMoves ==
  ASSUME NEW T, Noted(T), Grown, Nested, Scanning(1), ReadJson
  PROVE  /\ Fitting' /\ Reported(T)' /\ Watched' /\ text' = text
  <1>1. PICK A : Fitting' /\ Telling(A)
    BY ReadJsonTells DEF Noted
  <1>2. Reported(T)'
    BY <1>1, TellingReports DEF Noted
  <1>3. Watched'
    BY ReadJsonWatches DEF Noted
  <1>4. text' = text
    BY ReadJsonMoves DEF Moves
  <1> QED BY <1>1, <1>2, <1>3, <1>4

\* In the payload or the signature section.
LEMMA ReadValueKeepsNoting ==
  ASSUME Sections, Judging, Noting, ReadValue
  PROVE  Noting'
  <1>1. ReadJson /\ section \in {"payload", "signature"} /\ section' = section
        /\ payload' = payload /\ signature' = signature /\ verdict' = verdict
    BY DEF ReadValue, reading
  <1>2. Scanning(1) /\ Nested /\ Grown
    BY <1>1 DEF Sections, Started, Judging
  <1>3. CASE section = "payload"
    <2>1. PICK T : T = {}
      OBVIOUS
    <2>2. Noted(T)
      BY <1>3, <2>1 DEF Noting
    <2>3. Fitting' /\ Reported(T)' /\ Watched' /\ text' = text
      BY <1>1, <1>2, <2>2, NotedMoves
    <2>4. Noted({})'
      BY <1>1, <2>1, <2>2, <2>3 DEF Noted, Reported
    <2> QED BY <1>1, <1>3, <2>4 DEF Noting, IsRead
  <1>4. CASE section = "signature"
    <2>1. PICK T : T = {payload.tree}
      OBVIOUS
    <2>2. Noted(T)
      BY <1>4, <2>1 DEF Noting
    <2>3. Fitting' /\ Reported(T)' /\ Watched' /\ text' = text
      BY <1>1, <1>2, <2>2, NotedMoves
    <2>4. Noted({payload.tree})'
      BY <1>1, <2>1, <2>2, <2>3 DEF Noted, Reported
    <2>5. Nests(payload.tree, Bound)'
      BY <1>1, <1>4 DEF Noting
    <2> QED BY <1>1, <1>4, <2>3, <2>4, <2>5 DEF Noting, IsRead
  <1> QED BY <1>1, <1>3, <1>4

\* A value is complete and nothing is open: it is all that is told of.
LEMMA CompleteIsAll ==
  ASSUME Nested, mode = "complete", Fitting
  PROVE  Nests(value, Bound) /\ \A x : Exhibited(x) <=> Exhibits(value, x)
  <1>1. stack = <<>> /\ ~ \E i \in 1 .. 0 : TRUE
    BY DEF Nested
  <1>2. Len(stack) = 0
    BY <1>1
  <1> QED BY <1>1, <1>2 DEF Fitting, Exhibited, FramesExhibit

\* The signature section begins.
LEMMA EndPayloadKeepsNoting ==
  ASSUME Sections, Noting, EndPayload
  PROVE  Noting'
  <1>0. section = "payload" /\ mode = "complete" /\ text \in Seq(Symbols)
    BY DEF EndPayload, Sections
  <1>1. CASE PayloadError # NONE
    <2>1. PayloadError \in Unreadability /\ Refuse(PayloadError)
      BY <1>1, PayloadIsRight DEF EndPayload
    <2> QED BY <2>1, NotingRefused
  <1>2. CASE PayloadError = NONE
    <2>1. /\ section' = "signature"
          /\ payload' = [payload EXCEPT !.to = Bar - 1, !.tree = value]
          /\ BeginValue(Bar + 1) /\ text' = text
          /\ dev' = dev \union Report("PrettyPrintedPayload",
                                      IsPretty(SubSeq(text, payload.from, Bar - 1)))
      BY <1>2 DEF EndPayload
    <2>2. Bar # NONE /\ Bar # 0
      BY <1>2, PayloadIsRight
    <2>3. PICK p, from, B, at :
            p = PastAll(text, pos, Space) /\ from = payload.from /\ B = {payload.from - 1} /\ at = Bar + 1
      OBVIOUS
    <2>4. Started(from, B)
      BY <1>0, <2>3 DEF Sections
    <2>5. /\ p \in 1 .. Len(text) + 1 /\ Reached(text, 1, p) /\ Outside(text, 1, p, 0)
          /\ Bars(text, p) = B /\ Balanced(text, p)
          /\ Bar = (IF p > Len(text) THEN NONE ELSE IF text[p] = "|" THEN p ELSE 0)
      BY <1>0, <2>3, <2>4, BarIsFound
    <2>6. Bar = p /\ p <= Len(text) /\ text[p] = "|" /\ at = p + 1 /\ p \in Nat
      BY <2>2, <2>3, <2>5
    <2>7. payload'.from = from /\ payload'.to = p - 1 /\ payload'.tree = value /\ p - 1 \in Nat /\ p - 1 + 1 = p
      BY <2>1, <2>3, <2>5, <2>6 DEF Sections, IsSection
    <2>8. from \in Nat \ {0} /\ from <= pos /\ pos \in Nat /\ Nested
      BY <2>4 DEF Started, Scanning, Reached
    <2>9. Reached(text, 1, pos) /\ Outside(text, 1, pos, 0)
      <3>1. mode \in Between
        BY <1>0 DEF Between
      <3>2. depth = 0
        BY <1>0, <2>8 DEF Nested
      <3> QED BY <2>4, <3>1, <3>2 DEF Started, Scanning
    <2>10. Clean(text, pos, p) /\ p >= pos
      <3>1. p \in pos .. Len(text) + 1
        BY <2>3, <2>9, OverAnySpace
      <3> QED BY <2>3, <2>8, <2>9, <3>1, SpaceIsClean
    <2>11. ~IsBare(text, p) /\ Clean(text, p, at) /\ Clean(text, at, pos') /\ pos' \in at .. Len(text) + 1
      BY <2>1, <2>3, <2>5, <2>6, BarIsClean
    <2>12. at \in Nat /\ pos' \in Nat /\ pos <= pos' /\ pos >= 1
      BY <2>6, <2>8, <2>10, <2>11
    <2>13. HasBare(text, pos') <=> HasBare(text, pos)
      <3>1. Clean(text, pos, pos')
        BY <2>6, <2>8, <2>10, <2>11, <2>12, CleanTwice
      <3> QED BY <2>8, <2>12, <3>1, CleanAddsNothing
    <2>14. Noted({})
      BY <1>0 DEF Noting
    <2>15. \A x \in OfTheText : x \in dev' <=> x \in dev
      BY <2>1 DEF Report, OfTheText
    <2>16. Watched'
      BY <2>1, <2>13, <2>14, <2>15 DEF Noted, Watched, OfTheText
    <2>17. Nests(value, Bound) /\ \A x : Exhibited(x) <=> Exhibits(value, x)
      BY <1>0, <2>8, <2>14, CompleteIsAll DEF Noted
    <2>18. Fitting' /\ \A x : ~Exhibited(x)'
      BY <2>1, BeginValueFits
    <2>19. \A x \in OfValues : x \in dev' <=> Exhibits(value, x)
      <3>1. \A x \in OfValues : x \in OfTheText
        BY DEF OfValues, OfTheText
      <3> QED BY <2>14, <2>15, <2>17, <3>1 DEF Noted, Reported
    <2>20. Reported({payload.tree})'
      BY <2>7, <2>18, <2>19 DEF Reported
    <2>21. Noted({payload.tree})'
      BY <2>1, <2>3, <2>7, <2>14, <2>16, <2>18, <2>20 DEF Noted
    <2>22. Nests(payload.tree, Bound)'
      <3>1. Bound' = Bound
        BY DEF Bound
      <3> QED BY <2>7, <2>17, <3>1 DEF Nests
    <2>23. (~IsBare(text, payload.to + 1))'
      BY <2>1, <2>7, <2>11
    <2> QED BY <2>1, <2>7, <2>8, <2>21, <2>22, <2>23 DEF Noting, IsRead
  <1> QED BY <1>1, <1>2

\* The sections have been read.
LEMMA EndSignatureKeepsNoting ==
  ASSUME Sections, Noting, EndSignature
  PROVE  Noting'
  <1>0. section = "signature" /\ mode = "complete" /\ text \in Seq(Symbols)
    BY DEF EndSignature, Sections
  <1>1. CASE SignatureError # NONE
    <2>1. SignatureError \in Unreadability /\ Refuse(SignatureError)
      BY <1>1, SignatureIsRight DEF EndSignature
    <2> QED BY <2>1, NotingRefused
  <1>2. CASE SignatureError = NONE
    <2>1. /\ section' = "typed" /\ text' = text /\ payload' = payload
          /\ signature' = [signature EXCEPT !.to = IF Bar = NONE THEN Len(text) ELSE Bar - 1,
                                            !.tree = value]
          /\ dev' = dev \union Report("FourthSectionPublicKey", Bar # NONE)
      BY <1>2 DEF EndSignature
    <2>2. Bar # 0
      BY <1>2, SignatureIsRight
    <2>3. PICK p, from, B, k :
            /\ p = PastAll(text, pos, Space) /\ from = signature.from
            /\ B = {payload.from - 1, payload.to + 1} /\ k = payload.to
      OBVIOUS
    <2>4. Started(from, B) /\ from = k + 2
      BY <1>0, <2>3 DEF Sections
    <2>5. /\ p \in 1 .. Len(text) + 1 /\ Len(text) \in Nat
          /\ Bar = (IF p > Len(text) THEN NONE ELSE IF text[p] = "|" THEN p ELSE 0)
      BY <1>0, <2>3, <2>4, BarIsFound
    <2>6. signature'.from = from /\ signature'.to = p - 1 /\ signature'.tree = value /\ p \in Nat
      <3>1. signature'.to = (IF Bar = NONE THEN Len(text) ELSE Bar - 1) /\ signature'.from = from
            /\ signature'.tree = value
        BY <2>1, <2>3 DEF Sections, IsSection
      <3>2. CASE p > Len(text)
        <4>1. Bar = NONE /\ Len(text) = p - 1
          BY <2>5, <3>2
        <4> QED BY <2>5, <3>1, <4>1
      <3>3. CASE p <= Len(text)
        <4>1. Bar = p /\ Bar # NONE
          BY <2>2, <2>5, <3>3, NoneAssumption
        <4> QED BY <2>5, <3>1, <4>1
      <3> QED BY <2>5, <3>2, <3>3
    <2>7. from \in Nat \ {0} /\ from <= pos /\ pos \in Nat /\ Nested
      BY <2>4 DEF Started, Scanning, Reached
    <2>8. Reached(text, 1, pos) /\ Outside(text, 1, pos, 0)
      <3>1. mode \in Between
        BY <1>0 DEF Between
      <3>2. depth = 0
        BY <1>0, <2>7 DEF Nested
      <3> QED BY <2>4, <3>1, <3>2 DEF Started, Scanning
    <2>9. Clean(text, pos, p) /\ p >= pos
      <3>1. p \in pos .. Len(text) + 1
        BY <2>3, <2>8, OverAnySpace
      <3> QED BY <2>3, <2>7, <2>8, <3>1, SpaceIsClean
    <2>10. HasBare(text, p) <=> HasBare(text, pos)
      BY <2>6, <2>7, <2>9, CleanAddsNothing
    <2>11. /\ Noted({payload.tree}) /\ Nests(payload.tree, Bound) /\ payload.from \in Nat \ {0} /\ k \in Nat
           /\ ~IsBare(text, k + 1)
      BY <1>0, <2>3 DEF Noting
    <2>12. \A x \in OfTheText \ {"FourthSectionPublicKey"} : x \in dev' <=> x \in dev
      BY <2>1 DEF Report, OfTheText
    <2>13. "ControlCharacterInString" \in dev' <=> HasBare(text, p)
      <3>1. "ControlCharacterInString" \in OfTheText \ {"FourthSectionPublicKey"}
        BY Zenon DEF OfTheText
      <3> QED BY <2>10, <2>11, <2>12, <3>1 DEF Noted, Watched
    <2>14. HasBare(text, p) <=> \E i \in BothSections' : IsBare(text, i)
      <3>1. PICK f \in Nat \ {0} : f = payload.from
        BY <2>11
      <3>2. BothSections' = f .. k \union from .. p - 1
        BY <2>1, <2>3, <2>6, <3>1 DEF BothSections
      <3>3. \A i \in 1 .. p - 1 : i \in 1 .. f - 1 \/ i \in f .. k \/ i = k + 1 \/ i \in from .. p - 1
        BY <2>4, <2>6, <2>11
      <3>4. \A i \in f .. k \union from .. p - 1 : i \in 1 .. p - 1
        BY <2>4, <2>6, <2>7, <2>9, <2>11
      <3>5. \A i \in 1 .. f - 1 : ~IsBare(text, i)
        BY <2>11, <3>1 DEF Noted, HasBare
      <3> QED BY <2>11, <3>2, <3>3, <3>4, <3>5 DEF HasBare
    <2>15. Nests(value, Bound) /\ \A x : Exhibited(x) <=> Exhibits(value, x)
      BY <1>0, <2>7, <2>11, CompleteIsAll DEF Noted
    <2>16. \A x \in OfValues : x \in dev' <=> Exhibits(payload.tree, x) \/ Exhibits(value, x)
      <3>1. \A x \in OfValues : x \in OfTheText \ {"FourthSectionPublicKey"}
        BY Zenon DEF OfValues, OfTheText
      <3> QED BY <2>11, <2>12, <2>15, <3>1 DEF Noted, Reported
    <2>17. Shown'
      <3>1. Bound' = Bound
        BY DEF Bound
      <3>2. {payload'.tree, signature'.tree} = {payload.tree, value}
        BY <2>1, <2>6
      <3>3. \A t \in {payload'.tree, signature'.tree} : Nests(t, Bound')
        BY <2>11, <2>15, <3>1, <3>2
      <3> QED BY <2>1, <2>13, <2>14, <2>16, <3>2, <3>3 DEF Shown
    <2> QED BY <2>1, <2>17 DEF Noting
  <1> QED BY <1>1, <1>2

\* The verdict reports nothing about the syntax.
LEMMA JudgeKeepsNoting ==
  ASSUME Noting, Judge
  PROVE  Noting'
  <1>1. /\ section = "typed" /\ section' = "done" /\ text' = text
        /\ payload' = payload /\ signature' = signature
        /\ dev' = dev \union PayloadDeviations(payload.tree) \union SignatureDeviations(signature.tree)
    BY DEF Judge, Conclude
  <1>2. Quiet(PayloadDeviations(payload.tree))
    BY BlocksAreQuiet DEF Quiet, OfTheText, PayloadDeviations, Unknown, Report
  <1>3. Quiet(SignatureDeviations(signature.tree))
    BY DEF Quiet, OfTheText, SignatureDeviations, Report
  <1>4. \A x \in OfTheText : x \in dev' <=> x \in dev
    BY <1>1, <1>2, <1>3 DEF Quiet
  <1>5. "ControlCharacterInString" \in OfTheText /\ \A x \in OfValues : x \in OfTheText
    BY Zenon DEF OfTheText, OfValues
  <1>6. Shown
    BY <1>1 DEF Noting
  <1>7. BothSections' = BothSections /\ Bound' = Bound
    BY <1>1 DEF BothSections, Bound
  <1>8. Shown'
    BY <1>1, <1>4, <1>5, <1>6, <1>7 DEF Shown
  <1> QED BY <1>1, <1>8 DEF Noting

\* A text is read by such steps and by no others.
LEMMA ReadKeepsNoting ==
  ASSUME Sections, Judging, Noting, Read
  PROVE  Noting'
  <1>1. CASE Unreadable
    <2>1. error \in Unreadability /\ Refuse(error)
      BY <1>1 DEF Unreadable, Sections, Started
    <2> QED BY <2>1, NotingRefused
  <1> QED BY <1>1, ReadHeaderKeepsNoting, ReadValueKeepsNoting, EndPayloadKeepsNoting,
             EndSignatureKeepsNoting, JudgeKeepsNoting DEF Read, Scan

\* Signing keeps it too.
LEMMA BuildKeepsNoting ==
  ASSUME Sections, Judging, Noting, Build
  PROVE  Noting'
  <1>1. CASE Render
    BY <1>1, NotingStays DEF Render
  <1>2. CASE Emit
    BY <1>2, NotingStays, NotingAtFirst DEF Emit
  <1>3. CASE ReadBack
    BY <1>3, ReadKeepsNoting DEF ReadBack
  <1>4. CASE SelfCheck
    BY <1>4, NotingStays DEF SelfCheck
  <1> QED BY <1>1, <1>2, <1>3, <1>4 DEF Build

\* Whatever a program asks of the library.
LEMMA NotingAlways == Spec => []Noting
  <1>1. Init => Noting
    <2> SUFFICES ASSUME Init PROVE Noting
      OBVIOUS
    <2>1. NothingRead
      BY DEF Init
    <2> QED BY <2>1 DEF NothingRead, Noting, IsRead
  <1>2. Noting /\ Judging /\ Sections /\ [Next]_vars => Noting'
    <2> SUFFICES ASSUME Sections, Judging, Noting, [Next]_vars PROVE Noting'
      OBVIOUS
    <2>1. CASE UNCHANGED using_library
      BY <2>1, NotingStays DEF using_library
    <2>2. CASE CallRead
      <3>1. PICK task \in ReadTasks : Reading(task[1], task[2])
        BY <2>2 DEF CallRead
      <3> QED BY <3>1, NotingAtFirst
    <2>3. CASE CallSign
      BY <2>3, NotingStays DEF CallSign
    <2>4. CASE ReadOnly
      BY <2>4, ReadKeepsNoting DEF ReadOnly
    <2>5. CASE Building
      BY <2>5, BuildKeepsNoting DEF Building
    <2>6. CASE CallTool \/ Tool \/ CallForm \/ Forming
      BY <2>1, <2>6 DEF CallTool, Tool, CallForm, Forming
    <2>7. CASE UNCHANGED vars
      BY <2>1, <2>7 DEF vars
    <2> QED BY <2>2, <2>3, <2>4, <2>5, <2>6, <2>7 DEF Next
  <1>3. (Sections /\ Writing) => Sections
    OBVIOUS
  <1> QED BY <1>1, <1>2, <1>3, SectionsAlways, JudgingAlways, PTL DEF Spec

\* What is shown is what the runs check.
LEMMA SyntaxShows ==
  ASSUME Noting
  PROVE  SyntaxIsReported
  <1> SUFFICES ASSUME IsRead PROVE SyntaxIsReported
    BY DEF SyntaxIsReported
  <1>1. Shown
    BY DEF Noting
  <1>2. ASSUME NEW x
        PROVE  (\E t \in {payload.tree, signature.tree} : Exhibits(t, x)) <=> \E v \in Values : Shows(v, x)
    <2>1. ASSUME NEW v PROVE v \in Values <=> \E t \in {payload.tree, signature.tree} :
                                                 \E n \in Nat : Leads(t, n, v)
      BY <1>1, ValuesAreInside DEF Shown
    <2> QED BY <2>1 DEF Exhibits
  <1>3. "DuplicateKey" \in dev <=> \E o \in Values : Twice(o)
    <2>1. "DuplicateKey" \in OfValues
      BY DEF OfValues
    <2> QED BY <1>1, <1>2, <2>1 DEF Shown, Shows
  <1>4. "NonCanonicalNumber" \in dev <=> \E v \in Values : IsZeroLed(v)
    <2>1. "NonCanonicalNumber" \in OfValues /\ "NonCanonicalNumber" # "DuplicateKey"
      BY DEF OfValues
    <2> QED BY <1>1, <1>2, <2>1 DEF Shown, Shows
  <1>5. "ControlCharacterInString" \in dev <=>
          \E i \in BothSections : /\ text[i] \in Control /\ Quoted(text, i)
                                  /\ ~(Cardinality(Backslashes(text, i)) % 2 = 1)
    BY <1>1 DEF Shown, IsBare
  <1> QED BY <1>3, <1>4, <1>5, Zenon
       DEF SyntaxIsReported, Twice, IsZeroLed, ZeroLed, Backslashes, BothSections

\* Whatever text a station signed, what JSON forbids or leaves open in it is reported and
\* nothing else is called so: a name that an object has twice, however the two are spelled
\* and however many members lie between them; a bare control character in a string; a
\* number with a leading zero, at any depth within the bound (json.rs).
THEOREM SyntaxIsAlwaysReported == Spec => []SyntaxIsReported
  <1>1. Noting => SyntaxIsReported
    BY SyntaxShows
  <1> QED BY <1>1, NotingAlways, PTL

=============================================================================

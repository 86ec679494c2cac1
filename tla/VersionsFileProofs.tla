------------------------- MODULE VersionsFileProofs -------------------------
(***************************************************************************)
(* Proofs about VersionsFile, for all lists of releases and of deleted     *)
(* files: the order of versions that the choice of the releases to install *)
(* rests on, and what the two lists are read as.                           *)
(***************************************************************************)
EXTENDS VersionsFile, FiniteSetTheorems, WellFoundedInduction, TLAPS

(* No version is older than itself, being older is transitive, and of two  *)
(* versions that are not equal exactly one is older                        *)
(* (rrc_version_is_older and rrc_version_equals, versionutils.c:24-40, 92).*)
THEOREM VersionsOrdered ==
  \A a, b, c \in Versions :
    /\ ~IsOlder(a, a)
    /\ IsOlder(a, b) /\ IsOlder(b, c) => IsOlder(a, c)
    /\ IsOlder(a, b) => ~IsOlder(b, a)
    /\ VersionEquals(a, b) <=> ~IsOlder(a, b) /\ ~IsOlder(b, a)
BY DEF IsOlder, VersionEquals, Versions

(* After an update to one release, what is left to install is what was left*)
(* before without the releases up to that one: a repeated update goes on   *)
(* where the last one ended (versionsfile.c:303, update.c:613).            *)
THEOREM UpdatesGoOn ==
  \A from, to, v \in Versions :
    IsOlder(from, to) => (IsOlder(to, v) <=>
                            /\ IsOlder(from, v)
                            /\ ~(IsOlder(v, to) \/ VersionEquals(v, to)))
BY DEF IsOlder, VersionEquals, Versions

-----------------------------------------------------------------------------
(* Induction                                                               *)

LEMMA MinMember ==
  ASSUME NEW S, S \subseteq Nat, S # {}
  PROVE  Min(S) \in S /\ \A y \in S : Min(S) <= y
<1>1. \E x \in S : \A y \in S : ~ (<<y, x>> \in OpToRel(<, Nat))
  BY NatLessThanWellFounded, WFMin, Zenon
<1>2. \A x, y \in Nat : <<y, x>> \in OpToRel(<, Nat) <=> y < x
  BY DEF OpToRel
<1>3. \A x, y \in Nat : ~ (y < x) => x <= y
  OBVIOUS
<1>4. \E x \in S : \A y \in S : x <= y
  BY <1>1, <1>2, <1>3, Zenon
<1> QED
  BY <1>4, Zenon DEF Min

(* Induction over the numbers, for a set: the library's theorems take an   *)
(* operator.                                                               *)
LEMMA Induction ==
  ASSUME NEW S, 0 \in S, \A n \in Nat : n \in S => n + 1 \in S
  PROVE  Nat \subseteq S
<1> SUFFICES ASSUME Nat \ S # {} PROVE FALSE
  OBVIOUS
<1> DEFINE m == Min(Nat \ S)
<1>1. m \in Nat \ S /\ \A y \in Nat \ S : m <= y
  <2> DEFINE T == Nat \ S
  <2>1. T \subseteq Nat /\ T # {}
    OBVIOUS
  <2> HIDE DEF T
  <2>2. Min(T) \in T /\ \A y \in T : Min(T) <= y
    BY <2>1, MinMember
  <2> QED
    BY <2>2 DEF T
<1> HIDE DEF m
<1>2. m # 0
  BY <1>1
<1>3. m - 1 \in Nat /\ m - 1 \in S
  BY <1>1, <1>2
<1>4. (m - 1) + 1 = m
  BY <1>1
<1> QED
  BY <1>1, <1>3, <1>4

-----------------------------------------------------------------------------
(* A value that is computed one index after the other                      *)

Computes(f, n, S, start, rule) ==
  /\ f \in [0 .. n -> S]
  /\ f[0] = start
  /\ \A i \in 1 .. n : f[i] = rule[i][f[i - 1]]

LEMMA Recursion ==
  ASSUME NEW n \in Nat, NEW S, NEW start \in S, NEW rule \in [1 .. n -> [S -> S]]
  PROVE  \E f : Computes(f, n, S, start, rule)
<1> DEFINE T == {m \in Nat : m <= n => \E f \in [0 .. m -> S] :
                   f[0] = start /\ \A i \in 1 .. m : f[i] = rule[i][f[i - 1]]}
<1>1. 0 \in T
  <2> DEFINE f == [i \in 0 .. 0 |-> start]
  <2>1. f \in [0 .. 0 -> S] /\ f[0] = start /\ \A i \in 1 .. 0 : f[i] = rule[i][f[i - 1]]
    OBVIOUS
  <2> QED
    BY <2>1
<1>2. ASSUME NEW m \in Nat, m \in T PROVE m + 1 \in T
  <2> SUFFICES ASSUME m + 1 <= n
      PROVE  \E f \in [0 .. m + 1 -> S] :
               f[0] = start /\ \A i \in 1 .. m + 1 : f[i] = rule[i][f[i - 1]]
    OBVIOUS
  <2>1. PICK f \in [0 .. m -> S] :
          f[0] = start /\ \A i \in 1 .. m : f[i] = rule[i][f[i - 1]]
    BY <1>2
  <2> DEFINE g == [i \in 0 .. m + 1 |-> IF i <= m THEN f[i] ELSE rule[m + 1][f[m]]]
  <2>2. rule[m + 1][f[m]] \in S
    <3>1. m + 1 \in 1 .. n /\ f[m] \in S
      BY <2>1
    <3> QED
      BY <3>1
  <2>3. g \in [0 .. m + 1 -> S] /\ g[0] = start
    BY <2>1, <2>2
  <2>4. ASSUME NEW i \in 1 .. m + 1 PROVE g[i] = rule[i][g[i - 1]]
    <3>1. i - 1 \in 0 .. m /\ g[i - 1] = f[i - 1]
      OBVIOUS
    <3>2. CASE i <= m
      BY <2>1, <3>1, <3>2
    <3>3. CASE i = m + 1
      BY <3>1, <3>3
    <3> QED
      BY <3>2, <3>3
  <2> HIDE DEF g
  <2> QED
    BY <2>3, <2>4
<1>3. Nat \subseteq T
  <2> HIDE DEF T
  <2> QED
    BY <1>1, <1>2, Induction
<1> QED
  BY <1>3 DEF Computes

-----------------------------------------------------------------------------
(* Splitting a text                                                        *)

LEMMA ScanEquation ==
  ASSUME NEW text, NEW by, NEW n \in Nat, Len(text) = n
  PROVE  Scan(text, by) = [i \in 0 .. Len(text) |->
           IF i = 0 THEN [out |-> << >>, start |-> 1]
           ELSE LET acc == Scan(text, by)[i - 1]
                    end == IF text[i] = by THEN i - 1 ELSE i
                IN IF text[i] = by \/ i = Len(text)
                     THEN [out |-> Append(acc.out, SubSeq(text, acc.start, end)),
                           start |-> i + 1]
                     ELSE acc]
<1> DEFINE sub(p, q) == SubSeq(text, p, q)
<1> HIDE DEF sub
<1> DEFINE U == {sub(p, q) : p \in Nat, q \in Nat}
           S == [out : Seq(U), start : Nat]
           first == [out |-> << >>, start |-> 1]
           piece(i, from) == sub(from, IF text[i] = by THEN i - 1 ELSE i)
           rule == [i \in 1 .. n |-> [acc \in S |->
             IF text[i] = by \/ i = n
               THEN [out |-> Append(acc.out, piece(i, acc.start)), start |-> i + 1]
               ELSE acc]]
<1>1. ASSUME NEW i \in 1 .. n, NEW acc \in S
      PROVE  [out |-> Append(acc.out, piece(i, acc.start)), start |-> i + 1] \in S
  <2>1. piece(i, acc.start) \in U
    <3>1. PICK q \in Nat : q = IF text[i] = by THEN i - 1 ELSE i
      OBVIOUS
    <3>2. PICK p \in Nat : p = acc.start
      OBVIOUS
    <3>3. sub(p, q) \in U
      OBVIOUS
    <3>4. piece(i, acc.start) = sub(p, q)
      BY <3>1, <3>2
    <3> QED
      BY <3>3, <3>4
  <2> HIDE DEF U, piece
  <2>2. Append(acc.out, piece(i, acc.start)) \in Seq(U)
    BY <2>1
  <2> QED
    BY <2>2
<1>2. first \in S
  <2> HIDE DEF U
  <2> QED
    OBVIOUS
<1> HIDE DEF piece
<1>3. rule \in [1 .. n -> [S -> S]]
  <2> HIDE DEF S
  <2> QED
    BY <1>1
<1>4. \A i \in 1 .. n, acc \in S : rule[i][acc] =
        IF text[i] = by \/ i = n
          THEN [out |-> Append(acc.out, piece(i, acc.start)), start |-> i + 1]
          ELSE acc
  <2> HIDE DEF S
  <2> QED
    OBVIOUS
<1> HIDE DEF S, rule, first
<1>5. PICK f : Computes(f, n, S, first, rule)
  BY <1>2, <1>3, Recursion
<1>6. ASSUME NEW i \in 0 .. n
      PROVE  f[i] = IF i = 0 THEN [out |-> << >>, start |-> 1]
           ELSE LET acc == f[i - 1]
                    end == IF text[i] = by THEN i - 1 ELSE i
                IN IF text[i] = by \/ i = Len(text)
                     THEN [out |-> Append(acc.out, SubSeq(text, acc.start, end)),
                           start |-> i + 1]
                     ELSE acc
  <2>1. CASE i = 0
    BY <1>5, <2>1 DEF Computes, first
  <2>2. CASE i # 0
    <3>1. i \in 1 .. n /\ i - 1 \in 0 .. n
      BY <2>2
    <3>2. f[i - 1] \in S /\ f[i] = rule[i][f[i - 1]]
      BY <1>5, <3>1 DEF Computes
    <3> QED
      BY <1>4, <2>2, <3>1, <3>2 DEF piece, sub
  <2> QED
    BY <2>1, <2>2
<1>7. f = [i \in 0 .. Len(text) |->
           IF i = 0 THEN [out |-> << >>, start |-> 1]
           ELSE LET acc == f[i - 1]
                    end == IF text[i] = by THEN i - 1 ELSE i
                IN IF text[i] = by \/ i = Len(text)
                     THEN [out |-> Append(acc.out, SubSeq(text, acc.start, end)),
                           start |-> i + 1]
                     ELSE acc]
  BY <1>5, <1>6 DEF Computes
<1> QED
  BY <1>7, Zenon DEF Scan

(* What each index does to the elements found so far.                      *)
Scans(scan, text, by, n) ==
  /\ scan[0] = [out |-> << >>, start |-> 1]
  /\ \A i \in 1 .. n :
       LET acc == scan[i - 1] IN
       /\ text[i] = by => scan[i] =
            [out |-> Append(acc.out, SubSeq(text, acc.start, i - 1)), start |-> i + 1]
       /\ text[i] # by /\ i = n => scan[i] =
            [out |-> Append(acc.out, SubSeq(text, acc.start, i)), start |-> i + 1]
       /\ text[i] # by /\ i # n => scan[i] = acc

LEMMA ScanStep ==
  ASSUME NEW text, NEW by, NEW n \in Nat, Len(text) = n
  PROVE  Scans(Scan(text, by), text, by, n)
<1> DEFINE f == Scan(text, by)
<1>1. f = [i \in 0 .. Len(text) |->
           IF i = 0 THEN [out |-> << >>, start |-> 1]
           ELSE LET acc == f[i - 1]
                    end == IF text[i] = by THEN i - 1 ELSE i
                IN IF text[i] = by \/ i = Len(text)
                     THEN [out |-> Append(acc.out, SubSeq(text, acc.start, end)),
                           start |-> i + 1]
                     ELSE acc]
  BY ScanEquation
<1> HIDE DEF f
<1>2. f[0] = [out |-> << >>, start |-> 1]
  BY <1>1
<1>3. ASSUME NEW i \in 1 .. n
      PROVE  f[i] = LET acc == f[i - 1]
                        end == IF text[i] = by THEN i - 1 ELSE i
                    IN IF text[i] = by \/ i = n
                     THEN [out |-> Append(acc.out, SubSeq(text, acc.start, end)),
                           start |-> i + 1]
                     ELSE acc
  <2>1. i \in 0 .. Len(text) /\ i # 0
    OBVIOUS
  <2> QED
    BY <1>1, <2>1
<1>4. ASSUME NEW i \in 1 .. n
      PROVE  LET acc == f[i - 1] IN
              /\ text[i] = by => f[i] =
                   [out |-> Append(acc.out, SubSeq(text, acc.start, i - 1)), start |-> i + 1]
              /\ text[i] # by /\ i = n => f[i] =
                   [out |-> Append(acc.out, SubSeq(text, acc.start, i)), start |-> i + 1]
              /\ text[i] # by /\ i # n => f[i] = acc
  <2>1. text[i] = by => (IF text[i] = by THEN i - 1 ELSE i) = i - 1
    OBVIOUS
  <2>2. text[i] # by => (IF text[i] = by THEN i - 1 ELSE i) = i
    OBVIOUS
  <2> QED
    BY <1>3, <2>1, <2>2
<1> QED
  BY <1>2, <1>4 DEF f, Scans

LEMMA AppendFacts ==
  ASSUME NEW T, NEW s \in Seq(T), NEW e \in T
  PROVE  /\ Append(s, e) \in Seq(T) /\ Len(Append(s, e)) = Len(s) + 1
         /\ \A i \in 1 .. Len(s) : Append(s, e)[i] = s[i]
         /\ Append(s, e)[Len(s) + 1] = e
OBVIOUS

LEMMA SameSequence ==
  ASSUME NEW T, NEW s \in Seq(T), NEW t \in Seq(T), Len(s) = Len(t),
         \A i \in 1 .. Len(s) : s[i] = t[i]
  PROVE  s = t
OBVIOUS

LEMMA AppendSecond ==
  ASSUME NEW a, NEW b
  PROVE  LET s == Append(<<a>>, b) IN Len(s) = 2 /\ s[1] = a /\ s[2] = b
<1> DEFINE one == <<a>>
           T == {a, b}
           s == Append(one, b)
<1>1. one \in Seq(T) /\ b \in T
  OBVIOUS
<1>2. Len(one) = 1 /\ one[1] = a
  OBVIOUS
<1>3. 1 \in 1 .. 1 /\ 1 + 1 = 2
  OBVIOUS
<1> HIDE DEF one, T
<1>4. /\ Len(s) = Len(one) + 1
      /\ \A i \in 1 .. Len(one) : s[i] = one[i]
      /\ s[Len(one) + 1] = b
  BY <1>1, AppendFacts
<1> HIDE DEF s
<1>5. Len(s) = 2 /\ s[1] = a /\ s[2] = b
  BY <1>2, <1>3, <1>4, Zenon
<1> QED
  BY <1>5 DEF one, s

(* A line of a list has a version and a name.                              *)
LEMMA SplitLine ==
  ASSUME NEW v, NEW name, v # SP, name # SP
  PROVE  LET parts == Split(<<v, SP, name>>, SP) IN
         /\ parts # << >> /\ Len(parts) = 2
         /\ Len(parts[1]) = 1 /\ parts[1][1] = v /\ parts[2][1] = name
<1> DEFINE line == <<v, SP, name>>
           scan == Scan(line, SP)
           one == SubSeq(line, 1, 1)
           two == SubSeq(line, 3, 3)
<1>1. Len(line) = 3 /\ line[1] = v /\ line[2] = SP /\ line[3] = name
  OBVIOUS
<1>2. Len(one) = 1 /\ one[1] = v /\ Len(two) = 1 /\ two[1] = name
  OBVIOUS
<1> HIDE DEF line, one, two
<1>3. Scans(scan, line, SP, 3)
  BY <1>1, ScanStep
<1> HIDE DEF scan
<1>4. scan[1] = [out |-> << >>, start |-> 1]
  BY <1>1, <1>3 DEF Scans
<1>5. scan[2] = [out |-> <<one>>, start |-> 3]
  <2>1. 2 \in 1 .. 3 /\ 2 - 1 = 1 /\ 2 + 1 = 3
    OBVIOUS
  <2>2. scan[2] = [out |-> Append(scan[1].out, SubSeq(line, scan[1].start, 1)), start |-> 3]
    <3>1. scan[2] = [out |-> Append(scan[2 - 1].out, SubSeq(line, scan[2 - 1].start, 2 - 1)),
                     start |-> 2 + 1]
      BY <1>1, <1>3, <2>1, Zenon DEF Scans
    <3> QED
      BY <2>1, <3>1, Zenon
  <2>3. scan[1].out = << >> /\ scan[1].start = 1
    BY <1>4
  <2>4. Append(<< >>, one) = <<one>>
    OBVIOUS
  <2> QED
    BY <2>2, <2>3, <2>4, Zenon DEF one
<1>6. scan[3].out = Append(<<one>>, two)
  <2>1. 3 \in 1 .. 3 /\ 3 - 1 = 2 /\ 3 + 1 = 4
    OBVIOUS
  <2>2. scan[3] = [out |-> Append(scan[2].out, SubSeq(line, scan[2].start, 3)), start |-> 4]
    <3>1. scan[3] = [out |-> Append(scan[3 - 1].out, SubSeq(line, scan[3 - 1].start, 3)),
                     start |-> 3 + 1]
      BY <1>1, <1>3, <2>1, Zenon DEF Scans
    <3> QED
      BY <2>1, <3>1, Zenon
  <2>3. scan[2].out = <<one>> /\ scan[2].start = 3
    BY <1>5
  <2>4. scan[3] = [out |-> Append(<<one>>, two), start |-> 4]
    BY <2>2, <2>3, Zenon DEF two
  <2> QED
    BY <2>4
<1>7. Split(<<v, SP, name>>, SP) = Append(<<one>>, two)
  BY <1>1, <1>6 DEF Split, scan, line
<1> DEFINE parts == Append(<<one>>, two)
<1>8. Len(parts) = 2 /\ parts[1] = one /\ parts[2] = two
  BY AppendSecond, Zenon
<1> HIDE DEF parts
<1>9. parts # << >>
  BY <1>8
<1> QED
  BY <1>2, <1>7, <1>8, <1>9 DEF parts

LEMMA SplitNothing == Split(<< >>, SP) = << >>
<1>1. Len(<< >>) = 0
  OBVIOUS
<1> QED
  BY <1>1, ScanStep DEF Split, Scans
-----------------------------------------------------------------------------
(* The text of a list                                                      *)

LEMMA ListFacts ==
  ASSUME NEW l \in Lists
  PROVE  /\ l.lines \in Seq(Lines) /\ l.trailing \in Nat
         /\ Len(l.lines) \in Nat /\ DOMAIN l.lines = 1 .. Len(l.lines)
<1>1. l.lines \in BoundedSeq(Lines, MaxLines) /\ l.trailing \in 0 .. MaxTrailing
  BY DEF Lists
<1>2. PICK m \in 0 .. MaxLines : l.lines \in [1 .. m -> Lines]
  <2>1. l.lines \in UNION {[1 .. m -> Lines] : m \in 0 .. MaxLines}
    BY <1>1 DEF BoundedSeq, SeqOf
  <2> QED
    BY <2>1
<1>3. m \in Nat /\ l.trailing \in Nat
  BY <1>1, VersionsFileAssumption
<1>4. l.lines \in Seq(Lines)
  BY <1>2, <1>3
<1> QED
  BY <1>3, <1>4

(* Each line is a version and a name, neither of which is a separator.     *)
LEMMA LineFacts ==
  ASSUME NEW line \in Lines
  PROVE  /\ line = <<line[1], SP, line[3]>>
         /\ line[1] \in DOMAIN VersionOf \cup BadVersions /\ line[3] \in Names
         /\ \A r \in 1 .. 3 : line[r] # NL
         /\ line[1] # SP /\ line[3] # SP
<1>1. PICK v \in DOMAIN VersionOf \cup BadVersions, name \in Names : line = <<v, SP, name>>
  BY DEF Lines
<1>2. line[1] = v /\ line[2] = SP /\ line[3] = name
  BY <1>1
<1>3. v # NL /\ v # SP /\ name # NL /\ name # SP /\ SP # NL
  BY VersionsFileAssumption DEF SP, NL
<1> QED
  BY <1>1, <1>2, <1>3

(* Where the lines are in the text, and the separators.                    *)
Tokens == DOMAIN VersionOf \cup BadVersions \cup Names \cup {SP, NL}

IsText(t, l, n) ==
  /\ n \in Nat /\ l.trailing \in Nat
  /\ l.lines = << >> <=> n = 0
  /\ \A k \in 1 .. n : l.lines[k] \in Lines
  /\ Len(t) = (IF n = 0 THEN 0 ELSE 4 * n - 1) + l.trailing
  /\ t \in Seq(Tokens)
  /\ \A k \in 1 .. n, r \in 1 .. 3 : t[4 * (k - 1) + r] = l.lines[k][r]
  /\ \A k \in 1 .. n : 4 * k <= Len(t) => t[4 * k] = NL
  /\ \A p \in 1 .. Len(t) : p > 4 * n => t[p] = NL

LEMMA TextFacts ==
  ASSUME NEW l \in Lists, NEW n, n = Len(l.lines)
  PROVE  IsText(Text(l), l, n)
<1> DEFINE T == Tokens
           width == IF n = 0 THEN 0 ELSE 4 * n - 1
           at(p) == LET k == (p + 3) \div 4
                        r == p - 4 * (k - 1)
                    IN IF k <= n /\ r <= 3 THEN l.lines[k][r] ELSE NL
<1>1. /\ l.lines \in Seq(Lines) /\ l.trailing \in Nat
      /\ n \in Nat /\ DOMAIN l.lines = 1 .. n
  BY ListFacts
<1>2. PICK w \in Nat : w = width + l.trailing
  BY <1>1
<1>3. Text(l) = [p \in 1 .. w |-> at(p)]
  BY <1>2 DEF Text
<1>4. ASSUME NEW p \in 1 .. w, NEW k \in Int, NEW r \in Int,
             p = 4 * (k - 1) + r, r \in 1 .. 4
      PROVE  at(p) = IF k <= n /\ r <= 3 THEN l.lines[k][r] ELSE NL
  <2>1. (p + 3) \div 4 = k
    BY <1>4
  <2>2. p - 4 * (k - 1) = r
    BY <1>4
  <2> QED
    BY <2>1, <2>2
<1>5. ASSUME NEW p \in 1 .. w
      PROVE  \E k \in Nat, r \in 1 .. 4 : k >= 1 /\ p = 4 * (k - 1) + r
  <2>1. PICK k \in Int : k = (p + 3) \div 4
    OBVIOUS
  <2>2. k \in Nat /\ k >= 1 /\ p - 4 * (k - 1) \in 1 .. 4 /\ p = 4 * (k - 1) + (p - 4 * (k - 1))
    BY <2>1
  <2> QED
    BY <2>2
<1> HIDE DEF at
<1>6. ASSUME NEW k \in 1 .. n, NEW r \in 1 .. 3
      PROVE  l.lines[k] \in Lines /\ l.lines[k][r] \in T
  <2>1. l.lines[k] \in Lines
    BY <1>1
  <2>2. PICK v \in DOMAIN VersionOf \cup BadVersions, name \in Names :
          l.lines[k] = <<v, SP, name>>
    BY <2>1 DEF Lines
  <2>3. l.lines[k][1] = v /\ l.lines[k][2] = SP /\ l.lines[k][3] = name
    BY <2>2
  <2> QED
    BY <2>1, <2>3 DEF Tokens
<1>7. ASSUME NEW p \in 1 .. w PROVE at(p) \in T
  <2>1. PICK k \in Nat, r \in 1 .. 4 : k >= 1 /\ p = 4 * (k - 1) + r
    BY <1>5
  <2>2. at(p) = IF k <= n /\ r <= 3 THEN l.lines[k][r] ELSE NL
    BY <1>4, <2>1
  <2>3. NL \in T
    BY DEF Tokens
  <2> HIDE DEF T
  <2>4. k <= n /\ r <= 3 => k \in 1 .. n /\ r \in 1 .. 3
    BY <1>1, <2>1
  <2> QED
    BY <1>6, <2>2, <2>3, <2>4, Zenon
<1>8. Text(l) \in Seq(T) /\ Len(Text(l)) = w
  <2> HIDE DEF T
  <2> QED
    BY <1>3, <1>7
<1>9. ASSUME NEW k \in 1 .. n, NEW r \in 1 .. 3
      PROVE  Text(l)[4 * (k - 1) + r] = l.lines[k][r]
  <2>1. PICK p \in 1 .. w : p = 4 * (k - 1) + r
    BY <1>1, <1>2
  <2>2. at(p) = l.lines[k][r]
    BY <1>1, <1>4, <2>1
  <2> QED
    BY <1>3, <2>1, <2>2
<1>10. ASSUME NEW k \in 1 .. n, 4 * k <= w
       PROVE  Text(l)[4 * k] = NL
  <2>1. PICK p \in 1 .. w : p = 4 * k /\ p = 4 * (k - 1) + 4
    BY <1>1, <1>10
  <2>2. at(p) = NL
    BY <1>1, <1>4, <2>1
  <2> QED
    BY <1>3, <2>1, <2>2
<1>11. ASSUME NEW p \in 1 .. w, p > 4 * n
       PROVE  Text(l)[p] = NL
  <2>1. PICK k \in Nat, r \in 1 .. 4 : k >= 1 /\ p = 4 * (k - 1) + r
    BY <1>5
  <2>2. ~ (k <= n)
    BY <1>1, <1>11, <2>1
  <2>3. at(p) = NL
    BY <1>4, <2>1, <2>2
  <2> QED
    BY <1>3, <2>3
<1>12. \A k \in 1 .. n : 4 * k <= Len(Text(l)) => Text(l)[4 * k] = NL
  BY <1>8, <1>10
<1>13. \A p \in 1 .. Len(Text(l)) : p > 4 * n => Text(l)[p] = NL
  BY <1>8, <1>11
<1>14. /\ l.lines = << >> <=> n = 0
       /\ \A k \in 1 .. n : l.lines[k] \in Lines
  BY <1>1
<1> QED
  BY <1>1, <1>2, <1>8, <1>9, <1>12, <1>13, <1>14 DEF IsText
(* out is the first k lines and then m empty ones.                         *)
Found(out, lines, k, m) ==
  /\ out \in Seq(Lines \cup {<< >>})
  /\ Len(out) = k + m
  /\ \A j \in 1 .. k : out[j] = lines[j]
  /\ \A j \in k + 1 .. k + m : out[j] = << >>

LEMMA FoundLine ==
  ASSUME NEW lines, NEW k \in Nat, lines[k + 1] \in Lines, NEW out, Found(out, lines, k, 0)
  PROVE  Found(Append(out, lines[k + 1]), lines, k + 1, 0)
<1> DEFINE T == Lines \cup {<< >>}
           s == Append(out, lines[k + 1])
<1>1. out \in Seq(T) /\ lines[k + 1] \in T
  BY DEF Found
<1>2. Len(out) = k /\ \A j \in 1 .. k : out[j] = lines[j]
  BY DEF Found
<1> HIDE DEF T
<1>3. /\ s \in Seq(T) /\ Len(s) = Len(out) + 1
      /\ \A i \in 1 .. Len(out) : s[i] = out[i]
      /\ s[Len(out) + 1] = lines[k + 1]
  BY <1>1, AppendFacts
<1> HIDE DEF s
<1>4. \A j \in 1 .. k + 1 : s[j] = lines[j]
  BY <1>2, <1>3
<1>5. Len(s) = (k + 1) + 0 /\ \A j \in (k + 1) + 1 .. (k + 1) + 0 : s[j] = << >>
  BY <1>2, <1>3
<1> QED
  BY <1>3, <1>4, <1>5 DEF Found, T, s

LEMMA FoundEmpty ==
  ASSUME NEW lines, NEW k \in Nat, NEW m \in Nat, NEW out, Found(out, lines, k, m)
  PROVE  Found(Append(out, << >>), lines, k, m + 1)
<1> DEFINE T == Lines \cup {<< >>}
           s == Append(out, << >>)
<1>1. out \in Seq(T) /\ << >> \in T
  BY DEF Found
<1>2. /\ Len(out) = k + m
      /\ \A j \in 1 .. k : out[j] = lines[j]
      /\ \A j \in k + 1 .. k + m : out[j] = << >>
  BY DEF Found
<1> HIDE DEF T
<1>3. /\ s \in Seq(T) /\ Len(s) = Len(out) + 1
      /\ \A i \in 1 .. Len(out) : s[i] = out[i]
      /\ s[Len(out) + 1] = << >>
  BY <1>1, AppendFacts
<1> HIDE DEF s
<1>4. \A j \in 1 .. k : s[j] = lines[j]
  BY <1>2, <1>3
<1>5. \A j \in k + 1 .. k + (m + 1) : s[j] = << >>
  <2> SUFFICES ASSUME NEW j \in k + 1 .. k + (m + 1) PROVE s[j] = << >>
    OBVIOUS
  <2>1. CASE j <= k + m
    BY <1>2, <1>3, <2>1
  <2>2. CASE j = Len(out) + 1
    BY <1>3, <2>2
  <2> QED
    BY <1>2, <2>1, <2>2
<1>6. Len(s) = k + (m + 1)
  BY <1>2, <1>3
<1> QED
  BY <1>3, <1>4, <1>5, <1>6 DEF Found, T, s

LEMMA SplitIsText ==
  ASSUME NEW t, NEW l, NEW n, IsText(t, l, n)
  PROVE  \E m \in Nat : Found(Split(t, NL), l.lines, n, m) /\ (m > 0 <=> EmptyLine(l))
<1> DEFINE N == Len(t)
           scan == Scan(t, NL)
           E == l.trailing
           T == Tokens
<1>1. /\ n \in Nat /\ E \in Nat
      /\ N = (IF n = 0 THEN 0 ELSE 4 * n - 1) + E
      /\ t \in Seq(T)
  BY DEF IsText
<1>2. /\ \A k \in 1 .. n, r \in 1 .. 3 : t[4 * (k - 1) + r] = l.lines[k][r]
      /\ \A k \in 1 .. n : 4 * k <= N => t[4 * k] = NL
      /\ \A p \in 1 .. N : p > 4 * n => t[p] = NL
  BY DEF IsText
<1>3. \A k \in 1 .. n : l.lines[k] \in Lines
  BY DEF IsText
<1>4. (l.lines = << >>) <=> (n = 0)
  BY DEF IsText
<1>5. \A k \in 1 .. n : LET line == l.lines[k] IN
        line = <<line[1], SP, line[3]>> /\ \A r \in 1 .. 3 : line[r] # NL
  BY <1>3, LineFacts
<1> HIDE DEF T
<1>6. N \in Nat
  BY <1>1
<1>7. Scans(scan, t, NL, N)
  BY <1>6, ScanStep
<1>8. Split(t, NL) = scan[N].out
  BY DEF Split
<1> HIDE DEF N, scan, E
<1>9. ASSUME NEW p \in 1 .. N
      PROVE  /\ t[p] = NL => scan[p] =
                [out |-> Append(scan[p - 1].out, SubSeq(t, scan[p - 1].start, p - 1)),
                 start |-> p + 1]
             /\ t[p] # NL /\ p = N => scan[p] =
                [out |-> Append(scan[p - 1].out, SubSeq(t, scan[p - 1].start, p)),
                 start |-> p + 1]
             /\ t[p] # NL /\ p # N => scan[p] = scan[p - 1]
  BY <1>7 DEF Scans
\* The characters of a line, and its end.
<1>10. ASSUME NEW k \in Nat, k < n
       PROVE  /\ 4 * k + 3 <= N /\ k + 1 \in 1 .. n
              /\ t[4 * k + 1] # NL /\ t[4 * k + 2] # NL /\ t[4 * k + 3] # NL
              /\ 4 * k + 4 <= N => t[4 * k + 4] = NL
              /\ SubSeq(t, 4 * k + 1, 4 * k + 3) = l.lines[k + 1]
  <2>1. 4 * k + 3 <= N /\ k + 1 \in 1 .. n
    BY <1>1, <1>10
  <2>2. PICK line : line = l.lines[k + 1]
    OBVIOUS
  <2>3. \A r \in 1 .. 3 : t[4 * k + r] = line[r]
    <3> SUFFICES ASSUME NEW r \in 1 .. 3 PROVE t[4 * k + r] = line[r]
      OBVIOUS
    <3>1. t[4 * ((k + 1) - 1) + r] = line[r]
      BY <1>2, <2>1, <2>2
    <3>2. 4 * ((k + 1) - 1) + r = 4 * k + r
      OBVIOUS
    <3> QED
      BY <3>1, <3>2, Zenon
  <2>4. line = <<line[1], SP, line[3]>> /\ \A r \in 1 .. 3 : line[r] # NL
    BY <1>5, <2>1, <2>2
  <2>5. t[4 * k + 1] # NL /\ t[4 * k + 2] # NL /\ t[4 * k + 3] # NL
    BY <2>3, <2>4
  <2>6. 4 * k + 4 <= N => t[4 * k + 4] = NL
    <3>1. 4 * (k + 1) = 4 * k + 4
      OBVIOUS
    <3> QED
      BY <1>2, <2>1, <3>1
  <2>7. SubSeq(t, 4 * k + 1, 4 * k + 3) = line
    <3> DEFINE s == SubSeq(t, 4 * k + 1, 4 * k + 3)
    <3>1. PICK a \in Nat : a = 4 * k
      OBVIOUS
    <3>2. t \in Seq(T) /\ Len(t) = N /\ a + 3 <= N /\ N \in Nat
      BY <1>1, <1>6, <2>1, <3>1 DEF N
    <3>3. SubSeq(t, a + 1, a + 3) = [r \in 1 .. 3 |-> t[a + r]]
      BY <3>2
    <3>4. s = [r \in 1 .. 3 |-> line[r]]
      BY <2>3, <3>1, <3>3
    <3>5. line = [r \in 1 .. 3 |-> line[r]]
      BY <2>4
    <3> QED
      BY <3>4, <3>5
  <2> QED
    BY <2>1, <2>2, <2>5, <2>6, <2>7
\* Whole lines.
<1> DEFINE Q == {k \in Nat : k <= n /\ 4 * k <= N =>
                   Found(scan[4 * k].out, l.lines, k, 0) /\ scan[4 * k].start = 4 * k + 1}
<1>11. 0 \in Q
  <2>1. scan[0] = [out |-> << >>, start |-> 1]
    BY <1>7 DEF Scans
  <2>2. Found(<< >>, l.lines, 0, 0)
    BY DEF Found
  <2>3. scan[0].out = << >> /\ scan[0].start = 1
    BY <2>1
  <2>4. 4 * 0 = 0 /\ 4 * 0 + 1 = 1
    OBVIOUS
  <2>5. Found(scan[4 * 0].out, l.lines, 0, 0) /\ scan[4 * 0].start = 4 * 0 + 1
    BY <2>2, <2>3, <2>4, Zenon
  <2> QED
    BY <2>5
\* What the three characters of a line leave.
<1>12. ASSUME NEW k \in Nat, k < n, 4 * k + 3 < N
       PROVE  scan[4 * k + 3] = scan[4 * k]
  <2>1. scan[4 * k + 1] = scan[4 * k]
    <3>1. 4 * k + 1 \in 1 .. N /\ 4 * k + 1 # N /\ (4 * k + 1) - 1 = 4 * k
      BY <1>6, <1>12
    <3> QED
      BY <1>9, <1>10, <1>12, <3>1, Zenon
  <2>2. scan[4 * k + 2] = scan[4 * k + 1]
    <3>1. 4 * k + 2 \in 1 .. N /\ 4 * k + 2 # N /\ (4 * k + 2) - 1 = 4 * k + 1
      BY <1>6, <1>12
    <3> QED
      BY <1>9, <1>10, <1>12, <3>1, Zenon
  <2>3. scan[4 * k + 3] = scan[4 * k + 2]
    <3>1. 4 * k + 3 \in 1 .. N /\ 4 * k + 3 # N /\ (4 * k + 3) - 1 = 4 * k + 2
      BY <1>6, <1>12
    <3> QED
      BY <1>9, <1>10, <1>12, <3>1, Zenon
  <2> QED
    BY <2>1, <2>2, <2>3, Zenon
<1>13. ASSUME NEW k \in Nat, k \in Q PROVE k + 1 \in Q
  <2> SUFFICES ASSUME k + 1 <= n, 4 * (k + 1) <= N
      PROVE  /\ Found(scan[4 * (k + 1)].out, l.lines, k + 1, 0)
             /\ scan[4 * (k + 1)].start = 4 * (k + 1) + 1
    OBVIOUS
  <2>1. k < n /\ 4 * k + 3 < N /\ 4 * k <= N /\ 4 * k + 4 <= N
    BY <1>1, <1>6
  <2>2. Found(scan[4 * k].out, l.lines, k, 0) /\ scan[4 * k].start = 4 * k + 1
    BY <1>1, <1>13, <2>1
  <2>3. scan[4 * k + 4] =
          [out |-> Append(scan[4 * k].out, SubSeq(t, scan[4 * k].start, 4 * k + 3)),
           start |-> 4 * k + 5]
    <3>1. /\ 4 * k + 4 \in 1 .. N /\ (4 * k + 4) - 1 = 4 * k + 3
          /\ (4 * k + 4) + 1 = 4 * k + 5
      BY <1>6, <2>1
    <3>2. t[4 * k + 4] = NL
      BY <1>10, <2>1, Zenon
    <3> QED
      BY <1>9, <1>12, <2>1, <3>1, <3>2, Zenon
  <2>4. scan[4 * k + 4] = [out |-> Append(scan[4 * k].out, l.lines[k + 1]), start |-> 4 * k + 5]
    BY <1>10, <2>1, <2>2, <2>3, Zenon
  <2>5. Found(Append(scan[4 * k].out, l.lines[k + 1]), l.lines, k + 1, 0)
    <3>1. l.lines[k + 1] \in Lines
      BY <1>3, <1>10, <2>1, Zenon
    <3> QED
      BY <2>2, <3>1, FoundLine
  <2>6. scan[4 * k + 4].out = Append(scan[4 * k].out, l.lines[k + 1])
        /\ scan[4 * k + 4].start = 4 * k + 5
    BY <2>4
  <2>7. 4 * (k + 1) = 4 * k + 4 /\ 4 * (k + 1) + 1 = 4 * k + 5
    OBVIOUS
  <2> QED
    BY <2>5, <2>6, <2>7, Zenon
<1>14. Nat \subseteq Q
  <2> HIDE DEF Q
  <2> QED
    BY <1>11, <1>13, Induction
\* The last line ends with the text.
<1>15. CASE N < 4 * n
  <2>1. n > 0 /\ E = 0 /\ N = 4 * n - 1
    BY <1>1, <1>6, <1>15
  <2>2. PICK k \in Nat : k = n - 1
    BY <1>1, <2>1
  <2>3. k < n /\ 4 * k + 3 = N /\ 4 * k <= N /\ k + 1 = n
    BY <1>1, <2>1, <2>2
  <2>4. Found(scan[4 * k].out, l.lines, k, 0) /\ scan[4 * k].start = 4 * k + 1
    BY <1>1, <1>14, <2>3
  <2>5. scan[4 * k + 1] = scan[4 * k]
    <3>1. 4 * k + 1 \in 1 .. N /\ 4 * k + 1 # N /\ (4 * k + 1) - 1 = 4 * k
      BY <1>6, <2>3
    <3> QED
      BY <1>9, <1>10, <2>3, <3>1, Zenon
  <2>6. scan[4 * k + 2] = scan[4 * k + 1]
    <3>1. 4 * k + 2 \in 1 .. N /\ 4 * k + 2 # N /\ (4 * k + 2) - 1 = 4 * k + 1
      BY <1>6, <2>3
    <3> QED
      BY <1>9, <1>10, <2>3, <3>1, Zenon
  <2>7. scan[N] =
          [out |-> Append(scan[4 * k].out, SubSeq(t, scan[4 * k].start, N)), start |-> N + 1]
    <3>1. N \in 1 .. N /\ N - 1 = 4 * k + 2
      BY <1>6, <2>3
    <3>2. t[N] # NL
      BY <1>10, <2>3, Zenon
    <3> QED
      BY <1>9, <2>5, <2>6, <3>1, <3>2, Zenon
  <2>8. SubSeq(t, scan[4 * k].start, N) = l.lines[k + 1]
    BY <1>10, <2>3, <2>4, Zenon
  <2>9. scan[N].out = Append(scan[4 * k].out, l.lines[k + 1])
    BY <2>7, <2>8
  <2>10. l.lines[k + 1] \in Lines
    BY <1>3, <1>10, <2>3, Zenon
  <2>11. Found(Append(scan[4 * k].out, l.lines[k + 1]), l.lines, k + 1, 0)
    BY <2>4, <2>10, FoundLine
  <2>12. Found(scan[N].out, l.lines, n, 0)
    BY <2>3, <2>9, <2>11, Zenon
  <2>13. ~ EmptyLine(l)
    BY <2>1 DEF EmptyLine, E
  <2> QED
    BY <1>1, <1>8, <2>12, <2>13
\* Or with a line end, or several.
<1>16. CASE 4 * n <= N
  <2> DEFINE R == {m \in Nat : 4 * n + m <= N =>
                     /\ Found(scan[4 * n + m].out, l.lines, n, m)
                     /\ scan[4 * n + m].start = 4 * n + m + 1}
  <2>1. 0 \in R
    <3>1. Found(scan[4 * n].out, l.lines, n, 0) /\ scan[4 * n].start = 4 * n + 1
      BY <1>1, <1>14, <1>16
    <3>2. 4 * n + 0 = 4 * n /\ 4 * n + 0 + 1 = 4 * n + 1
      BY <1>1
    <3>3. Found(scan[4 * n + 0].out, l.lines, n, 0) /\ scan[4 * n + 0].start = 4 * n + 0 + 1
      BY <3>1, <3>2, Zenon
    <3> QED
      BY <3>3
  <2>2. ASSUME NEW m \in Nat, m \in R PROVE m + 1 \in R
    <3> SUFFICES ASSUME 4 * n + (m + 1) <= N
        PROVE  /\ Found(scan[4 * n + (m + 1)].out, l.lines, n, m + 1)
               /\ scan[4 * n + (m + 1)].start = 4 * n + (m + 1) + 1
      OBVIOUS
    <3>1. PICK p \in 1 .. N : p = 4 * n + (m + 1)
      BY <1>1, <1>6
    <3>2. p - 1 = 4 * n + m /\ 4 * n + m <= N /\ p > 4 * n
      BY <1>1, <3>1
    <3>3. Found(scan[p - 1].out, l.lines, n, m) /\ scan[p - 1].start = p
      <4>1. Found(scan[4 * n + m].out, l.lines, n, m) /\ scan[4 * n + m].start = 4 * n + m + 1
        BY <2>2, <3>2
      <4>2. 4 * n + m + 1 = p
        BY <1>1, <3>1
      <4> QED
        BY <3>2, <4>1, <4>2, Zenon
    <3>4. t[p] = NL
      BY <1>2, <3>2
    <3>5. scan[p] = [out |-> Append(scan[p - 1].out, SubSeq(t, p, p - 1)), start |-> p + 1]
      BY <1>9, <3>3, <3>4, Zenon
    <3>6. SubSeq(t, p, p - 1) = << >>
      BY <1>1
    <3>7. scan[p].out = Append(scan[p - 1].out, << >>) /\ scan[p].start = p + 1
      BY <3>5, <3>6
    <3>8. Found(Append(scan[p - 1].out, << >>), l.lines, n, m + 1)
      BY <1>1, <3>3, FoundEmpty
    <3>9. Found(scan[p].out, l.lines, n, m + 1) /\ scan[p].start = p + 1
      BY <3>7, <3>8, Zenon
    <3> QED
      BY <3>1, <3>9, Zenon
  <2>3. Nat \subseteq R
    <3> HIDE DEF R
    <3> QED
      BY <2>1, <2>2, Induction
  <2>4. PICK m \in Nat : m = N - 4 * n
    BY <1>1, <1>6, <1>16
  <2>5. 4 * n + m = N
    BY <1>1, <1>6, <2>4
  <2>6. Found(scan[4 * n + m].out, l.lines, n, m)
    BY <1>6, <2>3, <2>5
  <2>7. Found(scan[N].out, l.lines, n, m)
    BY <2>5, <2>6, Zenon
  <2>8. m > 0 <=> EmptyLine(l)
    <3>1. m > 0 <=> (E > 1 \/ (E = 1 /\ n = 0))
      BY <1>1, <2>4, <1>16
    <3> QED
      BY <1>4, <3>1 DEF EmptyLine, E
  <2> QED
    BY <1>1, <1>8, <2>7, <2>8
<1> QED
  BY <1>1, <1>6, <1>15, <1>16

(* Split finds the lines of a text, in order, and then an empty one for    *)
(* each line end after the one that ends the last line.                    *)
LEMMA SplitText ==
  ASSUME NEW l \in Lists
  PROVE  \E m \in Nat : /\ Found(Split(Text(l), NL), l.lines, Len(l.lines), m)
                        /\ m > 0 <=> EmptyLine(l)
BY TextFacts, SplitIsText
-----------------------------------------------------------------------------
(* Reading a list                                                          *)

LEMMA ReadLinesEquation ==
  ASSUME NEW lines, NEW installed, NEW n \in Nat, Len(lines) = n
  PROVE  ReadLines(lines, installed) = [i \in 0 .. Len(lines) |->
           IF i = 0 THEN [result |-> "ok", list |-> << >>]
           ELSE LET prior == ReadLines(lines, installed)[i - 1] IN
                IF prior.result # "ok" THEN prior
                ELSE IF ReadLine(lines[i]) # "ok"
                  THEN [result |-> ReadLine(lines[i]), list |-> << >>]
                ELSE IF IsOlder(installed, Entry(lines[i]).version)
                  THEN [result |-> "ok", list |-> Append(prior.list, Entry(lines[i]))]
                ELSE prior]
<1> DEFINE line(i) == ReadLine(lines[i])
           entry(i) == Entry(lines[i])
           newer(i) == IsOlder(installed, Entry(lines[i]).version)
           U == {entry(i) : i \in 1 .. n}
           R == {"ok"} \cup {line(i) : i \in 1 .. n}
           S == [result : R, list : Seq(U)]
           first == [result |-> "ok", list |-> << >>]
           next(i, prior) ==
             IF prior.result # "ok" THEN prior
             ELSE IF line(i) # "ok" THEN [result |-> line(i), list |-> << >>]
             ELSE IF newer(i)
               THEN [result |-> "ok", list |-> Append(prior.list, entry(i))]
             ELSE prior
           rule == [i \in 1 .. n |-> [prior \in S |-> next(i, prior)]]
<1> HIDE DEF line, entry, newer
<1>1. ASSUME NEW i \in 1 .. n, NEW prior \in S PROVE next(i, prior) \in S
  <2>1. entry(i) \in U /\ line(i) \in R /\ "ok" \in R
    OBVIOUS
  <2> HIDE DEF U, R
  <2>2. Append(prior.list, entry(i)) \in Seq(U)
    BY <2>1
  <2> QED
    BY <2>1, <2>2
<1>2. first \in S
  <2>1. "ok" \in R
    OBVIOUS
  <2> HIDE DEF U, R
  <2> QED
    BY <2>1
<1> HIDE DEF S, next
<1>3. rule \in [1 .. n -> [S -> S]]
  BY <1>1
<1>4. \A i \in 1 .. n, prior \in S : rule[i][prior] = next(i, prior)
  OBVIOUS
<1> HIDE DEF rule, first
<1>5. PICK f : Computes(f, n, S, first, rule)
  BY <1>2, <1>3, Recursion
<1>6. ASSUME NEW i \in 0 .. n
      PROVE  f[i] = IF i = 0 THEN first ELSE next(i, f[i - 1])
  <2>1. CASE i = 0
    BY <1>5, <2>1 DEF Computes
  <2>2. CASE i # 0
    <3>1. i \in 1 .. n /\ i - 1 \in 0 .. n
      BY <2>2
    <3>2. f[i - 1] \in S /\ f[i] = rule[i][f[i - 1]]
      BY <1>5, <3>1 DEF Computes
    <3> QED
      BY <1>4, <2>2, <3>1, <3>2
  <2> QED
    BY <2>1, <2>2
<1>7. f = [i \in 0 .. Len(lines) |-> IF i = 0 THEN first ELSE next(i, f[i - 1])]
  BY <1>5, <1>6 DEF Computes
<1>8. f = [i \in 0 .. Len(lines) |->
           IF i = 0 THEN [result |-> "ok", list |-> << >>]
           ELSE LET prior == f[i - 1] IN
                IF prior.result # "ok" THEN prior
                ELSE IF ReadLine(lines[i]) # "ok"
                  THEN [result |-> ReadLine(lines[i]), list |-> << >>]
                ELSE IF IsOlder(installed, Entry(lines[i]).version)
                  THEN [result |-> "ok", list |-> Append(prior.list, Entry(lines[i]))]
                ELSE prior]
  BY <1>7, Zenon DEF first, next, line, entry, newer
<1> QED
  BY <1>8, Zenon DEF ReadLines

(* What each line does to what has been read.                              *)
Reads(read, lines, installed, n) ==
  /\ read[0] = [result |-> "ok", list |-> << >>]
  /\ \A i \in 1 .. n :
       LET prior == read[i - 1] IN
       /\ prior.result # "ok" => read[i] = prior
       /\ prior.result = "ok" /\ ReadLine(lines[i]) # "ok" =>
            read[i] = [result |-> ReadLine(lines[i]), list |-> << >>]
       /\ prior.result = "ok" /\ ReadLine(lines[i]) = "ok" =>
            \/ /\ IsOlder(installed, Entry(lines[i]).version)
               /\ read[i] = [result |-> "ok", list |-> Append(prior.list, Entry(lines[i]))]
            \/ ~IsOlder(installed, Entry(lines[i]).version) /\ read[i] = prior

LEMMA ReadLinesStep ==
  ASSUME NEW lines, NEW installed, NEW n \in Nat, Len(lines) = n
  PROVE  Reads(ReadLines(lines, installed), lines, installed, n)
<1> DEFINE f == ReadLines(lines, installed)
           newer(i) == IsOlder(installed, Entry(lines[i]).version)
           line(i) == ReadLine(lines[i])
           entry(i) == Entry(lines[i])
<1>1. f = [i \in 0 .. Len(lines) |->
           IF i = 0 THEN [result |-> "ok", list |-> << >>]
           ELSE LET prior == f[i - 1] IN
                IF prior.result # "ok" THEN prior
                ELSE IF line(i) # "ok"
                  THEN [result |-> line(i), list |-> << >>]
                ELSE IF newer(i)
                  THEN [result |-> "ok", list |-> Append(prior.list, entry(i))]
                ELSE prior]
  BY ReadLinesEquation
<1> HIDE DEF f, newer, line, entry
<1>2. f[0] = [result |-> "ok", list |-> << >>]
  BY <1>1
<1>3. ASSUME NEW i \in 1 .. n
      PROVE  f[i] = LET prior == f[i - 1] IN
                IF prior.result # "ok" THEN prior
                ELSE IF line(i) # "ok"
                  THEN [result |-> line(i), list |-> << >>]
                ELSE IF newer(i)
                  THEN [result |-> "ok", list |-> Append(prior.list, entry(i))]
                ELSE prior
  <2>1. i \in 0 .. Len(lines) /\ i # 0
    OBVIOUS
  <2> QED
    BY <1>1, <2>1
<1>4. ASSUME NEW i \in 1 .. n
      PROVE  LET prior == f[i - 1] IN
       /\ prior.result # "ok" => f[i] = prior
       /\ prior.result = "ok" /\ line(i) # "ok" =>
            f[i] = [result |-> line(i), list |-> << >>]
       /\ prior.result = "ok" /\ line(i) = "ok" =>
            \/ newer(i) /\ f[i] = [result |-> "ok", list |-> Append(prior.list, entry(i))]
            \/ ~newer(i) /\ f[i] = prior
  BY <1>3, Zenon
<1> QED
  BY <1>2, <1>4, Zenon DEF Reads, f, newer, line, entry

(* What the loop makes of a line of a list, and of an empty one.           *)
LEMMA ReadLineFacts ==
  ASSUME NEW line \in Lines
  PROVE  /\ line[1] \in DOMAIN VersionOf => ReadLine(line) = "ok"
         /\ line[1] \notin DOMAIN VersionOf => ReadLine(line) = Corrupt
         /\ Entry(line) = [version |-> VersionOf[line[1]], name |-> line[3]]
<1>1. line = <<line[1], SP, line[3]>> /\ line[1] # SP /\ line[3] # SP
  BY LineFacts
<1> DEFINE parts == Split(line, SP)
           v == line[1]
           name == line[3]
<1>2. /\ parts # << >> /\ Len(parts) = 2
      /\ Len(parts[1]) = 1 /\ parts[1][1] = v /\ parts[2][1] = name
  <2> HIDE DEF v, name
  <2>1. LET p == Split(<<v, SP, name>>, SP) IN
      /\ p # << >> /\ Len(p) = 2
      /\ Len(p[1]) = 1 /\ p[1][1] = v /\ p[2][1] = name
    <3>1. v # SP /\ name # SP
      BY <1>1 DEF v, name
    <3> QED
      BY <3>1, SplitLine, Zenon
  <2>2. line = <<v, SP, name>>
    BY <1>1, Zenon DEF v, name
  <2> QED
    BY <2>1, <2>2, Zenon
<1> HIDE DEF parts, v, name
<1>3. ReadLine(line) = IF parts = << >> THEN Undefined
      ELSE IF Len(parts[1]) # 1 \/ parts[1][1] \notin DOMAIN VersionOf
      THEN Corrupt
      ELSE IF Len(parts) < 2 THEN Undefined
      ELSE "ok"
  BY DEF ReadLine, parts
<1>4. Entry(line) = [version |-> VersionOf[parts[1][1]], name |-> parts[2][1]]
  BY DEF Entry, parts
<1> QED
  BY <1>2, <1>3, <1>4 DEF v, name

LEMMA ReadLineEmpty == ReadLine(<< >>) = Undefined
BY SplitNothing, Zenon DEF ReadLine

-----------------------------------------------------------------------------
(* The order by the first part in which two versions differ is the one the *)
(* launcher computes.                                                      *)
LEMMA PrecedesIsOlder ==
  ASSUME NEW a \in Versions, NEW b \in Versions
  PROVE  Precedes(a, b) <=> IsOlder(a, b)
<1> DEFINE P(k) == a[Parts[k]] < b[Parts[k]] /\ \A j \in 1 .. k - 1 : a[Parts[j]] = b[Parts[j]]
<1>1. Parts[1] = "major" /\ Parts[2] = "minor" /\ Parts[3] = "patch"
  BY DEF Parts
<1>2. P(1) <=> a.major < b.major
  BY <1>1
<1>3. P(2) <=> a.major = b.major /\ a.minor < b.minor
  <2>1. \A j : j \in 1 .. 2 - 1 <=> j = 1
    OBVIOUS
  <2> QED
    BY <1>1, <2>1
<1>4. P(3) <=> a.major = b.major /\ a.minor = b.minor /\ a.patch < b.patch
  <2>1. \A j : j \in 1 .. 3 - 1 <=> j = 1 \/ j = 2
    OBVIOUS
  <2> QED
    BY <1>1, <2>1
<1>5. Precedes(a, b) <=> P(1) \/ P(2) \/ P(3)
  <2>1. \A k : k \in 1 .. 3 <=> k = 1 \/ k = 2 \/ k = 3
    OBVIOUS
  <2> QED
    BY <2>1, Zenon DEF Precedes
<1> QED
  BY <1>2, <1>3, <1>4, <1>5 DEF IsOlder
-----------------------------------------------------------------------------
(* The entries newer than the installed version                            *)

Entries == [version : Versions, name : Names]

NewerUpTo(l, i, installed) ==
  {j \in 1 .. i : Precedes(installed, EntriesOf(l)[j].version)}

(* list has the entries of the first i lines that are newer, each at the   *)
(* place that it has among them, and nothing else.                         *)
Ranked(list, l, i, installed) ==
  LET newer == NewerUpTo(l, i, installed) IN
  /\ Len(list) = Cardinality(newer)
  /\ \A j \in newer : list[Cardinality({k \in newer : k <= j})] = EntriesOf(l)[j]
  /\ \A p \in 1 .. Len(list) : \E j \in newer : list[p] = EntriesOf(l)[j]

LEMMA NewerFinite ==
  ASSUME NEW l, NEW i \in Nat, NEW installed
  PROVE  /\ IsFiniteSet(NewerUpTo(l, i, installed))
         /\ Cardinality(NewerUpTo(l, i, installed)) \in Nat
         /\ \A j \in NewerUpTo(l, i, installed) :
              Cardinality({k \in NewerUpTo(l, i, installed) : k <= j})
                \in 1 .. Cardinality(NewerUpTo(l, i, installed))
<1> DEFINE newer == NewerUpTo(l, i, installed)
<1>1. newer \subseteq 1 .. i
  BY DEF NewerUpTo
<1>2. IsFiniteSet(1 .. i)
  BY FS_Interval
<1> HIDE DEF newer
<1>3. IsFiniteSet(newer) /\ Cardinality(newer) \in Nat
  BY <1>1, <1>2, FS_Subset, FS_CardinalityType
<1>4. ASSUME NEW j \in newer
      PROVE  Cardinality({k \in newer : k <= j}) \in 1 .. Cardinality(newer)
  <2> DEFINE upto == {k \in newer : k <= j}
  <2>1. upto \subseteq newer /\ j \in upto
    BY <1>1
  <2> HIDE DEF upto
  <2>2. IsFiniteSet(upto) /\ Cardinality(upto) <= Cardinality(newer)
    BY <1>3, <2>1, FS_Subset
  <2>3. Cardinality(upto) \in Nat /\ Cardinality(upto) # 0
    BY <2>1, <2>2, FS_CardinalityType, FS_EmptySet
  <2> QED
    BY <1>3, <2>2, <2>3 DEF upto
<1> QED
  BY <1>3, <1>4 DEF newer

LEMMA RankedSame ==
  ASSUME NEW list, NEW l, NEW i \in Nat, NEW installed, Ranked(list, l, i, installed),
         ~ Precedes(installed, EntriesOf(l)[i + 1].version)
  PROVE  Ranked(list, l, i + 1, installed)
<1>1. NewerUpTo(l, i + 1, installed) = NewerUpTo(l, i, installed)
  BY DEF NewerUpTo
<1> QED
  BY <1>1, Zenon DEF Ranked

LEMMA RankedAppend ==
  ASSUME NEW list \in Seq(Entries), NEW l, NEW i \in Nat, NEW installed,
         Ranked(list, l, i, installed), EntriesOf(l)[i + 1] \in Entries,
         Precedes(installed, EntriesOf(l)[i + 1].version)
  PROVE  Ranked(Append(list, EntriesOf(l)[i + 1]), l, i + 1, installed)
<1> DEFINE newer == NewerUpTo(l, i, installed)
           next == NewerUpTo(l, i + 1, installed)
           e == EntriesOf(l)[i + 1]
           s == Append(list, e)
           c == Cardinality(newer)
<1>1. newer \subseteq 1 .. i /\ next = newer \cup {i + 1}
  BY DEF NewerUpTo
<1>2. /\ IsFiniteSet(newer) /\ c \in Nat
      /\ \A j \in newer : Cardinality({k \in newer : k <= j}) \in 1 .. c
  BY NewerFinite
<1>3. /\ Len(list) = c
      /\ \A j \in newer : list[Cardinality({k \in newer : k <= j})] = EntriesOf(l)[j]
      /\ \A p \in 1 .. Len(list) : \E j \in newer : list[p] = EntriesOf(l)[j]
  BY DEF Ranked
<1> HIDE DEF newer, next
<1>4. Cardinality(next) = c + 1
  <2>1. i + 1 \notin newer
    BY <1>1
  <2> QED
    BY <1>1, <1>2, <2>1, FS_AddElement
<1>5. /\ Len(s) = Len(list) + 1
      /\ \A k \in 1 .. Len(list) : s[k] = list[k]
      /\ s[Len(list) + 1] = e
  BY AppendFacts
<1> HIDE DEF e, s, c
<1>6. ASSUME NEW j \in next
      PROVE  s[Cardinality({k \in next : k <= j})] = EntriesOf(l)[j]
  <2>1. CASE j = i + 1
    <3>1. \A k \in next : k <= j
      BY <1>1, <2>1
    <3>2. {k \in next : k <= j} = next
      BY <3>1, Zenon
    <3> QED
      BY <1>3, <1>4, <1>5, <2>1, <3>2, Zenon DEF e
  <2>2. CASE j # i + 1
    <3>1. j \in newer /\ {k \in next : k <= j} = {k \in newer : k <= j}
      BY <1>1, <2>2
    <3>2. Cardinality({k \in newer : k <= j}) \in 1 .. Len(list)
      BY <1>2, <1>3, <3>1, Zenon
    <3>3. s[Cardinality({k \in newer : k <= j})] = EntriesOf(l)[j]
      BY <1>3, <1>5, <3>1, <3>2, Zenon
    <3> QED
      BY <3>1, <3>3, Zenon
  <2> QED
    BY <2>1, <2>2
<1>7. Len(s) = Cardinality(next)
  BY <1>3, <1>4, <1>5
<1>8. ASSUME NEW p \in 1 .. Len(s) PROVE \E j \in next : s[p] = EntriesOf(l)[j]
  <2>1. CASE p \in 1 .. Len(list)
    BY <1>1, <1>3, <1>5, <2>1
  <2>2. CASE p \notin 1 .. Len(list)
    <3>1. p = Len(list) + 1 /\ i + 1 \in next
      BY <1>1, <1>2, <1>3, <1>5, <2>2
    <3> QED
      BY <1>5, <3>1 DEF e
  <2> QED
    BY <2>1, <2>2
<1> QED
  BY <1>6, <1>7, <1>8, Zenon DEF Ranked, s, e, next

(* What reading the lines of a list gives.                                 *)
ReadSoFar(r, l, n, i, installed) ==
  /\ r.list \in Seq(Entries)
  /\ r.result \in {"ok", Corrupt, Undefined}
  /\ r.result = "ok" =>
       /\ i <= n
       /\ \A j \in 1 .. i : l.lines[j][1] \in DOMAIN VersionOf
       /\ Ranked(r.list, l, i, installed)
  /\ r.result = Corrupt => \E j \in 1 .. n : l.lines[j][1] \notin DOMAIN VersionOf
  /\ r.result = Undefined => i > n

LEMMA ReadFound ==
  ASSUME NEW l, NEW n \in Nat, n = Len(l.lines), \A j \in 1 .. n : l.lines[j] \in Lines,
         NEW installed \in Versions,
         NEW m \in Nat, NEW lines, Found(lines, l.lines, n, m)
  PROVE  ReadSoFar(ReadLines(lines, installed)[n + m], l, n, n + m, installed)
<1> DEFINE read == ReadLines(lines, installed)
           N == n + m
<1>1. N \in Nat /\ Len(lines) = N
  BY DEF Found
<1>2. /\ \A j \in 1 .. n : lines[j] = l.lines[j]
      /\ \A j \in n + 1 .. N : lines[j] = << >>
  BY DEF Found
<1>3. Reads(read, lines, installed, N)
  <2> HIDE DEF N
  <2> QED
    BY <1>1, ReadLinesStep
<1>4. \A j \in 1 .. n : EntriesOf(l)[j] = [version |-> VersionOf[l.lines[j][1]],
                                           name |-> l.lines[j][3]]
  BY DEF EntriesOf
<1> HIDE DEF read
<1>5. ASSUME NEW j \in 1 .. n
      PROVE  /\ l.lines[j][1] \in DOMAIN VersionOf =>
                  ReadLine(lines[j]) = "ok" /\ Entry(lines[j]) \in Entries
             /\ l.lines[j][1] \notin DOMAIN VersionOf => ReadLine(lines[j]) = Corrupt
             /\ Entry(lines[j]) = EntriesOf(l)[j]
  <2>1. lines[j] \in Lines /\ lines[j] = l.lines[j]
    BY <1>2
  <2>2. /\ lines[j][1] \in DOMAIN VersionOf => ReadLine(lines[j]) = "ok"
        /\ lines[j][1] \notin DOMAIN VersionOf => ReadLine(lines[j]) = Corrupt
        /\ Entry(lines[j]) = [version |-> VersionOf[lines[j][1]], name |-> lines[j][3]]
        /\ lines[j][3] \in Names
    BY <2>1, ReadLineFacts, LineFacts
  <2>3. \A v \in DOMAIN VersionOf : VersionOf[v] \in Versions
    BY VersionsFileAssumption
  <2>4. lines[j][1] \in DOMAIN VersionOf => Entry(lines[j]) \in Entries
    BY <2>2, <2>3 DEF Entries
  <2> QED
    BY <1>4, <2>1, <2>2, <2>4, Zenon
<1> DEFINE Q == {i \in Nat : i <= N => ReadSoFar(read[i], l, n, i, installed)}
<1>6. 0 \in Q
  <2>1. read[0].result = "ok" /\ read[0].list = << >>
    BY <1>3 DEF Reads
  <2>2. << >> \in Seq(Entries)
    OBVIOUS
  <2>3. Ranked(<< >>, l, 0, installed)
    <3>1. NewerUpTo(l, 0, installed) = {}
      BY DEF NewerUpTo
    <3>2. Cardinality({}) = 0 /\ Len(<< >>) = 0 /\ 1 .. 0 = {}
      BY FS_EmptySet
    <3> QED
      BY <3>1, <3>2 DEF Ranked
  <2>4. 0 <= n /\ \A j \in 1 .. 0 : l.lines[j][1] \in DOMAIN VersionOf
    OBVIOUS
  <2>5. ReadSoFar(read[0], l, n, 0, installed)
    BY <2>1, <2>2, <2>3, <2>4, Zenon DEF ReadSoFar, Corrupt, Undefined
  <2> QED
    BY <2>5
<1>7. ASSUME NEW i \in Nat, i \in Q PROVE i + 1 \in Q
  <2> SUFFICES ASSUME i + 1 <= N PROVE ReadSoFar(read[i + 1], l, n, i + 1, installed)
    OBVIOUS
  <2> DEFINE prior == read[i]
             line == lines[i + 1]
  <2>1. ReadSoFar(prior, l, n, i, installed)
    BY <1>1, <1>7
  <2>2. i + 1 \in 1 .. N /\ (i + 1) - 1 = i
    <3> HIDE DEF N
    <3> QED
      BY <1>1
  <2>3. /\ prior.result # "ok" => read[i + 1] = prior
        /\ prior.result = "ok" /\ ReadLine(line) # "ok" =>
            read[i + 1] = [result |-> ReadLine(line), list |-> << >>]
        /\ prior.result = "ok" /\ ReadLine(line) = "ok" =>
            \/ /\ IsOlder(installed, Entry(line).version)
               /\ read[i + 1] = [result |-> "ok", list |-> Append(prior.list, Entry(line))]
            \/ ~IsOlder(installed, Entry(line).version) /\ read[i + 1] = prior
    BY <1>3, <2>2, Zenon DEF Reads
  <2>4. CASE prior.result # "ok"
    <3>1. read[i + 1] = prior
      BY <2>3, <2>4
    <3>2. i > n => i + 1 > n
      OBVIOUS
    <3> QED
      BY <2>1, <2>4, <3>1, <3>2 DEF ReadSoFar
  <2>5. CASE prior.result = "ok" /\ i + 1 > n
    <3>1. i + 1 \in n + 1 .. N
      BY <2>2, <2>5
    <3>2. ReadLine(line) = Undefined
      BY <1>2, <3>1, ReadLineEmpty, Zenon
    <3>3. read[i + 1] = [result |-> Undefined, list |-> << >>]
      BY <2>3, <2>5, <3>2, Zenon DEF Undefined
    <3>4. read[i + 1].result = Undefined /\ read[i + 1].list = << >> /\ << >> \in Seq(Entries)
      BY <3>3
    <3> QED
      BY <2>5, <3>4 DEF ReadSoFar, Undefined, Corrupt
  <2>6. CASE prior.result = "ok" /\ i + 1 <= n /\ l.lines[i + 1][1] \notin DOMAIN VersionOf
    <3>1. i + 1 \in 1 .. n
      BY <2>6
    <3>2. ReadLine(line) = Corrupt
      BY <1>5, <2>6, <3>1, Zenon
    <3>3. read[i + 1] = [result |-> Corrupt, list |-> << >>]
      BY <2>3, <2>6, <3>2, Zenon DEF Corrupt
    <3>4. read[i + 1].result = Corrupt /\ read[i + 1].list = << >> /\ << >> \in Seq(Entries)
      BY <3>3
    <3> QED
      BY <2>6, <3>1, <3>4 DEF ReadSoFar, Undefined, Corrupt
  <2>7. CASE prior.result = "ok" /\ i + 1 <= n /\ l.lines[i + 1][1] \in DOMAIN VersionOf
    <3> DEFINE e == EntriesOf(l)[i + 1]
    <3>1. i + 1 \in 1 .. n
      BY <2>7
    <3>2. ReadLine(line) = "ok" /\ Entry(line) = e /\ e \in Entries
      BY <1>5, <2>7, <3>1, Zenon
    <3>3. /\ prior.list \in Seq(Entries) /\ Ranked(prior.list, l, i, installed)
          /\ \A j \in 1 .. i : l.lines[j][1] \in DOMAIN VersionOf
      BY <2>1, <2>7 DEF ReadSoFar
    <3>4. \A j \in 1 .. i + 1 : l.lines[j][1] \in DOMAIN VersionOf
      BY <2>7, <3>3
    <3>5. e.version \in Versions
      BY <3>2 DEF Entries
    <3>6. Precedes(installed, e.version) <=> IsOlder(installed, e.version)
      BY <3>5, PrecedesIsOlder
    <3>7. read[i + 1].result = "ok" /\ read[i + 1].list \in Seq(Entries)
          /\ Ranked(read[i + 1].list, l, i + 1, installed)
      <4>1. CASE IsOlder(installed, e.version)
        <5>1. read[i + 1] = [result |-> "ok", list |-> Append(prior.list, e)]
          BY <2>3, <2>7, <3>2, <4>1, Zenon
        <5>2. read[i + 1].result = "ok" /\ read[i + 1].list = Append(prior.list, e)
          BY <5>1
        <5>3. Ranked(Append(prior.list, e), l, i + 1, installed)
          BY <3>2, <3>3, <3>6, <4>1, RankedAppend
        <5>4. Append(prior.list, e) \in Seq(Entries)
          BY <3>2, <3>3, AppendFacts
        <5> QED
          BY <5>2, <5>3, <5>4, Zenon
      <4>2. CASE ~IsOlder(installed, e.version)
        <5>1. read[i + 1] = prior
          BY <2>3, <2>7, <3>2, <4>2, Zenon
        <5>2. Ranked(prior.list, l, i + 1, installed)
          BY <3>3, <3>6, <4>2, RankedSame
        <5> QED
          BY <2>7, <3>3, <5>1, <5>2, Zenon
      <4> QED
        BY <4>1, <4>2
    <3> QED
      BY <2>7, <3>4, <3>7 DEF ReadSoFar, Undefined, Corrupt
  <2> QED
    BY <2>4, <2>5, <2>6, <2>7
<1>8. Nat \subseteq Q
  <2> HIDE DEF Q
  <2> QED
    BY <1>6, <1>7, Induction
<1> QED
  BY <1>1, <1>8 DEF read
-----------------------------------------------------------------------------
(* The two lists                                                           *)

(* A list is read whole, or with an error.                                 *)
LEMMA ReadListFacts ==
  ASSUME NEW l \in Lists, NEW installed \in Versions
  PROVE  LET r == ReadList(Text(l), installed) IN
         /\ r.list \in Seq(Entries)
         /\ r.result \in {"ok", Corrupt, Undefined}
         /\ r.result = "ok" =>
              /\ Readable(l) /\ ~EmptyLine(l) /\ ~TooLong(l)
              /\ Ranked(r.list, l, Len(l.lines), installed)
         /\ r.result = Corrupt => ~Readable(l)
         /\ r.result = Undefined => EmptyLine(l) \/ TooLong(l)
<1> DEFINE r == ReadList(Text(l), installed)
           lines == Split(Text(l), NL)
           read == ReadLines(lines, installed)
<1>1. PICK n : n = Len(l.lines)
  OBVIOUS
<1>2. n \in Nat /\ \A j \in 1 .. n : l.lines[j] \in Lines
  BY <1>1, ListFacts
<1>3. PICK m \in Nat : Found(lines, l.lines, n, m) /\ (m > 0 <=> EmptyLine(l))
  BY <1>1, SplitText
<1>4. Len(lines) = n + m
  BY <1>3 DEF Found
<1>5. ReadSoFar(read[n + m], l, n, n + m, installed)
  BY <1>1, <1>2, <1>3, ReadFound
<1>6. r = IF Overflows(lines) THEN [result |-> Undefined, list |-> << >>] ELSE read[n + m]
  BY <1>4, Zenon DEF ReadList
<1> HIDE DEF r, lines, read
<1>7. CASE Overflows(lines)
  <2>1. r.result = Undefined /\ r.list = << >> /\ << >> \in Seq(Entries)
    BY <1>6, <1>7
  <2>2. EmptyLine(l) \/ TooLong(l)
    <3>1. CASE m = 0
      <4>1. Len(lines) = n
        BY <1>2, <1>4, <3>1
      <4> QED
        BY <1>1, <1>7, <4>1, Zenon DEF Overflows, TooLong
    <3>2. CASE m # 0
      BY <1>3, <3>2
    <3> QED
      BY <3>1, <3>2
  <2> QED
    BY <2>1, <2>2 DEF r, Corrupt, Undefined
<1>8. CASE ~Overflows(lines)
  <2>1. r = read[n + m]
    BY <1>6, <1>8
  <2>2. ReadSoFar(r, l, n, n + m, installed)
    BY <1>5, <2>1, Zenon
  <2>3. r.list \in Seq(Entries) /\ r.result \in {"ok", Corrupt, Undefined}
    BY <2>2, Zenon DEF ReadSoFar
  <2>4. ASSUME r.result = "ok"
        PROVE  /\ Readable(l) /\ ~EmptyLine(l) /\ ~TooLong(l)
               /\ Ranked(r.list, l, Len(l.lines), installed)
    <3>1. /\ n + m <= n
          /\ \A j \in 1 .. n + m : l.lines[j][1] \in DOMAIN VersionOf
          /\ Ranked(r.list, l, n + m, installed)
      BY <2>2, <2>4, Zenon DEF ReadSoFar
    <3>2. n + m = n /\ ~(m > 0)
      BY <1>2, <3>1
    <3>3. ~EmptyLine(l)
      BY <1>3, <3>2, Zenon
    <3>4. ~TooLong(l)
      BY <1>1, <1>4, <1>8, <3>2, Zenon DEF Overflows, TooLong
    <3> QED
      BY <1>1, <3>1, <3>2, <3>3, <3>4, Zenon DEF Readable
  <2>5. r.result = Corrupt => ~Readable(l)
    BY <1>1, <2>2, Zenon DEF ReadSoFar, Readable
  <2>6. ASSUME r.result = Undefined PROVE EmptyLine(l)
    <3>1. n + m > n
      BY <2>2, <2>6, Zenon DEF ReadSoFar
    <3>2. m > 0
      BY <1>2, <3>1
    <3> QED
      BY <1>3, <3>2, Zenon
  <2> QED
    BY <2>3, <2>4, <2>5, <2>6, Zenon DEF r
<1> QED
  BY <1>7, <1>8, Zenon

LEMMA IsNewerOfRanked ==
  ASSUME NEW list, NEW l
  PROVE  Ranked(list, l, Len(l.lines), current) => IsNewerOf(list, l)
BY Zenon DEF Ranked, NewerUpTo, IsNewerOf

(* What the invariants need: what has been read is made of entries.        *)
ListInv ==
  /\ manifest \in Lists /\ removed \in Lists
  /\ current \in Versions
  /\ updates \in Seq(Entries) /\ deletions \in Seq(Entries)
  /\ step \in {"manifest", "fetch", "current", "removed", "install", "failed", Undefined}
  /\ step \in {"fetch", "removed", "install"} =>
       /\ Readable(manifest) /\ ~EmptyLine(manifest) /\ ~TooLong(manifest)
       /\ Ranked(updates, manifest, Len(manifest.lines), current)
  /\ step = "install" =>
       /\ Readable(removed) /\ ~EmptyLine(removed) /\ ~TooLong(removed)
       /\ Ranked(deletions, removed, Len(removed.lines), current)
  /\ step = "failed" => ~Readable(manifest) \/ ~Readable(removed)
  /\ step = Undefined =>
       \E l \in {manifest, removed} : EmptyLine(l) \/ TooLong(l)

LEMMA ListInit == Init => ListInv
<1> SUFFICES ASSUME Init PROVE ListInv
  OBVIOUS
<1>1. removed \in Lists
  <2>1. << >> \in BoundedSeq(Lines, MaxLines)
    <3>1. << >> \in [1 .. 0 -> Lines] /\ 0 \in 0 .. MaxLines
      BY VersionsFileAssumption
    <3>2. << >> \in UNION {[1 .. m -> Lines] : m \in 0 .. MaxLines}
      BY <3>1
    <3> QED
      BY <3>2 DEF BoundedSeq, SeqOf
  <2>2. 0 \in 0 .. MaxTrailing
    BY VersionsFileAssumption
  <2> QED
    BY <2>1, <2>2 DEF Init, Lists
<1>2. current \in Versions
  BY VersionsFileAssumption DEF Init
<1>3. << >> \in Seq(Entries)
  OBVIOUS
<1> QED
  BY <1>1, <1>2, <1>3 DEF Init, ListInv, Undefined

LEMMA ReadManifestList == ListInv /\ ReadManifest => ListInv'
<1> SUFFICES ASSUME ListInv, ReadManifest PROVE ListInv'
  OBVIOUS
<1> DEFINE r == ReadList(Text(manifest), current)
<1>1. /\ step = "manifest" /\ updates' = r.list
      /\ step' = After(r.result, IF r.list = << >> THEN "current" ELSE "fetch")
      /\ UNCHANGED <<manifest, removed, current, deletions>>
  BY DEF ReadManifest
<1>2. manifest \in Lists /\ current \in Versions
  BY DEF ListInv
<1>3. /\ r.list \in Seq(Entries)
      /\ r.result \in {"ok", Corrupt, Undefined}
      /\ r.result = "ok" =>
           /\ Readable(manifest) /\ ~EmptyLine(manifest) /\ ~TooLong(manifest)
           /\ Ranked(r.list, manifest, Len(manifest.lines), current)
      /\ r.result = Corrupt => ~Readable(manifest)
      /\ r.result = Undefined => EmptyLine(manifest) \/ TooLong(manifest)
  BY <1>2, ReadListFacts
<1> HIDE DEF r
<1>4. \/ r.result = "ok" /\ step' \in {"current", "fetch"}
      \/ r.result = Corrupt /\ step' = "failed"
      \/ r.result = Undefined /\ step' = Undefined
  BY <1>1, <1>3 DEF After, Corrupt, Undefined
<1> QED
  BY <1>1, <1>3, <1>4 DEF ListInv, Corrupt, Undefined

LEMMA FetchRemovedList == ListInv /\ FetchRemoved => ListInv'
BY DEF ListInv, FetchRemoved, Undefined

LEMMA ReadRemovedList == ListInv /\ ReadRemoved => ListInv'
<1> SUFFICES ASSUME ListInv, ReadRemoved PROVE ListInv'
  OBVIOUS
<1> DEFINE r == ReadList(Text(removed), current)
<1>1. /\ step = "removed" /\ deletions' = r.list
      /\ step' = After(r.result, "install")
      /\ UNCHANGED <<manifest, removed, current, updates>>
  BY DEF ReadRemoved
<1>2. removed \in Lists /\ current \in Versions
  BY DEF ListInv
<1>3. /\ r.list \in Seq(Entries)
      /\ r.result \in {"ok", Corrupt, Undefined}
      /\ r.result = "ok" =>
           /\ Readable(removed) /\ ~EmptyLine(removed) /\ ~TooLong(removed)
           /\ Ranked(r.list, removed, Len(removed.lines), current)
      /\ r.result = Corrupt => ~Readable(removed)
      /\ r.result = Undefined => EmptyLine(removed) \/ TooLong(removed)
  BY <1>2, ReadListFacts
<1> HIDE DEF r
<1>4. \/ r.result = "ok" /\ step' = "install"
      \/ r.result = Corrupt /\ step' = "failed"
      \/ r.result = Undefined /\ step' = Undefined
  BY <1>1, <1>3 DEF After, Corrupt, Undefined
<1> QED
  BY <1>1, <1>3, <1>4 DEF ListInv, Corrupt, Undefined

LEMMA ListStep == ListInv /\ [Next]_vars => ListInv'
<1> SUFFICES ASSUME ListInv, [Next]_vars PROVE ListInv'
  OBVIOUS
<1>1. CASE ReadManifest
  BY <1>1, ReadManifestList
<1>2. CASE FetchRemoved
  BY <1>2, FetchRemovedList
<1>3. CASE ReadRemoved
  BY <1>3, ReadRemovedList
<1>4. CASE UNCHANGED vars
  BY <1>4 DEF ListInv, vars
<1> QED
  BY <1>1, <1>2, <1>3, <1>4 DEF Next, Done

(* Whatever the server's two lists hold, each is read completely or not at *)
(* all: unless one has an empty line or too many lines, the updates and the*)
(* deletions are the entries newer than the installed version, each once   *)
(* and in the order of the list, and an unreadable version is an error     *)
(* (rrc_versionsfile_get_necessary_urls_and_versions, versionsfile.c).     *)
THEOREM ListsAreReadWhole == Spec => []ListsReadWhole
<1>1. ListInv => ListsReadWhole
  BY IsNewerOfRanked DEF ListInv, ListsReadWhole
<1> QED
  BY <1>1, ListInit, ListStep, PTL DEF Spec

-----------------------------------------------------------------------------
(* An update that goes on                                                  *)

(* The entries of a list that can be read.                                 *)
LEMMA EntriesRead ==
  ASSUME NEW l \in Lists, Readable(l)
  PROVE  \A i \in 1 .. Len(l.lines) : EntriesOf(l)[i] \in Entries
<1> SUFFICES ASSUME NEW i \in 1 .. Len(l.lines) PROVE EntriesOf(l)[i] \in Entries
  OBVIOUS
<1>1. l.lines[i] \in Lines
  BY ListFacts
<1>2. l.lines[i][1] \in DOMAIN VersionOf /\ l.lines[i][3] \in Names
  BY <1>1, LineFacts DEF Readable
<1>3. VersionOf[l.lines[i][1]] \in Versions
  BY <1>2, VersionsFileAssumption
<1> QED
  BY <1>2, <1>3 DEF EntriesOf, Entries

(* In an ascending list the newer entries are the last ones.               *)
LEMMA NewerAreLast ==
  ASSUME NEW l \in Lists, Readable(l), Ascending(l), NEW installed \in Versions,
         NEW n \in Nat, n = Len(l.lines)
  PROVE  \E p \in 1 .. n + 1 : NewerUpTo(l, n, installed) = p .. n
<1> DEFINE N == NewerUpTo(l, n, installed)
           E == EntriesOf(l)
<1>1. \A i \in 1 .. n : E[i].version \in Versions
  BY EntriesRead DEF Entries
<1>2. \A i, j \in 1 .. n : i < j => IsOlder(E[i].version, E[j].version)
  BY <1>1, PrecedesIsOlder DEF Ascending
<1>3. N \subseteq 1 .. n /\ \A i \in 1 .. n : i \in N <=> IsOlder(installed, E[i].version)
  BY <1>1, PrecedesIsOlder DEF NewerUpTo
<1> HIDE DEF N, E
<1>4. \A i, j \in 1 .. n : i < j /\ i \in N => j \in N
  BY <1>1, <1>2, <1>3, VersionsOrdered
<1>5. CASE N = {}
  <2>1. N = n + 1 .. n /\ n + 1 \in 1 .. n + 1
    BY <1>5
  <2> QED
    BY <2>1 DEF N
<1>6. CASE N # {}
  <2> DEFINE p == Min(N)
  <2>1. p \in N /\ \A y \in N : p <= y
    <3>1. N \subseteq Nat
      BY <1>3
    <3> QED
      BY <1>6, <3>1, MinMember
  <2> HIDE DEF p
  <2>2. p \in 1 .. n
    BY <1>3, <2>1
  <2>3. \A i \in p .. n : i \in N
    <3> SUFFICES ASSUME NEW i \in p .. n, i # p PROVE i \in N
      BY <2>1
    <3>1. i \in 1 .. n /\ p < i
      BY <2>2
    <3> QED
      BY <1>4, <2>1, <2>2, <3>1
  <2>4. N = p .. n
    <3>1. \A y : y \in N => y \in p .. n
      <4>1. \A y \in N : y \in 1 .. n /\ p <= y
        BY <1>3, <2>1
      <4> QED
        BY <2>2, <4>1
    <3> QED
      BY <2>3, <3>1, Zenon
  <2> QED
    BY <2>2, <2>4 DEF N
<1> QED
  BY <1>5, <1>6

(* What has been read of an ascending list is its end.                     *)
LEMMA RankedIsEnd ==
  ASSUME NEW list, NEW l, NEW n \in Nat, NEW installed, NEW p \in 1 .. n + 1,
         NewerUpTo(l, n, installed) = p .. n, Ranked(list, l, n, installed)
  PROVE  /\ Len(list) = n - p + 1
         /\ \A i \in 1 .. Len(list) : list[i] = EntriesOf(l)[p + i - 1]
<1>1. \A j \in p .. n : Cardinality(p .. j) = j - p + 1
  BY FS_Interval
<1>2. Cardinality(p .. n) = n - p + 1
  <2>1. CASE p = n + 1
    BY <2>1, FS_Interval
  <2>2. CASE p # n + 1
    BY <1>1, <2>2
  <2> QED
    BY <2>1, <2>2
<1>3. Len(list) = n - p + 1
  BY <1>2, Zenon DEF Ranked
<1>4. ASSUME NEW i \in 1 .. Len(list) PROVE list[i] = EntriesOf(l)[p + i - 1]
  <2> DEFINE j == p + i - 1
  <2>1. j \in p .. n /\ j - p + 1 = i
    BY <1>3
  <2>2. {k \in p .. n : k <= j} = p .. j
    BY <2>1
  <2> HIDE DEF j
  <2>3. list[Cardinality({k \in p .. n : k <= j})] = EntriesOf(l)[j]
    BY <2>1, Zenon DEF Ranked
  <2>4. Cardinality({k \in p .. n : k <= j}) = i
    BY <1>1, <2>1, <2>2
  <2> QED
    BY <2>3, <2>4 DEF j
<1> QED
  BY <1>3, <1>4

(* A list that could be read can be read again.                            *)
LEMMA ReadAgain ==
  ASSUME NEW l \in Lists, Readable(l), ~EmptyLine(l), ~TooLong(l),
         NEW installed \in Versions
  PROVE  LET r == ReadList(Text(l), installed) IN
         /\ r.result = "ok" /\ r.list \in Seq(Entries)
         /\ Ranked(r.list, l, Len(l.lines), installed)
BY ReadListFacts, Zenon

(* The deletions of a release newer than what is installed are read,       *)
(* whatever that is.                                                       *)
LEMMA SameDeletions ==
  ASSUME NEW l \in Lists, Readable(l), NEW a \in Versions, NEW b \in Versions,
         NEW s \in Seq(Entries), Ranked(s, l, Len(l.lines), a),
         NEW t \in Seq(Entries), Ranked(t, l, Len(l.lines), b),
         NEW u \in Entries, IsOlder(a, u.version), IsOlder(b, u.version)
  PROVE  DeletedBy(u, s) \subseteq DeletedBy(u, t)
<1> DEFINE E == EntriesOf(l)
<1>1. PICK n \in Nat : n = Len(l.lines)
  BY ListFacts
<1>2. ASSUME NEW d \in DeletedBy(u, s) PROVE d \in DeletedBy(u, t)
  <2>1. VersionEquals(d.version, u.version) /\ \E p \in 1 .. Len(s) : s[p] = d
    BY <1>2 DEF DeletedBy, Range
  <2>2. PICK j \in NewerUpTo(l, n, a) : d = E[j]
    BY <1>1, <2>1 DEF Ranked
  <2>3. j \in 1 .. n /\ d \in Entries
    BY <1>1, <2>2, EntriesRead DEF NewerUpTo
  <2>4. d.version \in Versions /\ u.version \in Versions
    BY <2>3 DEF Entries
  <2>5. IsOlder(b, d.version)
    BY <2>1, <2>4, VersionsOrdered DEF VersionEquals, IsOlder
  <2>6. j \in NewerUpTo(l, n, b)
    BY <2>2, <2>3, <2>4, <2>5, PrecedesIsOlder DEF NewerUpTo
  <2> DEFINE q == Cardinality({k \in NewerUpTo(l, n, b) : k <= j})
  <2>7. q \in 1 .. Len(t) /\ t[q] = d
    BY <1>1, <2>2, <2>6, NewerFinite DEF Ranked
  <2> HIDE DEF q
  <2>8. d \in Range(t)
    BY <2>7 DEF Range
  <2> QED
    BY <2>1, <2>8 DEF DeletedBy
<1> QED
  BY <1>2

LEMMA RestIsRead ==
  ASSUME ListInv, step = "install", Ascending(manifest), NEW k \in DOMAIN updates
  PROVE  LET next == ReadList(Text(manifest), updates[k].version)
             rest == ReadList(Text(removed), updates[k].version)
         IN /\ next.result = "ok" /\ rest.result = "ok"
            /\ next.list = SubSeq(updates, k + 1, Len(updates))
            /\ \A u \in Range(next.list) :
                 DeletedBy(u, rest.list) = DeletedBy(u, deletions)
<1> DEFINE from == updates[k].version
           next == ReadList(Text(manifest), from)
           rest == ReadList(Text(removed), from)
           E == EntriesOf(manifest)
<1>1. /\ manifest \in Lists /\ removed \in Lists /\ current \in Versions
      /\ updates \in Seq(Entries) /\ deletions \in Seq(Entries)
      /\ Readable(manifest) /\ ~EmptyLine(manifest) /\ ~TooLong(manifest)
      /\ Ranked(updates, manifest, Len(manifest.lines), current)
      /\ Readable(removed) /\ ~EmptyLine(removed) /\ ~TooLong(removed)
      /\ Ranked(deletions, removed, Len(removed.lines), current)
  BY DEF ListInv
<1>2. PICK n \in Nat : n = Len(manifest.lines)
  BY <1>1, ListFacts
<1>3. k \in 1 .. Len(updates) /\ Len(updates) \in Nat /\ from \in Versions
  <2>1. k \in 1 .. Len(updates) /\ Len(updates) \in Nat /\ updates[k] \in Entries
    <3> HIDE DEF Entries
    <3> QED
      BY <1>1
  <2> QED
    BY <2>1 DEF Entries
<1> HIDE DEF from, next, rest, E
<1>4. /\ next.result = "ok" /\ next.list \in Seq(Entries)
      /\ Ranked(next.list, manifest, n, from)
      /\ rest.result = "ok" /\ rest.list \in Seq(Entries)
      /\ Ranked(rest.list, removed, Len(removed.lines), from)
  BY <1>1, <1>2, <1>3, ReadAgain DEF next, rest
<1>5. PICK p \in 1 .. n + 1 : NewerUpTo(manifest, n, current) = p .. n
  BY <1>1, <1>2, NewerAreLast
<1>6. /\ Len(updates) = n - p + 1
      /\ \A i \in 1 .. Len(updates) : updates[i] = E[p + i - 1]
  BY <1>1, <1>2, <1>5, RankedIsEnd DEF E
<1> DEFINE m == p + k - 1
<1>7. m \in p .. n /\ m \in 1 .. n /\ from = E[m].version
  BY <1>3, <1>5, <1>6 DEF from
<1> HIDE DEF m
<1>8. \A i \in 1 .. n : E[i] \in Entries /\ E[i].version \in Versions
  BY <1>1, <1>2, EntriesRead DEF E, Entries
<1>9. \A i, j \in 1 .. n : i < j => IsOlder(E[i].version, E[j].version)
  BY <1>2, <1>8, PrecedesIsOlder DEF Ascending, E
<1>10. IsOlder(current, from)
  <2>1. m \in NewerUpTo(manifest, n, current)
    BY <1>5, <1>7
  <2> QED
    BY <1>1, <1>3, <1>7, <2>1, PrecedesIsOlder DEF NewerUpTo, E
<1>11. NewerUpTo(manifest, n, from) = m + 1 .. n
  <2>1. \A i \in 1 .. n : IsOlder(from, E[i].version) <=> i > m
    BY <1>7, <1>8, <1>9, VersionsOrdered
  <2>2. \A i \in 1 .. n : Precedes(from, E[i].version) <=> i > m
    BY <1>3, <1>8, <2>1, PrecedesIsOlder
  <2> QED
    BY <1>7, <2>2 DEF NewerUpTo, E
<1>12. /\ Len(next.list) = n - m
       /\ \A i \in 1 .. Len(next.list) : next.list[i] = E[m + i]
  <2>1. m + 1 \in 1 .. n + 1
    BY <1>7
  <2>2. /\ Len(next.list) = n - (m + 1) + 1
        /\ \A i \in 1 .. Len(next.list) : next.list[i] = E[(m + 1) + i - 1]
    BY <1>4, <1>11, <2>1, RankedIsEnd DEF E
  <2> QED
    BY <1>7, <2>2
<1>13. next.list = SubSeq(updates, k + 1, Len(updates))
  <2> DEFINE sub == SubSeq(updates, k + 1, Len(updates))
             c == Len(updates) - k
  <2>1. c \in Nat /\ Len(next.list) = c
    BY <1>3, <1>5, <1>6, <1>7, <1>12 DEF m
  <2>2. /\ sub \in Seq(Entries) /\ Len(sub) = c
        /\ \A i \in 1 .. c : sub[i] = updates[k + i]
    BY <1>1, <1>3
  <2> HIDE DEF sub, c
  <2>3. \A i \in 1 .. c : next.list[i] = E[m + i]
    BY <1>12, <2>1
  <2>4. \A i \in 1 .. c : updates[k + i] = E[m + i]
    <3> SUFFICES ASSUME NEW i \in 1 .. c PROVE updates[k + i] = E[m + i]
      OBVIOUS
    <3>1. k + i \in 1 .. Len(updates)
      BY <1>3, <2>1 DEF c
    <3>2. p + (k + i) - 1 = m + i
      BY <1>3, <1>5 DEF m
    <3> QED
      BY <1>6, <3>1, <3>2
  <2>5. \A i \in 1 .. c : next.list[i] = sub[i]
    BY <2>2, <2>3, <2>4
  <2>6. next.list = sub
    BY <1>4, <2>1, <2>2, <2>5, SameSequence
  <2> QED
    BY <2>6 DEF sub
<1>14. ASSUME NEW u \in Range(next.list)
       PROVE  DeletedBy(u, rest.list) = DeletedBy(u, deletions)
  <2>1. PICK i \in 1 .. Len(next.list) : u = next.list[i]
    BY <1>4 DEF Range
  <2>2. m + i \in 1 .. n /\ m < m + i /\ u = E[m + i]
    BY <1>7, <1>12, <2>1
  <2>3. u \in Entries /\ u.version \in Versions /\ IsOlder(from, u.version)
    BY <1>7, <1>8, <1>9, <2>2
  <2>4. IsOlder(current, u.version)
    BY <1>1, <1>3, <1>10, <2>3, VersionsOrdered
  <2>5. DeletedBy(u, rest.list) \subseteq DeletedBy(u, deletions)
    BY <1>1, <1>3, <1>4, <2>3, <2>4, SameDeletions
  <2>6. DeletedBy(u, deletions) \subseteq DeletedBy(u, rest.list)
    BY <1>1, <1>3, <1>4, <2>3, <2>4, SameDeletions
  <2> QED
    BY <2>5, <2>6
<1> QED
  BY <1>4, <1>13, <1>14 DEF next, rest, from

(* Whatever ascending list of releases the server has, and whichever of    *)
(* them was the last to be stored when an update stopped: the next attempt *)
(* reads exactly those behind it, in their order, and the same deletions   *)
(* for each (versionsfile.c:303, 366; update.c:595, 613).                  *)
THEOREM UpdatesResume == Spec => []ResumesWithTheRest
<1>1. ListInv => ResumesWithTheRest
  BY RestIsRead, Zenon DEF ResumesWithTheRest
<1> QED
  BY <1>1, ListInit, ListStep, PTL DEF Spec
=============================================================================

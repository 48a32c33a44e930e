------------------------- MODULE SchemaTypesProofs -------------------------
(***************************************************************************)
(* Proofs about the columns of schemas and files, for every schema and     *)
(* every uploaded file.                                                    *)
(***************************************************************************)
EXTENDS SchemaTypes, TLAPS, FiniteSetTheorems, SequenceTheorems, WellFoundedInduction

-----------------------------------------------------------------------------
(* Filtering a sequence *)

\* A bounded set of indices has a least one.
LEMMA LeastIndex ==
    ASSUME NEW n \in Nat, NEW S \in SUBSET (0..n), S # {}
    PROVE  \E m \in S : \A s \in S : m <= s
<1> DEFINE Below(s) == {t \in S : t < s}
           T == {Below(s) : s \in S}
<1>1. T \subseteq FiniteSubsetsOf(S) /\ T # {}
  <2>1. IsFiniteSet(S)
    <3>1. S \in SUBSET Nat /\ \A s \in S : s <= n
      OBVIOUS
    <3>2. QED
      BY <3>1, FS_BoundedSetOfNaturals
  <2>2. \A U \in SUBSET S : IsFiniteSet(U)
    BY <2>1, FS_Subset
  <2>3. \A s \in S : Below(s) \in SUBSET S
    OBVIOUS
  <2> HIDE DEF Below
  <2>4. QED
    BY <2>2, <2>3 DEF FiniteSubsetsOf
<1>2. PICK x \in T : \A y \in T : ~(<<y, x>> \in StrictSubsetOrdering(S))
  <2> HIDE DEF T
  <2> QED BY <1>1, FS_StrictSubsetOrderingWellFounded, WFMin
<1>3. PICK m \in S : x = Below(m)
  BY <1>2
<1>4. ASSUME NEW t \in S, t < m PROVE FALSE
  <2>1. Below(t) \in T /\ Below(t) \subseteq x /\ t \in x /\ t \notin Below(t)
    <3>1. S \subseteq Nat
      OBVIOUS
    <3>2. Below(t) \in T
      OBVIOUS
    <3>3. \A s \in S : s < t => s < m
      BY <3>1, <1>4
    <3>4. ~(t < t)
      BY <3>1
    <3> HIDE DEF T
    <3>5. QED
      BY <1>3, <1>4, <3>2, <3>3, <3>4
  <2>2. <<Below(t), x>> \in StrictSubsetOrdering(S)
    BY <2>1, <1>3 DEF StrictSubsetOrdering
  <2>3. QED
    BY <1>2, <2>1, <2>2
<1>5. QED
  BY <1>4

\* The recursive function of Only on the first n elements.
Filters(f, s, S, n) ==
    f = [i \in 0..n |-> IF i = 0 THEN <<>>
                        ELSE IF s[i] \in S THEN Append(f[i - 1], s[i]) ELSE f[i - 1]]

\* There is such a function.
LEMMA FilterExists ==
    ASSUME NEW s, NEW S, NEW n \in Nat
    PROVE  \E f : Filters(f, s, S, n)
<1> DEFINE Bad == {m \in 0..n : ~ \E f : Filters(f, s, S, m)}
<1>1. SUFFICES ASSUME Bad # {} PROVE FALSE
  OBVIOUS
<1>2. PICK m \in Bad : \A k \in Bad : m <= k
  <2> HIDE DEF Bad
  <2>1. Bad \in SUBSET (0..n)
    BY DEF Bad
  <2>2. QED
    BY <1>1, <2>1, LeastIndex
<1>3. m # 0
  <2>1. SUFFICES ASSUME m = 0 PROVE FALSE
    OBVIOUS
  <2> DEFINE f == [i \in 0..0 |-> <<>>]
  <2>2. Filters(f, s, S, 0)
    BY DEF Filters
  <2>3. QED
    BY <1>2, <2>1, <2>2
<1>4. PICK g : Filters(g, s, S, m - 1)
  <2>1. m - 1 \in 0..n /\ m - 1 < m
    BY <1>3
  <2>2. QED
    BY <1>2, <2>1
<1> DEFINE last == IF s[m] \in S THEN Append(g[m - 1], s[m]) ELSE g[m - 1]
           f == [i \in 0..m |-> IF i = m THEN last ELSE g[i]]
<1>5. \A i \in 0..(m - 1) :
        g[i] = IF i = 0 THEN <<>> ELSE IF s[i] \in S THEN Append(g[i - 1], s[i]) ELSE g[i - 1]
  BY <1>3, <1>4 DEF Filters
<1>6. ASSUME NEW i \in 0..m
      PROVE  f[i] = IF i = 0 THEN <<>> ELSE IF s[i] \in S THEN Append(f[i - 1], s[i]) ELSE f[i - 1]
  <2>1. CASE i = m
    <3>1. f[m] = last /\ f[m - 1] = g[m - 1]
      BY <1>3
    <3> HIDE DEF f
    <3>2. QED
      BY <1>3, <2>1, <3>1
  <2>2. CASE i # m
    <3>1. f[i] = g[i] /\ i \in 0..(m - 1) /\ (i # 0 => f[i - 1] = g[i - 1])
      BY <2>2
    <3> HIDE DEF f
    <3>2. QED
      BY <1>5, <3>1
  <2>3. QED
    BY <2>1, <2>2
<1>7. Filters(f, s, S, m)
  <2>1. f = [i \in 0..m |-> f[i]]
    OBVIOUS
  <2> HIDE DEF f
  <2>2. QED
    BY <1>6, <2>1 DEF Filters
<1>8. QED
  BY <1>2, <1>7

\* What Only returns: the elements of the set, in their order, and none besides.
LEMMA OnlyFilters ==
    ASSUME NEW T, NEW s \in Seq(T), NEW S
    PROVE  /\ Only(s, S) \in Seq(T \intersect S) /\ Len(Only(s, S)) <= Len(s)
           /\ \A x : (\E i \in 1..Len(Only(s, S)) : Only(s, S)[i] = x)
                       <=> x \in S /\ \E i \in 1..Len(s) : s[i] = x
           /\ (\A i \in 1..Len(s) : s[i] \in S) => Only(s, S) = s
           /\ IsInjective(s) => IsInjective(Only(s, S))
<1> DEFINE n == Len(s)
           Good(p, m) == /\ p \in Seq(T \intersect S) /\ Len(p) <= m
                         /\ \A x : (\E i \in 1..Len(p) : p[i] = x)
                                     <=> x \in S /\ \E i \in 1..m : s[i] = x
                         /\ (\A i \in 1..m : s[i] \in S) =>
                              Len(p) = m /\ \A i \in 1..m : p[i] = s[i]
                         /\ IsInjective(s) =>
                              \A i, j \in 1..Len(p) : p[i] = p[j] => i = j
<1>1. n \in Nat /\ DOMAIN s = 1..n /\ \A i \in 1..n : s[i] \in T
  BY LenProperties, ElementOfSeq
<1>2. PICK f : Only(s, S) = f[n] /\ Filters(f, s, S, n)
  <2> DEFINE c == CHOOSE g : Filters(g, s, S, n)
  <2>1. Filters(c, s, S, n)
    BY <1>1, FilterExists
  <2>2. c[n] = Only(s, S)
    BY DEF Only, Filters
  <2>3. QED
    BY <2>1, <2>2
<1>3. /\ f[0] = <<>>
      /\ \A m \in 1..n : f[m] = IF s[m] \in S THEN Append(f[m - 1], s[m]) ELSE f[m - 1]
  <2>1. 0 \in 0..n /\ \A m \in 1..n : m \in 0..n /\ m # 0
    BY <1>1
  <2>2. \A m \in 0..n : f[m] = IF m = 0 THEN <<>>
                               ELSE IF s[m] \in S THEN Append(f[m - 1], s[m]) ELSE f[m - 1]
    BY <1>2 DEF Filters
  <2>3. QED
    BY <2>1, <2>2
<1>4. Good(f[0], 0)
  <2>1. <<>> \in Seq(T \intersect S) /\ Len(<<>>) = 0
    OBVIOUS
  <2>2. QED
    BY <1>3, <2>1
<1>5. ASSUME NEW m \in 1..n, Good(f[m - 1], m - 1) PROVE Good(f[m], m)
  <2> DEFINE p == f[m - 1]
             q == f[m]
  <2>0. /\ p \in Seq(T \intersect S) /\ Len(p) \in Nat /\ Len(p) <= m - 1
        /\ m \in Nat /\ 1..m = 1..(m - 1) \union {m} /\ m \notin 1..(m - 1) /\ 1..m \subseteq 1..n
    BY <1>1, <1>5, LenProperties
  <2>1. CASE s[m] \notin S
    <3>1. q = p
      BY <1>3, <2>1
    <3> HIDE DEF p, q
    <3>2. /\ q \in Seq(T \intersect S) /\ Len(q) <= m
          /\ ~ \A i \in 1..m : s[i] \in S
      BY <2>0, <2>1, <3>1
    <3>3. ASSUME NEW x
          PROVE  (\E i \in 1..Len(q) : q[i] = x) <=> x \in S /\ \E i \in 1..m : s[i] = x
      BY <1>5, <2>0, <2>1, <3>1 DEF p
    <3>4. IsInjective(s) => \A i, j \in 1..Len(q) : q[i] = q[j] => i = j
      BY <1>5, <3>1 DEF p
    <3>5. QED
      BY <3>2, <3>3, <3>4 DEF q
  <2>2. CASE s[m] \in S
    <3>1. q = Append(p, s[m])
      BY <1>3, <2>2
    <3>2. s[m] \in T \intersect S
      BY <1>1, <2>2
    <3> HIDE DEF p, q
    <3>3. /\ q \in Seq(T \intersect S) /\ Len(q) = Len(p) + 1
          /\ \A i \in 1..Len(p) : q[i] = p[i]
          /\ q[Len(p) + 1] = s[m]
      BY <2>0, <3>1, <3>2, AppendProperties
    <3>4. 1..Len(q) = 1..Len(p) \union {Len(p) + 1} /\ Len(q) <= m
      BY <2>0, <3>3
    <3>5. ASSUME NEW x
          PROVE  (\E i \in 1..Len(q) : q[i] = x) <=> x \in S /\ \E i \in 1..m : s[i] = x
      <4>1. (\E i \in 1..Len(q) : q[i] = x) <=> (\E i \in 1..Len(p) : p[i] = x) \/ s[m] = x
        BY <3>3, <3>4
      <4>2. (\E i \in 1..m : s[i] = x) <=> (\E i \in 1..(m - 1) : s[i] = x) \/ s[m] = x
        BY <2>0
      <4>3. (\E i \in 1..Len(p) : p[i] = x) <=> x \in S /\ \E i \in 1..(m - 1) : s[i] = x
        BY <1>5 DEF p
      <4>4. QED
        BY <2>2, <4>1, <4>2, <4>3
    <3>6. (\A i \in 1..m : s[i] \in S) => Len(q) = m /\ \A i \in 1..m : q[i] = s[i]
      <4>1. SUFFICES ASSUME \A i \in 1..m : s[i] \in S
                     PROVE  Len(q) = m /\ \A i \in 1..m : q[i] = s[i]
        OBVIOUS
      <4>2. Len(p) = m - 1 /\ \A i \in 1..(m - 1) : p[i] = s[i]
        BY <1>5, <2>0, <4>1 DEF p
      <4>3. QED
        BY <2>0, <3>3, <4>2
    <3>7. IsInjective(s) => \A i, j \in 1..Len(q) : q[i] = q[j] => i = j
      <4>1. SUFFICES ASSUME IsInjective(s), NEW i \in 1..Len(q), NEW j \in 1..Len(q), q[i] = q[j]
                     PROVE  i = j
        OBVIOUS
      <4>2. \A a, b \in 1..Len(p) : p[a] = p[b] => a = b
        BY <1>5, <4>1 DEF p
      <4>3. ASSUME NEW a \in 1..Len(p) PROVE p[a] # s[m]
        <5>1. PICK b \in 1..(m - 1) : s[b] = p[a]
          BY <1>5 DEF p
        <5>2. b \in DOMAIN s /\ m \in DOMAIN s /\ b # m
          BY <1>1, <2>0
        <5>3. QED
          BY <4>1, <5>1, <5>2 DEF IsInjective
      <4>4. QED
        BY <3>3, <3>4, <4>1, <4>2, <4>3
    <3>8. QED
      BY <3>3, <3>4, <3>5, <3>6, <3>7 DEF q
  <2>3. QED
    BY <2>1, <2>2
<1>6. Good(f[n], n)
  <2> DEFINE Bad == {m \in 0..n : ~ Good(f[m], m)}
  <2> HIDE DEF Good
  <2>1. SUFFICES ASSUME Bad # {} PROVE FALSE
    BY <1>1
  <2>2. PICK m \in Bad : \A k \in Bad : m <= k
    <3> HIDE DEF Bad
    <3>1. Bad \in SUBSET (0..n)
      BY DEF Bad
    <3>2. QED
      BY <1>1, <2>1, <3>1, LeastIndex
  <2>3. m \in 1..n
    BY <1>1, <1>4, <2>2
  <2>4. m - 1 \in 0..n /\ m - 1 \notin Bad
    BY <1>1, <2>2, <2>3
  <2>5. QED
    BY <1>5, <2>2, <2>3, <2>4
<1>7. QED
  <2> DEFINE p == f[n]
  <2>1. p = Only(s, S) /\ Good(p, n)
    BY <1>2, <1>6
  <2> HIDE DEF p
  <2>2. p \in Seq(T \intersect S) /\ DOMAIN p = 1..Len(p) /\ Seq(T \intersect S) \subseteq Seq(T)
    BY <2>1, LenProperties, SeqMonotonic
  <2>3. (\A i \in 1..n : s[i] \in S) => p = s
    <3>1. SUFFICES ASSUME \A i \in 1..n : s[i] \in S PROVE p = s
      OBVIOUS
    <3>2. Len(p) = Len(s) /\ \A i \in 1..Len(p) : p[i] = s[i]
      BY <2>1, <3>1
    <3>3. QED
      BY <2>2, <3>2, SeqEqual
  <2>4. IsInjective(s) => IsInjective(p)
    BY <2>1, <2>2 DEF IsInjective
  <2>5. QED
    BY <2>1, <2>3, <2>4


\* The set of what Only returns.
LEMMA OnlyRange ==
    ASSUME NEW T, NEW s \in Seq(T), NEW S
    PROVE  Range(Only(s, S)) = Range(s) \intersect S
<1>1. Only(s, S) \in Seq(T \intersect S)
  BY OnlyFilters
<1>2. /\ Range(Only(s, S)) = {Only(s, S)[i] : i \in 1..Len(Only(s, S))}
      /\ Range(s) = {s[i] : i \in 1..Len(s)}
  BY <1>1, RangeEquality
<1>3. \A x : (\E i \in 1..Len(Only(s, S)) : Only(s, S)[i] = x)
               <=> x \in S /\ \E i \in 1..Len(s) : s[i] = x
  BY ZenonT(40), OnlyFilters
<1>4. QED
  BY <1>2, <1>3

-----------------------------------------------------------------------------
(* Selecting columns by name *)

\* The names of a sequence of columns, one for each.
LEMMA NamesAreSequences ==
    ASSUME NEW columns, IsSeq(columns)
    PROVE  /\ columns \in Seq(Range(columns))
           /\ Len(columns) \in Nat /\ DOMAIN columns = 1..Len(columns)
           /\ NamesOf(columns) \in Seq(Names(columns))
           /\ Len(NamesOf(columns)) = Len(columns)
           /\ \A i \in 1..Len(columns) : NamesOf(columns)[i] = columns[i].name
<1>1. /\ columns \in Seq(Range(columns))
      /\ Len(columns) \in Nat /\ DOMAIN columns = 1..Len(columns)
  BY LenProperties DEF IsSeq
<1>2. NamesOf(columns) = [i \in 1..Len(columns) |-> columns[i].name]
  BY <1>1 DEF NamesOf
<1>3. \A i \in 1..Len(columns) : columns[i].name \in Names(columns)
  BY <1>1 DEF Names
<1>4. NamesOf(columns) \in Seq(Names(columns)) /\ Len(NamesOf(columns)) = Len(columns)
  BY <1>1, <1>2, <1>3
<1>5. QED
  BY <1>1, <1>2, <1>4

\* A selection has the columns of the frame with the names that were asked for.
LEMMA SelectFinds ==
    ASSUME NEW frame, NEW N, NEW names \in Seq(N),
           \A i \in 1..Len(names) : names[i] \in Names(frame)
    PROVE  /\ Select(frame, names) \in Seq(Range(frame))
           /\ Len(Select(frame, names)) = Len(names)
           /\ \A i \in 1..Len(names) :
                /\ Select(frame, names)[i].name = names[i]
                /\ \E j \in DOMAIN frame : frame[j] = Select(frame, names)[i]
           /\ \A i, j \in 1..Len(names) :
                names[i] = names[j] => Select(frame, names)[i] = Select(frame, names)[j]
<1> DEFINE found(n) == CHOOSE c \in Range(frame) : c.name = n
<1>1. Len(names) \in Nat /\ DOMAIN names = 1..Len(names)
  BY LenProperties
<1>2. Select(frame, names) = [i \in 1..Len(names) |-> found(names[i])]
  BY <1>1 DEF Select
<1>3. ASSUME NEW i \in 1..Len(names) PROVE found(names[i]) \in Range(frame) /\ found(names[i]).name = names[i]
  <2>1. \E c \in Range(frame) : c.name = names[i]
    BY DEF Names, Range
  <2>2. QED
    BY <2>1
<1> HIDE DEF found
<1>4. Select(frame, names) \in Seq(Range(frame)) /\ Len(Select(frame, names)) = Len(names)
  BY <1>1, <1>2, <1>3
<1>5. \A i \in 1..Len(names) : Select(frame, names)[i] = found(names[i])
  BY <1>2
<1>6. QED
  BY <1>3, <1>4, <1>5 DEF Range

\* The names a file is reordered by: the declared ones it has, then the others.
LEMMA WantedNames ==
    ASSUME NEW schema, IsSeq(schema.columns), NEW frame, IsSeq(frame)
    PROVE  LET declared == Declared(schema, frame)
               others == Others(schema, frame)
               wanted == Wanted(schema, frame)
           IN  /\ Len(declared) \in Nat /\ Len(others) \in Nat
               /\ wanted \in Seq(Names(frame)) /\ Len(wanted) = Len(declared) + Len(others)
               /\ \A i \in 1..Len(declared) :
                    wanted[i] = declared[i] /\ declared[i] \in Names(schema.columns)
               /\ \A i \in 1..Len(others) :
                    wanted[Len(declared) + i] = others[i] /\ others[i] \notin Names(schema.columns)
               /\ ~AllowsExtra(schema) => Len(others) = 0
               /\ Len(declared) <= Len(schema.columns)
               /\ (\A i \in 1..Len(schema.columns) : schema.columns[i].name \in Names(frame)) =>
                    declared = NamesOf(schema.columns)
               /\ IsInjective(NamesOf(frame)) => IsInjective(others)
               /\ \A n \in Names(frame) : AllowsExtra(schema) /\ n \notin Names(schema.columns) =>
                    \E i \in 1..Len(others) : others[i] = n
<1> DEFINE D == Names(schema.columns)
           F == Names(frame)
<1>0. /\ NamesOf(schema.columns) \in Seq(D) /\ Len(NamesOf(schema.columns)) = Len(schema.columns)
      /\ \A i \in 1..Len(schema.columns) : NamesOf(schema.columns)[i] = schema.columns[i].name
      /\ NamesOf(frame) \in Seq(F) /\ Len(NamesOf(frame)) = Len(frame)
      /\ DOMAIN frame = 1..Len(frame)
      /\ \A i \in 1..Len(frame) : NamesOf(frame)[i] = frame[i].name
  BY NamesAreSequences
<1>d. PICK declared, others, wanted : /\ declared = Declared(schema, frame)
                                      /\ others = Others(schema, frame)
                                      /\ wanted = Wanted(schema, frame)
  OBVIOUS
<1>u. PICK undeclared : undeclared = IF AllowsExtra(schema) THEN F \ D ELSE {}
  OBVIOUS
<1>o. declared = Only(NamesOf(schema.columns), F) /\ others = Only(NamesOf(frame), undeclared)
  BY <1>d, <1>u DEF Declared, Others
<1>1. /\ declared \in Seq(D \intersect F) /\ Len(declared) <= Len(schema.columns)
      /\ (\A i \in 1..Len(schema.columns) : schema.columns[i].name \in F) =>
           declared = NamesOf(schema.columns)
  <2> DEFINE names == NamesOf(schema.columns)
             n == Len(schema.columns)
  <2> HIDE DEF D, F, names
  <2>1. names \in Seq(D) /\ Len(names) = n
        /\ \A i \in 1..n : names[i] = schema.columns[i].name
    BY <1>0 DEF names
  <2>2. /\ Only(names, F) \in Seq(D \intersect F) /\ Len(Only(names, F)) <= Len(names)
        /\ (\A i \in 1..Len(names) : names[i] \in F) => Only(names, F) = names
    BY <2>1, OnlyFilters
  <2>3. declared = Only(names, F)
    BY <1>o DEF names
  <2>4. QED
    BY <2>1, <2>2, <2>3 DEF names
<1>2. /\ others \in Seq(F \intersect undeclared)
      /\ \A x : (\E i \in 1..Len(others) : others[i] = x)
                  <=> x \in undeclared /\ \E i \in 1..Len(frame) : NamesOf(frame)[i] = x
      /\ IsInjective(NamesOf(frame)) => IsInjective(others)
  <2> DEFINE names == NamesOf(frame)
  <2> HIDE DEF D, F, names
  <2>1. names \in Seq(F) /\ Len(names) = Len(frame)
    BY <1>0 DEF names
  <2>2. /\ Only(names, undeclared) \in Seq(F \intersect undeclared)
        /\ \A x : (\E i \in 1..Len(Only(names, undeclared)) : Only(names, undeclared)[i] = x)
                    <=> x \in undeclared /\ \E i \in 1..Len(names) : names[i] = x
        /\ IsInjective(names) => IsInjective(Only(names, undeclared))
    BY SMTT(40), <2>1, OnlyFilters
  <2>3. others = Only(names, undeclared)
    BY <1>o DEF names
  <2>4. QED
    BY <2>1, <2>2, <2>3 DEF names
<1>3. wanted = declared \o others
  BY <1>d DEF Wanted
<1>4. \A n \in F : \E i \in 1..Len(frame) : NamesOf(frame)[i] = n
  BY <1>0 DEF Names
<1>5. /\ Len(declared) \in Nat /\ \A i \in 1..Len(declared) : declared[i] \in D \intersect F
      /\ Len(others) \in Nat /\ \A i \in 1..Len(others) : others[i] \in F \intersect undeclared
  <2> HIDE DEF D, F
  <2>1. QED
    BY <1>1, <1>2, LenProperties, ElementOfSeq
<1>6. declared \in Seq(F) /\ others \in Seq(F)
  <2>1. D \intersect F \subseteq F /\ F \intersect undeclared \subseteq F
    OBVIOUS
  <2> HIDE DEF D, F
  <2>2. QED
    BY <1>1, <1>2, <2>1, SeqMonotonic
<1>7. /\ wanted \in Seq(F) /\ Len(wanted) = Len(declared) + Len(others)
      /\ \A i \in 1..Len(declared) : wanted[i] = declared[i]
      /\ \A i \in 1..Len(others) : wanted[Len(declared) + i] = others[i]
  <2> HIDE DEF D, F
  <2>1. QED
    BY <1>3, <1>5, <1>6, ConcatProperties
<1>8. ~AllowsExtra(schema) => Len(others) = 0
  <2>1. SUFFICES ASSUME ~AllowsExtra(schema), Len(others) > 0 PROVE FALSE
    BY <1>5
  <2>2. 1 \in 1..Len(others)
    BY <1>5, <2>1
  <2>3. QED
    BY <1>5, <1>u, <2>1, <2>2
<1>9. \A n \in F : AllowsExtra(schema) /\ n \notin D => \E i \in 1..Len(others) : others[i] = n
  BY <1>2, <1>4, <1>u
<1>10. \A i \in 1..Len(others) : others[i] \notin D
  BY <1>5, <1>u
<1>11. QED
  BY <1>1, <1>2, <1>5, <1>7, <1>8, <1>9, <1>10, <1>d

-----------------------------------------------------------------------------
(* Prepared files *)

\* A reordered file has the columns it was asked for, and equal names name one column.
LEMMA ReorderedColumns ==
    ASSUME NEW schema, IsSeq(schema.columns), NEW frame, IsSeq(frame)
    PROVE  LET o == Reorder(schema, frame)
               wanted == Wanted(schema, frame)
           IN
           /\ o \in Seq(Range(frame))
           /\ Len(o) \in Nat /\ DOMAIN o = 1..Len(o) /\ Len(o) = Len(wanted)
           /\ wanted \in Seq(Names(frame)) /\ DOMAIN wanted = 1..Len(wanted)
           /\ \A i \in 1..Len(o) : o[i].name = wanted[i] /\ \E j \in DOMAIN frame : frame[j] = o[i]
           /\ \A i, j \in 1..Len(o) : o[i].name = o[j].name => o[i] = o[j]
<1>0. PICK o, wanted : o = Reorder(schema, frame) /\ wanted = Wanted(schema, frame)
  OBVIOUS
<1>1. wanted \in Seq(Names(frame))
  BY <1>0, WantedNames
<1>2. o = Select(frame, wanted)
  BY <1>0 DEF Reorder
<1>3. /\ Len(wanted) \in Nat /\ DOMAIN wanted = 1..Len(wanted)
      /\ \A i \in 1..Len(wanted) : wanted[i] \in Names(frame)
  BY <1>1, LenProperties, ElementOfSeq
<1>4. /\ Select(frame, wanted) \in Seq(Range(frame)) /\ Len(Select(frame, wanted)) = Len(wanted)
      /\ \A i \in 1..Len(wanted) : /\ Select(frame, wanted)[i].name = wanted[i]
                                   /\ \E j \in DOMAIN frame : frame[j] = Select(frame, wanted)[i]
      /\ \A i, j \in 1..Len(wanted) :
           wanted[i] = wanted[j] => Select(frame, wanted)[i] = Select(frame, wanted)[j]
  BY <1>1, <1>3, SelectFinds
<1>5. DOMAIN o = 1..Len(o)
  <2>1. QED
    BY <1>2, <1>4, LenProperties
<1>6. QED
  BY <1>0, <1>1, <1>2, <1>3, <1>4, <1>5

\* A valid file begins with the columns of its schema, and has others only if the schema
\* allows them.
LEMMA ValidBegins ==
    ASSUME NEW schema, IsSeq(schema.columns), NEW frame, IsSeq(frame),
           NEW o, o = Reorder(schema, frame), Valid(schema, o)
    PROVE  /\ Len(schema.columns) <= Len(o)
           /\ \A i \in 1..Len(schema.columns) : o[i] = schema.columns[i]
           /\ ~AllowsExtra(schema) => o = schema.columns
<1> DEFINE n == Len(schema.columns)
<1>0. PICK wanted : wanted = Wanted(schema, frame)
  OBVIOUS
<1>1. /\ n \in Nat /\ DOMAIN schema.columns = 1..n
      /\ Len(NamesOf(schema.columns)) = n
      /\ \A i \in 1..n : NamesOf(schema.columns)[i] = schema.columns[i].name
  BY NamesAreSequences
<1>2. /\ Len(o) \in Nat /\ DOMAIN o = 1..Len(o) /\ Len(o) = Len(wanted)
      /\ \A i \in 1..Len(o) : o[i].name = wanted[i] /\ \E j \in DOMAIN frame : frame[j] = o[i]
      /\ \A i, j \in 1..Len(o) : o[i].name = o[j].name => o[i] = o[j]
  BY <1>0, ReorderedColumns
<1>d. PICK declared, others : declared = Declared(schema, frame) /\ others = Others(schema, frame)
  OBVIOUS
<1>3. /\ Len(declared) \in Nat /\ Len(others) \in Nat
      /\ Len(wanted) = Len(declared) + Len(others) /\ Len(declared) <= n
      /\ \A i \in 1..Len(declared) : wanted[i] = declared[i]
      /\ ~AllowsExtra(schema) => Len(others) = 0
      /\ (\A i \in 1..n : schema.columns[i].name \in Names(frame)) =>
           declared = NamesOf(schema.columns)
  BY <1>0, <1>d, WantedNames
<1>4. \A i \in 1..n : \E j \in 1..Len(o) :
        o[j] = schema.columns[i] /\ (AllowsExtra(schema) \/ i = j)
  BY Z3T(30), <1>1, <1>2 DEF Valid
<1> HIDE DEF n
<1>5. \A i \in 1..n : schema.columns[i].name \in Names(frame)
  BY <1>2, <1>4 DEF Names
<1>6. n <= Len(o) /\ Len(declared) = n
  BY <1>1, <1>2, <1>3, <1>5
<1>7. ASSUME NEW i \in 1..n PROVE o[i] = schema.columns[i]
  <2>1. PICK j \in 1..Len(o) : o[j] = schema.columns[i]
    BY <1>4
  <2>2. i \in 1..Len(o) /\ o[i].name = schema.columns[i].name
    BY <1>1, <1>2, <1>3, <1>5, <1>6
  <2>3. QED
    BY <1>2, <2>1, <2>2
<1>8. ASSUME ~AllowsExtra(schema) PROVE o = schema.columns
  <2>1. Len(o) = n
    BY <1>2, <1>3, <1>6, <1>8
  <2>2. o \in [1..n -> Range(frame)]
    BY <1>0, <2>1, ReorderedColumns, LenProperties
  <2>3. schema.columns \in [1..n -> Range(schema.columns)]
    BY NamesAreSequences, LenProperties DEF n
  <2>4. o = [i \in 1..n |-> o[i]] /\ schema.columns = [i \in 1..n |-> schema.columns[i]]
    BY <2>2, <2>3
  <2>5. [i \in 1..n |-> o[i]] = [i \in 1..n |-> schema.columns[i]]
    BY <1>7
  <2>6. QED
    BY <2>4, <2>5
<1>9. QED
  BY <1>6, <1>7, <1>8 DEF n

\* The columns of a table are a sequence, of the metadata around the declared columns.
LEMMA EnrichedIs ==
    ASSUME NEW schema, IsSeq(schema.columns)
    PROVE  LET e == EnrichedColumns(schema)
               n == Len(schema.columns)
               added == <<HashKey(schema.name), HashDiff, LoadDate, RecordSource, LoadId>>
           IN  /\ IsSeq(e)
               /\ schema.key = {} => e = schema.columns
               /\ schema.key # {} =>
                    /\ Len(e) = n + 5
                    /\ e[1] = added[1]
                    /\ \A i \in 1..n : e[i + 1] = schema.columns[i]
                    /\ \A i \in 2..5 : e[n + i] = added[i]
<1> DEFINE e == EnrichedColumns(schema)
           c == schema.columns
           n == Len(c)
           head == <<HashKey(schema.name)>>
           tail == <<HashDiff, LoadDate, RecordSource, LoadId>>
           added == <<HashKey(schema.name), HashDiff, LoadDate, RecordSource, LoadId>>
           T == Range(c)
                  \union {HashKey(schema.name), HashDiff, LoadDate, RecordSource, LoadId}
<1>1. CASE schema.key = {}
  BY <1>1 DEF EnrichedColumns
<1>2. CASE schema.key # {}
  <2>1. e = (head \o c) \o tail
    BY <1>2 DEF EnrichedColumns
  <2>2. n \in Nat /\ c \in Seq(Range(c))
    BY NamesAreSequences
  <2>3. c \in Seq(T)
    BY <2>2, SeqMonotonic
  <2>4. head \in Seq(T) /\ Len(head) = 1 /\ head[1] = added[1]
    OBVIOUS
  <2>5. tail \in Seq(T) /\ Len(tail) = 4 /\ tail[1] = added[2] /\ tail[2] = added[3]
        /\ tail[3] = added[4] /\ tail[4] = added[5]
    OBVIOUS
  <2> HIDE DEF head, tail, T, c, added, e
  <2>c. PICK m \in Nat : m = n /\ Len(c) = m
    BY <2>2
  <2>d. PICK front : front = head \o c
    OBVIOUS
  <2>6. /\ front \in Seq(T) /\ Len(front) = 1 + m
        /\ \A i \in 1..(1 + m) : front[i] = IF i <= 1 THEN head[i] ELSE c[i - 1]
    <3>1. /\ head \o c \in Seq(T) /\ Len(head \o c) = Len(head) + Len(c)
          /\ \A i \in 1..(Len(head) + Len(c)) :
               (head \o c)[i] = IF i <= Len(head) THEN head[i] ELSE c[i - Len(head)]
      BY <2>3, <2>4, ConcatProperties
    <3>2. QED
      BY <2>4, <2>c, <2>d, <3>1
  <2>7. /\ e \in Seq(T) /\ Len(e) = m + 5
        /\ \A i \in 1..(m + 5) : e[i] = IF i <= m + 1 THEN front[i] ELSE tail[i - (m + 1)]
    <3>1. e = front \o tail
      BY <2>1, <2>d
    <3>2. /\ front \o tail \in Seq(T) /\ Len(front \o tail) = Len(front) + Len(tail)
          /\ \A i \in 1..(Len(front) + Len(tail)) :
               (front \o tail)[i] = IF i <= Len(front) THEN front[i] ELSE tail[i - Len(front)]
      BY <2>5, <2>6, ConcatProperties
    <3>3. Len(front) = m + 1 /\ Len(front) + Len(tail) = m + 5
      BY <2>5, <2>6
    <3>4. QED
      BY <3>1, <3>2, <3>3
  <2>8. \A i \in 2..5 : e[m + i] = added[i]
    <3>1. /\ e[m + 2] = tail[1] /\ e[m + 3] = tail[2]
          /\ e[m + 4] = tail[3] /\ e[m + 5] = tail[4]
      BY SMTT(30), <2>7
    <3>2. QED
      BY <2>5, <3>1
  <2>9. e[1] = added[1] /\ \A i \in 1..m : e[i + 1] = c[i]
    <3>1. e[1] = front[1] /\ front[1] = head[1]
      BY <2>6, <2>7
    <3>2. ASSUME NEW i \in 1..m PROVE e[i + 1] = c[i]
      <4>1. e[i + 1] = front[i + 1] /\ front[i + 1] = c[i]
        BY <2>6, <2>7
      <4>2. QED
        BY <4>1
    <3>3. QED
      BY <2>4, <3>1, <3>2
  <2>10. IsSeq(e)
    BY <2>7, SeqOfRange DEF IsSeq
  <2>11. QED
    BY <1>2, <2>c, <2>7, <2>8, <2>9, <2>10 DEF e, c, added
<1>3. QED
  BY <1>1, <1>2


\* The metadata replace whatever a file brings under their names, and the selection by
\* the names of the table finds the columns of the table.
LEMMA EnrichFits ==
    ASSUME NEW schema, IsSeq(schema.columns), NEW o, NEW S, o \in Seq(S),
           Len(schema.columns) <= Len(o),
           \A i \in 1..Len(schema.columns) : o[i] = schema.columns[i],
           \A i, j \in 1..Len(o) : o[i].name = o[j].name => o[i] = o[j],
           schema.key # {}, IsInjective(NamesOf(EnrichedColumns(schema)))
    PROVE  Enrich(schema, o) = EnrichedColumns(schema)
<1> DEFINE n == Len(schema.columns)
           added == <<HashKey(schema.name), HashDiff, LoadDate, RecordSource, LoadId>>
           kept == {c \in Range(o) : c.name \notin Names(added)}
<1>e. PICK e : e = EnrichedColumns(schema)
  OBVIOUS
<1>m. PICK m \in Nat : m = n
  BY NamesAreSequences
<1>1. /\ IsSeq(e) /\ Len(e) = m + 5 /\ e[1] = added[1]
      /\ \A i \in 1..m : e[i + 1] = schema.columns[i]
      /\ \A i \in 2..5 : e[m + i] = added[i]
  BY <1>e, <1>m, EnrichedIs
<1>2. /\ DOMAIN e = 1..(m + 5) /\ NamesOf(e) \in Seq(Names(e)) /\ Len(NamesOf(e)) = m + 5
      /\ \A i \in 1..(m + 5) : NamesOf(e)[i] = e[i].name
  BY <1>1, NamesAreSequences
<1>3. \A i, j \in 1..(m + 5) : e[i].name = e[j].name => i = j
  <2>1. DOMAIN NamesOf(e) = 1..(m + 5)
    BY <1>2 DEF NamesOf
  <2>2. QED
    BY <1>2, <1>e, <2>1 DEF IsInjective
<1>4. /\ added \in Seq(Range(added)) /\ Len(added) = 5 /\ DOMAIN added = 1..5
      /\ Range(added) = {added[i] : i \in 1..5} /\ Names(added) = {added[i].name : i \in 1..5}
  <2>1. DOMAIN added = 1..5 /\ Len(added) = 5
    OBVIOUS
  <2>2. \A i \in 1..5 : added[i] \in Range(added)
    BY <2>1 DEF Range
  <2> HIDE DEF added
  <2>3. Range(added) = {added[i] : i \in 1..5} /\ Names(added) = {added[i].name : i \in 1..5}
    BY <2>1 DEF Range, Names
  <2>4. added \in Seq(Range(added))
    <3> DEFINE R == Range(added)
    <3>1. {HashKey(schema.name), HashDiff, LoadDate, RecordSource, LoadId} \subseteq R
      <4>1. /\ added[1] = HashKey(schema.name) /\ added[2] = HashDiff /\ added[3] = LoadDate
            /\ added[4] = RecordSource /\ added[5] = LoadId
        BY DEF added
      <4>2. QED
        BY <2>2, <4>1
    <3> HIDE DEF R
    <3>2. added \in Seq(R)
      BY <3>1 DEF added
    <3>3. QED
      BY <3>2 DEF R
  <2>5. QED
    BY <2>1, <2>3, <2>4
<1> DEFINE x == Only(o, kept) \o added
<1>5. Enrich(schema, o) = Select(x, NamesOf(e))
  BY <1>e DEF Enrich
<1>6. /\ Len(o) \in Nat /\ DOMAIN o = 1..Len(o) /\ Range(o) = {o[i] : i \in 1..Len(o)}
      /\ m <= Len(o) /\ \A i \in 1..m : o[i] = schema.columns[i]
  BY <1>m, LenProperties DEF Range
<1> HIDE DEF added, kept, n
<1>7. \A c : c \in Range(x) <=> c \in kept \/ c \in Range(added)
  <2> DEFINE p == Only(o, kept)
             T == S \union Range(added)
  <2>1. p \in Seq(S \intersect kept) /\ Range(p) = kept
    <3>1. p \in Seq(S \intersect kept) /\ Range(p) = Range(o) \intersect kept
      BY OnlyFilters, OnlyRange
    <3>2. QED
      BY <3>1 DEF kept
  <2>2. /\ DOMAIN p = 1..Len(p) /\ S \intersect kept \subseteq T /\ Range(added) \subseteq T
    BY <2>1, LenProperties
  <2> HIDE DEF p, T
  <2>3. p \in Seq(T) /\ added \in Seq(T)
    BY <1>4, <2>1, <2>2, SeqMonotonic
  <2>4. Range(p \o added) = Range(p) \union Range(added)
    BY <2>3, RangeConcatenation
  <2>5. QED
    BY <2>1, <2>4 DEF p
<1> HIDE DEF x
<1>8. ASSUME NEW i \in 1..5
      PROVE  \E j \in {1} \union (m + 2)..(m + 5) : e[j] = added[i]
  <2>1. CASE i = 1
    BY <1>1, <2>1
  <2>2. CASE i \in 2..5
    BY <1>1, <2>2
  <2>3. QED
    BY <2>1, <2>2
<1>9. ASSUME NEW j \in 1..(m + 5)
      PROVE  e[j] \in Range(x) /\ \A c \in Range(x) : c.name = e[j].name => c = e[j]
  <2>1. CASE j \in {1} \union (m + 2)..(m + 5)
    <3>1. e[j] \in Range(added)
      <4>1. \E i \in 1..5 : e[j] = added[i]
        <5>1. CASE j = 1
          BY <1>1, <5>1
        <5>2. CASE j \in (m + 2)..(m + 5)
          <6>1. j - m \in 2..5 /\ m + (j - m) = j
            BY <5>2
          <6>2. e[j] = added[j - m]
            BY <1>1, <6>1
          <6>3. QED
            BY <6>1, <6>2
        <5>3. QED
          BY <2>1, <5>1, <5>2
      <4>2. QED
        BY <1>4, <4>1
    <3>2. ASSUME NEW c \in Range(x), c.name = e[j].name PROVE c = e[j]
      <4>1. e[j].name \in Names(added)
        BY <1>4, <3>1
      <4>2. c \in Range(added)
        BY <1>7, <3>2, <4>1 DEF kept
      <4>3. PICK i \in 1..5 : c = added[i]
        BY <1>4, <4>2
      <4>4. PICK k \in {1} \union (m + 2)..(m + 5) : e[k] = c
        BY <1>8, <4>3
      <4>5. k \in 1..(m + 5)
        BY <4>4
      <4>6. QED
        BY <1>3, <3>2, <4>4, <4>5
    <3>3. QED
      BY <1>7, <3>1, <3>2
  <2>2. CASE j \in 2..(m + 1)
    <3>1. PICK k \in 1..m : j = k + 1
      <4>1. j - 1 \in 1..m /\ j = (j - 1) + 1
        BY <2>2
      <4>2. QED
        BY <4>1
    <3>2. e[j] = o[k] /\ k \in 1..Len(o)
      BY <1>1, <1>6, <3>1
    <3>3. e[j].name \notin Names(added)
      <4>1. SUFFICES ASSUME NEW i \in 1..5, added[i].name = e[j].name PROVE FALSE
        BY <1>4
      <4>2. PICK l \in {1} \union (m + 2)..(m + 5) : e[l] = added[i]
        BY <1>8
      <4>3. l \in 1..(m + 5) /\ l # j
        BY <2>2, <4>2
      <4>4. QED
        BY <1>3, <4>1, <4>2, <4>3
    <3>4. e[j] \in kept
      BY <1>6, <3>2, <3>3 DEF kept
    <3>5. ASSUME NEW c \in Range(x), c.name = e[j].name PROVE c = e[j]
      <4>1. c \notin Range(added)
        BY <1>4, <3>3, <3>5
      <4>2. c \in Range(o)
        BY <1>7, <4>1 DEF kept
      <4>3. PICK i \in 1..Len(o) : o[i] = c
        BY <1>6, <4>2
      <4>4. QED
        BY <3>2, <3>5, <4>3
    <3>6. QED
      BY <1>7, <3>4, <3>5
  <2>3. QED
    BY <2>1, <2>2
<1>10. \A j \in 1..(m + 5) : Select(x, NamesOf(e))[j] = e[j]
  <2> DEFINE found(s) == CHOOSE c \in Range(x) : c.name = s
  <2>1. ASSUME NEW j \in 1..(m + 5) PROVE found(e[j].name) = e[j]
    BY <1>9
  <2>2. DOMAIN NamesOf(e) = 1..(m + 5)
    BY <1>2 DEF NamesOf
  <2>3. Select(x, NamesOf(e)) = [j \in 1..(m + 5) |-> found(NamesOf(e)[j])]
    BY <2>2 DEF Select
  <2> HIDE DEF found
  <2>4. QED
    BY <1>2, <2>1, <2>3
<1>11. Select(x, NamesOf(e)) = e
  <2>1. DOMAIN NamesOf(e) = 1..(m + 5)
    BY <1>2 DEF NamesOf
  <2>2. Select(x, NamesOf(e)) = [j \in 1..(m + 5) |-> Select(x, NamesOf(e))[j]]
    BY <2>1 DEF Select
  <2>3. e = [j \in 1..(m + 5) |-> e[j]]
    <3>1. e \in [1..(m + 5) -> Range(e)]
      BY <1>1, LenProperties DEF IsSeq
    <3>2. QED
      BY <3>1
  <2>4. QED
    BY <1>10, <2>2, <2>3
<1>12. QED
  BY <1>5, <1>11, <1>e


\* An accepted file has the columns of its schema's table, in order; one of a satellite
\* without a business key may have more, behind them.
THEOREM PreparedFits ==
    ASSUME NEW schema, IsSeq(schema.columns), NEW frame, IsSeq(frame), Accepted(schema, frame)
    PROVE  LET table == EnrichedColumns(schema)
           IN  IF AllowsExtra(schema) /\ schema.key = {}
               THEN IsPrefix(table, Prepare(schema, frame))
               ELSE Prepare(schema, frame) = table
<1>0. PICK o : o = Reorder(schema, frame)
  OBVIOUS
<1>1. /\ o \in Seq(Range(frame)) /\ Len(o) \in Nat /\ Len(schema.columns) <= Len(o)
      /\ \A i \in 1..Len(schema.columns) : o[i] = schema.columns[i]
      /\ ~AllowsExtra(schema) => o = schema.columns
      /\ \A i, j \in 1..Len(o) : o[i].name = o[j].name => o[i] = o[j]
  <2>2. Valid(schema, o)
    BY <1>0 DEF Accepted
  <2>3. /\ o \in Seq(Range(frame)) /\ Len(o) \in Nat
        /\ \A i, j \in 1..Len(o) : o[i].name = o[j].name => o[i] = o[j]
    BY SMTT(30), <1>0, ReorderedColumns
  <2>4. /\ Len(schema.columns) <= Len(o)
        /\ \A i \in 1..Len(schema.columns) : o[i] = schema.columns[i]
        /\ ~AllowsExtra(schema) => o = schema.columns
    BY <1>0, <2>2, ValidBegins
  <2>5. QED
    BY <2>3, <2>4
<1>2. Prepare(schema, frame) = Enrich(schema, o)
  BY <1>0 DEF Prepare
<1>3. CASE schema.key # {}
  <2>1. IsInjective(NamesOf(EnrichedColumns(schema)))
    BY <1>3 DEF Accepted
  <2>2. Enrich(schema, o) = EnrichedColumns(schema)
    BY <1>1, <1>3, <2>1, EnrichFits
  <2>3. QED
    BY <1>2, <1>3, <2>2
<1>4. CASE schema.key = {}
  <2>1. EnrichedColumns(schema) = schema.columns /\ Enrich(schema, o) = o
    BY <1>4 DEF EnrichedColumns, Enrich
  <2>2. IsPrefix(schema.columns, o)
    <3>1. Len(schema.columns) \in Nat
      BY NamesAreSequences
    <3>2. /\ SubSeq(o, 1, Len(schema.columns)) = [i \in 1..Len(schema.columns) |-> o[i]]
          /\ SubSeq(schema.columns, 1, Len(schema.columns))
               = [i \in 1..Len(schema.columns) |-> schema.columns[i]]
      BY <1>1, <3>1
    <3>3. QED
      BY <1>1, <3>2 DEF IsPrefix
  <2>3. QED
    BY <1>1, <1>2, <1>4, <2>1, <2>2
<1>5. QED
  BY <1>3, <1>4

\* A file is accepted for what is in it: the declared columns with their types, and the
\* business key, under names the table tells apart; not for their order nor for what
\* else it has.
THEOREM AcceptedForItsColumns ==
    ASSUME NEW schema, IsSeq(schema.columns), NEW frame, IsSeq(frame), IsInjective(NamesOf(frame))
    PROVE  LET kept == IF AllowsExtra(schema) THEN Names(frame) ELSE Names(schema.columns)
           IN  Accepted(schema, frame) <=>
                 /\ \A i \in DOMAIN schema.columns : Has(frame, schema.columns[i])
                 /\ schema.key \subseteq kept
                 /\ IsInjective(NamesOf(EnrichedColumns(schema)))
<1> DEFINE n == Len(schema.columns)
           c == schema.columns
           kept == IF AllowsExtra(schema) THEN Names(frame) ELSE Names(schema.columns)
<1>0. PICK o, w, d, r : /\ o = Reorder(schema, frame) /\ w = Wanted(schema, frame)
                        /\ d = Declared(schema, frame) /\ r = Others(schema, frame)
  OBVIOUS
<1>1. /\ n \in Nat /\ DOMAIN c = 1..n /\ Len(NamesOf(c)) = n /\ DOMAIN NamesOf(c) = 1..n
      /\ \A i \in 1..n : NamesOf(c)[i] = c[i].name
  BY NamesAreSequences DEF NamesOf
<1>2. /\ Len(frame) \in Nat /\ DOMAIN frame = 1..Len(frame)
      /\ \A i, j \in 1..Len(frame) : frame[i].name = frame[j].name => i = j
  <2>1. /\ Len(frame) \in Nat /\ DOMAIN frame = 1..Len(frame)
        /\ \A i \in 1..Len(frame) : NamesOf(frame)[i] = frame[i].name
    BY NamesAreSequences
  <2>2. DOMAIN NamesOf(frame) = 1..Len(frame)
    BY <2>1 DEF NamesOf
  <2>3. QED
    BY <2>1, <2>2 DEF IsInjective
<1>3. /\ Len(o) \in Nat /\ DOMAIN o = 1..Len(o) /\ Len(o) = Len(w) /\ DOMAIN w = 1..Len(w)
      /\ \A i \in 1..Len(o) : o[i].name = w[i] /\ \E j \in DOMAIN frame : frame[j] = o[i]
      /\ w \in Seq(Names(frame))
  BY <1>0, ReorderedColumns
<1>4. /\ Len(d) \in Nat /\ Len(r) \in Nat /\ Len(w) = Len(d) + Len(r)
      /\ \A i \in 1..Len(d) : w[i] = d[i] /\ d[i] \in Names(c)
      /\ \A i \in 1..Len(r) : w[Len(d) + i] = r[i] /\ r[i] \notin Names(c)
      /\ ~AllowsExtra(schema) => Len(r) = 0
      /\ (\A i \in 1..n : c[i].name \in Names(frame)) => d = NamesOf(c)
  <2>1. /\ Len(d) \in Nat /\ Len(r) \in Nat /\ Len(w) = Len(d) + Len(r)
        /\ \A i \in 1..Len(d) : w[i] = d[i] /\ d[i] \in Names(c)
        /\ ~AllowsExtra(schema) => Len(r) = 0
    BY <1>0, WantedNames
  <2>2. \A i \in 1..Len(r) : w[Len(d) + i] = r[i] /\ r[i] \notin Names(c)
    BY SMTT(60), <1>0, WantedNames
  <2>3. (\A i \in 1..n : c[i].name \in Names(frame)) => d = NamesOf(c)
    BY <1>0, WantedNames
  <2>4. QED
    BY <2>1, <2>2, <2>3
<1>5. /\ IsInjective(r)
      /\ \A s \in Names(frame) : AllowsExtra(schema) /\ s \notin Names(c) =>
           \E i \in 1..Len(r) : r[i] = s
  BY <1>0, WantedNames
<1>6. schema.key = {} => EnrichedColumns(schema) = c
  BY DEF EnrichedColumns
<1>7. Names(o) \subseteq Names(frame)
  BY <1>3 DEF Names
<1>8. IsInjective(NamesOf(EnrichedColumns(schema))) => IsInjective(NamesOf(c))
  <2>1. CASE schema.key = {}
    BY <1>6, <2>1
  <2>2. CASE schema.key # {}
    <3>1. PICK e : e = EnrichedColumns(schema)
      OBVIOUS
    <3>2. IsSeq(e) /\ Len(e) = n + 5 /\ \A i \in 1..n : e[i + 1] = c[i]
      BY <2>2, <3>1, EnrichedIs
    <3>3. DOMAIN e = 1..(n + 5)
      BY <3>2, NamesAreSequences
    <3>4. DOMAIN NamesOf(e) = 1..(n + 5) /\ \A i \in 1..n : NamesOf(e)[i + 1] = NamesOf(c)[i]
      BY <1>1, <3>2, <3>3 DEF NamesOf
    <3>5. SUFFICES ASSUME IsInjective(NamesOf(e)), NEW i \in 1..n, NEW j \in 1..n,
                          NamesOf(c)[i] = NamesOf(c)[j]
                   PROVE  i = j
      BY <1>1, <3>1 DEF IsInjective
    <3>6. i + 1 \in 1..(n + 5) /\ j + 1 \in 1..(n + 5) /\ NamesOf(e)[i + 1] = NamesOf(e)[j + 1]
      BY <1>1, <3>4, <3>5
    <3>7. i + 1 = j + 1
      BY <3>4, <3>5, <3>6 DEF IsInjective
    <3>8. QED
      BY <3>7
  <2>3. QED
    BY <2>1, <2>2
<1> HIDE DEF n, c
<1>9. ASSUME Accepted(schema, frame)
      PROVE  /\ \A i \in DOMAIN c : Has(frame, c[i])
             /\ schema.key \subseteq kept
             /\ IsInjective(NamesOf(EnrichedColumns(schema)))
  <2>0. Valid(schema, o) /\ IsInjective(w)
    BY <1>0, <1>9 DEF Accepted
  <2>1. /\ n <= Len(o) /\ \A i \in 1..n : o[i] = c[i]
        /\ ~AllowsExtra(schema) => o = c
    BY <1>0, <2>0, ValidBegins DEF n, c
  <2>2. \A i \in DOMAIN c : Has(frame, c[i])
    BY <1>1, <1>3, <2>1 DEF Has
  <2>3. schema.key \subseteq kept
    <3>1. schema.key \subseteq Names(o)
      BY <1>0, <1>9 DEF Accepted
    <3>2. QED
      BY <1>7, <2>1, <3>1 DEF c
  <2>4. IsInjective(NamesOf(EnrichedColumns(schema)))
    <3>1. CASE schema.key # {}
      BY <1>9, <3>1 DEF Accepted
    <3>2. CASE schema.key = {}
      <4>1. \A i \in 1..n : NamesOf(c)[i] = w[i] /\ i \in DOMAIN w
        BY <1>1, <1>3, <2>1
      <4>2. IsInjective(NamesOf(c))
        BY <1>1, <2>0, <4>1 DEF IsInjective
      <4>3. QED
        BY <1>6, <3>2, <4>2
    <3>3. QED
      BY <3>1, <3>2
  <2>5. QED
    BY <2>2, <2>3, <2>4
<1>10. ASSUME \A i \in DOMAIN c : Has(frame, c[i]), schema.key \subseteq kept,
              IsInjective(NamesOf(EnrichedColumns(schema)))
       PROVE  Accepted(schema, frame)
  <2>1. \A i \in 1..n : \E j \in 1..Len(frame) : frame[j] = c[i]
    BY <1>1, <1>2, <1>10 DEF Has
  <2>2. \A i \in 1..n : c[i].name \in Names(frame)
    BY <1>2, <2>1 DEF Names
  <2>3. d = NamesOf(c) /\ Len(d) = n
    BY <1>1, <1>4, <2>2
  <2>4. IsInjective(w)
    <3>1. SUFFICES ASSUME NEW i \in 1..Len(w), NEW j \in 1..Len(w), w[i] = w[j] PROVE i = j
      BY <1>3 DEF IsInjective
    <3>2. \A k \in 1..Len(w) : k \in 1..n \/ (k - n \in 1..Len(r) /\ w[k] = r[k - n])
      <4>1. SUFFICES ASSUME NEW k \in 1..Len(w), k \notin 1..n
                     PROVE  k - n \in 1..Len(r) /\ w[k] = r[k - n]
        OBVIOUS
      <4>2. k - n \in 1..Len(r) /\ n + (k - n) = k
        BY <1>1, <1>4, <2>3, <4>1
      <4>3. w[n + (k - n)] = r[k - n]
        BY <1>4, <2>3, <4>2
      <4>4. QED
        BY <4>2, <4>3
    <3>3. \A k \in 1..n : w[k] = NamesOf(c)[k] /\ w[k] \in Names(c)
      BY <1>1, <1>4, <2>3
    <3>4. \A k \in 1..Len(r) : r[k] \notin Names(c)
      BY <1>4
    <3>5. CASE i \in 1..n /\ j \in 1..n
      BY <1>1, <1>8, <1>10, <3>1, <3>3, <3>5 DEF IsInjective
    <3>6. CASE i \notin 1..n /\ j \notin 1..n
      <4>1. /\ i - n \in 1..Len(r) /\ j - n \in 1..Len(r) /\ r[i - n] = r[j - n]
        BY <3>1, <3>2, <3>6
      <4>2. DOMAIN r = 1..Len(r)
        <5>1. NamesOf(frame) \in Seq(Names(frame))
          BY NamesAreSequences
        <5>2. PICK S : r = Only(NamesOf(frame), S)
          BY <1>0 DEF Others
        <5>3. r \in Seq(Names(frame) \intersect S)
          BY <5>1, <5>2, OnlyFilters
        <5>4. QED
          BY <5>3, LenProperties
      <4>3. i - n = j - n
        BY <1>5, <4>1, <4>2 DEF IsInjective
      <4>4. QED
        BY <1>1, <1>4, <4>3
    <3>7. QED
      BY <3>1, <3>2, <3>3, <3>4, <3>5, <3>6
  <2>5. ASSUME NEW i \in 1..n PROVE i \in 1..Len(o) /\ o[i] = c[i]
    <3>1. i \in 1..Len(o) /\ o[i].name = c[i].name
      BY <1>1, <1>3, <1>4, <2>3
    <3>2. PICK j \in 1..Len(frame) : frame[j] = o[i]
      BY <1>2, <1>3, <3>1
    <3>3. PICK k \in 1..Len(frame) : frame[k] = c[i]
      BY <2>1
    <3>4. QED
      BY <1>2, <3>1, <3>2, <3>3
  <2>6. ~AllowsExtra(schema) => Names(o) = Names(c)
    <3>1. SUFFICES ASSUME ~AllowsExtra(schema) PROVE Names(o) = Names(c)
      OBVIOUS
    <3>2. DOMAIN o = DOMAIN c
      BY <1>1, <1>3, <1>4, <2>3, <3>1
    <3>3. QED
      BY <1>1, <2>5, <3>2 DEF Names
  <2>7. Valid(schema, o)
    BY <1>1, <1>3, <2>5, <2>6 DEF Valid, c
  <2>8. kept \subseteq Names(o)
    <3>1. CASE ~AllowsExtra(schema)
      BY <2>6, <3>1 DEF c
    <3>2. CASE AllowsExtra(schema)
      <4>1. SUFFICES ASSUME NEW s \in Names(frame) PROVE s \in Names(o)
        BY <3>2
      <4>2. CASE s \in Names(c)
        BY <1>1, <1>3, <2>5, <4>2 DEF Names
      <4>3. CASE s \notin Names(c)
        <5>1. PICK i \in 1..Len(r) : r[i] = s
          BY <1>5, <3>2, <4>3
        <5>2. Len(d) + i \in DOMAIN o /\ o[Len(d) + i].name = s
          BY <1>3, <1>4, <5>1
        <5>3. QED
          BY <5>2 DEF Names
      <4>4. QED
        BY <4>2, <4>3
    <3>3. QED
      BY <3>1, <3>2
  <2>9. QED
    BY <1>0, <1>10, <2>4, <2>7, <2>8 DEF Accepted
<1>11. QED
  BY <1>9, <1>10 DEF c
=============================================================================

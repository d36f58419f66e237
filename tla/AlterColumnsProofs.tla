------------------------- MODULE AlterColumnsProofs -------------------------
(***************************************************************************)
(* Lemmas about the columns of an altered table: which ones the definition *)
(* an ALTER leads to has (AlterTable's Altered), when DuckDB's columns     *)
(* agree with them, what the RENAME COLUMN and DROP COLUMN statements do   *)
(* to them, and that a column found by name is one the ALTER drops.        *)
(***************************************************************************)
EXTENDS AlterTable, TLAPS, WellFoundedInduction

DuckDefaults ==
    Defaults \cup {<<"nextval">>, <<"now">>, <<"implicit">>}
      \cup {<<"value of", d>> : d \in ConstantExprs}

DuckColumns ==
    [name : ColumnNames, type : Types, notnull : BOOLEAN, def : DuckDefaults]

(* A column of DuckDB and one of a definition. *)
Agree(d, c) ==
    /\ d.name = c.name
    /\ d.notnull = c.notnull
    /\ d.name \notin retyped => d.type = c.type
    /\ d.name \notin frozen => SameDefault(d.def, FieldTranslate(c).def)

(* DuckDB has the columns of a definition. *)
Fits(def) ==
    /\ def.columns \in Seq(Columns)
    /\ WellFormed(def)
    /\ Len(duck) = Len(def.columns)
    /\ \A i \in 1 .. Len(duck) : Agree(duck[i], def.columns[i])

(* The inductive invariant: DuckDB is ahead of MariaDB between the COMMIT and
   the installation of the new definition, and fits the latter. *)
AlterInv ==
    /\ duck \in Seq(DuckColumns)
    /\ pending # NoTable => Fits(pending)
    /\ Idle => Fits(mdb)

---------------------------------------------------------------------------
(* CREATE TABLE, and the steps that leave the columns alone *)

(* SameDefault is an equivalence that forwarding keeps. *)
LEMMA SameItself == \A d : SameDefault(d, d)
BY Zenon DEF SameDefault

LEMMA SameChain ==
    ASSUME NEW d, NEW e, NEW f, SameDefault(d, e), SameDefault(e, f)
    PROVE  SameDefault(d, f)
<1>1. \A x, y : SameDefault(x, y) <=>
         x = y \/ (x \in Literals /\ y \in Literals /\ SortKey[x] = SortKey[y])
  BY Zenon DEF SameDefault, sortcmp
<1>2. CASE d = e \/ e = f
  BY <1>2, Zenon
<1>3. CASE d # e /\ e # f
  <2>1. /\ d \in Literals /\ e \in Literals /\ f \in Literals
        /\ SortKey[d] = SortKey[e] /\ SortKey[e] = SortKey[f]
    BY <1>1, <1>3, Zenon
  <2>2. SortKey[d] = SortKey[f]
    BY <2>1, Zenon
  <2> QED
    BY <1>1, <2>1, <2>2, Zenon
<1> QED
  BY <1>2, <1>3, Zenon

LEMMA SameForwarded ==
    ASSUME NEW d, NEW e, SameDefault(d, e)
    PROVE  SameDefault(ForwardedDefault(d), ForwardedDefault(e))
<1>1. CASE d = e
  BY <1>1, Zenon DEF SameDefault
<1>2. CASE d \in Literals /\ e \in Literals
  <2>1. ForwardedDefault(d) = d /\ ForwardedDefault(e) = e
    BY <1>2, DefaultsAssumption, Zenon DEF ForwardedDefault
  <2> QED
    BY <2>1, Zenon
<1> QED
  BY <1>1, <1>2, Zenon DEF SameDefault

LEMMA ForwardedType ==
    ASSUME NEW d \in Defaults
    PROVE  ForwardedDefault(d) \in DuckDefaults
BY Zenon DEF ForwardedDefault, DuckDefaults, Defaults

(* CREATE TABLE gives DuckDB the columns of the definition. *)
Created(D, columns) ==
    /\ D \in Seq(DuckColumns)
    /\ Len(D) = Len(columns)
    /\ \A i \in 1 .. Len(D) :
          /\ D[i].name = columns[i].name
          /\ D[i].notnull = columns[i].notnull
          /\ D[i].type = columns[i].type
          /\ D[i].def = FieldTranslate(columns[i]).def

LEMMA CreatedFacts ==
    ASSUME NEW columns \in Seq(Columns)
    PROVE  Created(append_column_definition(columns), columns)
<1> DEFINE D == append_column_definition(columns)
<1>1. /\ DOMAIN columns = 1 .. Len(columns) /\ Len(columns) \in Nat
      /\ \A i \in 1 .. Len(columns) : columns[i] \in Columns
  OBVIOUS
<1>2. D = [i \in 1 .. Len(columns) |-> FieldTranslate(columns[i])]
  BY <1>1, Zenon DEF append_column_definition
<1>3. ASSUME NEW c \in Columns
      PROVE  /\ FieldTranslate(c) \in DuckColumns
             /\ FieldTranslate(c).name = c.name
             /\ FieldTranslate(c).notnull = c.notnull
             /\ FieldTranslate(c).type = c.type
  <2> DEFINE def == IF c.auto THEN <<"nextval">> ELSE ForwardedDefault(c.def)
  <2>1. /\ c.name \in ColumnNames /\ c.type \in Types /\ c.notnull \in BOOLEAN
        /\ c.def \in Defaults
    BY Zenon DEF Columns
  <2>2. def \in DuckDefaults
    BY <2>1, ForwardedType, Zenon DEF DuckDefaults
  <2>3. FieldTranslate(c) = [name |-> c.name, type |-> c.type, notnull |-> c.notnull, def |-> def]
    BY Zenon DEF FieldTranslate
  <2> HIDE DEF def
  <2> /\ FieldTranslate(c).name = c.name /\ FieldTranslate(c).notnull = c.notnull
      /\ FieldTranslate(c).type = c.type
    BY Zenon DEF FieldTranslate
  <2> [name |-> c.name, type |-> c.type, notnull |-> c.notnull, def |-> def] \in DuckColumns
    BY <2>1, <2>2, Zenon DEF DuckColumns
  <2> QED
    BY <2>3, Zenon
<1>4. \A i \in 1 .. Len(columns) : D[i] = FieldTranslate(columns[i])
  BY <1>2, Zenon
<1> D \in Seq(DuckColumns) /\ Len(D) = Len(columns)
  <2> \A i \in 1 .. Len(columns) : FieldTranslate(columns[i]) \in DuckColumns
    BY <1>1, <1>3, Zenon
  <2> HIDE DEF D
  <2> D \in [1 .. Len(columns) -> DuckColumns]
    BY <1>2, Zenon
  <2> QED
    BY <1>1
<1> QED
  BY <1>1, <1>3, <1>4, Zenon DEF Created

LEMMA InitInv ==
    Init => AlterInv
<1> SUFFICES ASSUME Init PROVE AlterInv
  BY Zenon
<1> /\ mdb.columns \in Seq(Columns) /\ WellFormed(mdb)
    /\ duck = append_column_definition(mdb.columns) /\ pending = NoTable
  BY DefinitionsAssumption, Zenon DEF Init
<1> Created(duck, mdb.columns)
  BY CreatedFacts, Zenon
<1> Fits(mdb)
  BY SameItself, Zenon DEF Fits, Agree, Created
<1> QED
  BY Zenon DEF AlterInv, Created

(* Fits, of the values of the variables. *)
FitsWith(def, D, types, defaults) ==
    /\ def.columns \in Seq(Columns)
    /\ WellFormed(def)
    /\ Len(D) = Len(def.columns)
    /\ \A i \in 1 .. Len(D) :
          /\ D[i].name = def.columns[i].name
          /\ D[i].notnull = def.columns[i].notnull
          /\ D[i].name \notin types => D[i].type = def.columns[i].type
          /\ D[i].name \notin defaults =>
                SameDefault(D[i].def, FieldTranslate(def.columns[i]).def)

LEMMA FitsUnchanged ==
    ASSUME UNCHANGED <<duck, history>>
    PROVE  /\ Fits(pending) /\ mdb' = pending => Fits(mdb)'
           /\ Fits(mdb) /\ mdb' = mdb => Fits(mdb)'
           /\ Fits(pending) /\ pending' = pending => Fits(pending)'
<1>1. duck' = duck /\ retyped' = retyped /\ frozen' = frozen
  BY Zenon DEF history
<1>2. ASSUME Fits(pending), mdb' = pending PROVE Fits(mdb)'
  <2> FitsWith(pending, duck, retyped, frozen)
    BY <1>2, Zenon DEF Fits, Agree, FitsWith
  <2> FitsWith(mdb', duck', retyped', frozen')
    BY <1>1, <1>2, Zenon
  <2> QED
    BY Zenon DEF Fits, Agree, FitsWith
<1>3. ASSUME Fits(mdb), mdb' = mdb PROVE Fits(mdb)'
  <2> FitsWith(mdb, duck, retyped, frozen)
    BY <1>3, Zenon DEF Fits, Agree, FitsWith
  <2> FitsWith(mdb', duck', retyped', frozen')
    BY <1>1, <1>3, Zenon
  <2> QED
    BY Zenon DEF Fits, Agree, FitsWith
<1> ASSUME Fits(pending), pending' = pending PROVE Fits(pending)'
  <2> FitsWith(pending, duck, retyped, frozen)
    BY Zenon DEF Fits, Agree, FitsWith
  <2> FitsWith(pending', duck', retyped', frozen')
    BY <1>1, Zenon
  <2> QED
    BY Zenon DEF Fits, Agree, FitsWith
<1> QED
  BY <1>2, <1>3, Zenon

---------------------------------------------------------------------------
(* Sequences *)

LEMMA SameSequence ==
    ASSUME NEW V, NEW s \in Seq(V), NEW t \in Seq(V), Len(s) = Len(t),
           \A i \in 1 .. Len(s) : s[i] = t[i]
    PROVE  s = t
OBVIOUS

(* The least-number principle: the form of induction used in this module. *)
LEMMA Least ==
    ASSUME NEW T, T \subseteq Nat, T # {}
    PROVE  \E n \in T : \A m \in T : n <= m
<1>1. PICK n \in T : \A m \in T : ~(<<m, n>> \in OpToRel(<, Nat))
  BY WFMin, NatLessThanWellFounded, Zenon
<1>2. \A m \in T : ~(m < n)
  BY <1>1, Zenon DEF OpToRel
<1> QED
  BY <1>2

LEMMA UpTo ==
    ASSUME NEW n \in Nat, NEW G, 0 \in G, \A j \in 0 .. n - 1 : j \in G => j + 1 \in G
    PROVE  n \in G
<1> DEFINE T == {j \in 0 .. n : j \notin G}
<1> SUFFICES ASSUME T # {} PROVE FALSE
  OBVIOUS
<1> PICK k \in T : \A m \in T : k <= m
  <2> T \subseteq Nat
    OBVIOUS
  <2> QED
    BY Least, Zenon
<1>2. k # 0
  BY Zenon
<1> k - 1 \in 0 .. n - 1 /\ k - 1 \notin T /\ k - 1 + 1 = k
  BY <1>2
<1> k - 1 \in G
  OBVIOUS
<1> k - 1 + 1 \in G
  BY Zenon
<1> QED
  BY Zenon

(* p enumerates, in their order, the positions up to n that are in I. *)
Enumerates(p, n, I) ==
    /\ p \in Seq(1 .. n)
    /\ \A k, l \in 1 .. Len(p) : k < l => p[k] < p[l]
    /\ \A j \in 1 .. n : j \in I <=> \E k \in 1 .. Len(p) : p[k] = j

Through(p, s) == [k \in 1 .. Len(p) |-> s[p[k]]]

LEMMA EnumerationFacts ==
    ASSUME NEW n \in Nat, NEW I, NEW p, Enumerates(p, n, I)
    PROVE  /\ Len(p) \in Nat
           /\ \A k \in 1 .. Len(p) : p[k] \in 1 .. n /\ p[k] \in I
           /\ \A k, l \in 1 .. Len(p) : k < l => p[k] < p[l]
           /\ \A j \in 1 .. n : j \in I => \E k \in 1 .. Len(p) : p[k] = j
<1> Len(p) \in Nat /\ \A k \in 1 .. Len(p) : p[k] \in 1 .. n
  BY DEF Enumerates
<1> \A k \in 1 .. Len(p) : p[k] \in I
  BY Zenon DEF Enumerates
<1> QED
  BY Zenon DEF Enumerates

(* The positions of the elements that are in S. *)
Positions(s, S) == {j \in 1 .. Len(s) : s[j] \in S}

(* Where is a recursive function: it exists, and enumerates what it keeps. *)

KeptAt(g, s, S, i) ==
    IF i = 0 THEN <<>> ELSE IF s[i] \in S THEN Append(g[i - 1], s[i]) ELSE g[i - 1]

Keeps(g, s, S, n) == g = [i \in 0 .. n |-> KeptAt(g, s, S, i)]

LEMMA WhereEnumerates ==
    \A V, s, S :
       /\ s \in Seq(V)
       => \E p : Enumerates(p, Len(s), Positions(s, S)) /\ Where(s, S) = Through(p, s)
<1>WiderSequence.
      ASSUME NEW V, NEW W, V \subseteq W, NEW s \in Seq(V)
      PROVE  s \in Seq(W)
  BY <1>WiderSequence
<1>KeepsExtends.
      ASSUME NEW s, NEW S, NEW n \in Nat, NEW g, Keeps(g, s, S, n)
      PROVE  \E h : Keeps(h, s, S, n + 1)
  <2> USE <1>KeepsExtends
  <2> DEFINE h == [i \in 0 .. n + 1 |-> IF i = n + 1 THEN KeptAt(g, s, S, n + 1) ELSE g[i]]
  <2>1. \A i \in 0 .. n : g[i] = KeptAt(g, s, S, i)
    BY Zenon DEF Keeps
  <2>2. \A i \in 0 .. n : h[i] = g[i]
    OBVIOUS
  <2>3. \A i \in 0 .. n + 1 : KeptAt(h, s, S, i) = KeptAt(g, s, S, i)
    BY <2>2 DEF KeptAt
  <2>4. \A i \in 0 .. n + 1 : h[i] = KeptAt(h, s, S, i)
    BY <2>1, <2>2, <2>3
  <2> h = [i \in 0 .. n + 1 |-> h[i]]
    BY Zenon
  <2> HIDE DEF h
  <2> Keeps(h, s, S, n + 1)
    BY <2>4, Zenon DEF Keeps
  <2> QED
    BY Zenon
<1>KeepsExists.
      ASSUME NEW s, NEW S, NEW n \in Nat
      PROVE  \E g : Keeps(g, s, S, n)
  <2> USE <1>KeepsExists
  <2> DEFINE T == {k \in Nat : ~\E g : Keeps(g, s, S, k)}
  <2> SUFFICES ASSUME T # {} PROVE FALSE
    BY Zenon
  <2>1. PICK k \in T : \A m \in T : k <= m
    BY Least, Zenon
  <2>2. CASE k = 0
    <3> DEFINE g == [i \in 0 .. 0 |-> <<>>]
    <3> g = [i \in 0 .. 0 |-> KeptAt(g, s, S, i)]
      BY DEF KeptAt
    <3> HIDE DEF g
    <3> QED
      BY <2>1, <2>2, Zenon DEF Keeps
  <2>3. CASE k # 0
    <3> k - 1 \in Nat /\ k - 1 \notin T /\ k - 1 + 1 = k
      BY <2>1, <2>3
    <3> PICK g : Keeps(g, s, S, k - 1)
      BY Zenon
    <3> \E h : Keeps(h, s, S, k - 1 + 1)
      BY <1>KeepsExtends, Zenon
    <3> QED
      BY <2>1, Zenon
  <2> QED
    BY <2>2, <2>3, Zenon
<1>WhereKeeps.
      ASSUME NEW s, NEW S, Len(s) \in Nat
      PROVE  \E g : Keeps(g, s, S, Len(s)) /\ Where(s, S) = g[Len(s)]
  <2> USE <1>WhereKeeps
  <2> DEFINE P(g) == g = [i \in 0 .. Len(s) |->
              IF i = 0 THEN <<>>
              ELSE IF s[i] \in S THEN Append(g[i - 1], s[i]) ELSE g[i - 1]]
             kept == CHOOSE g : P(g)
  <2>1. \E g : P(g)
    <3> PICK g : Keeps(g, s, S, Len(s))
      BY <1>KeepsExists, Zenon
    <3> P(g)
      BY Zenon DEF Keeps, KeptAt
    <3> QED
      BY Zenon
  <2>2. P(kept)
    BY <2>1, Zenon
  <2> Keeps(kept, s, S, Len(s))
    BY <2>2, Zenon DEF Keeps, KeptAt
  <2> Where(s, S) = kept[Len(s)]
    BY Zenon DEF Where
  <2> QED
    BY Zenon
<1>EnumerationSkips.
      ASSUME NEW n \in Nat, NEW I, NEW p, Enumerates(p, n, I), n + 1 \notin I
      PROVE  Enumerates(p, n + 1, I)
  <2> USE <1>EnumerationSkips
  <2>1. /\ Len(p) \in Nat
        /\ \A k \in 1 .. Len(p) : p[k] \in 1 .. n /\ p[k] \in I
        /\ \A k, l \in 1 .. Len(p) : k < l => p[k] < p[l]
    BY EnumerationFacts, Zenon
  <2>2. p \in Seq(1 .. n + 1)
    <3> p \in Seq(1 .. n) /\ 1 .. n \subseteq 1 .. n + 1
      BY DEF Enumerates
    <3> QED
      BY <1>WiderSequence, Zenon
  <2>3. ASSUME NEW j \in 1 .. n + 1
        PROVE  j \in I <=> \E k \in 1 .. Len(p) : p[k] = j
    <3> CASE j \in 1 .. n
      BY Zenon DEF Enumerates
    <3> CASE j = n + 1
      BY <2>1, Zenon
    <3> QED
      OBVIOUS
  <2> QED
    BY <2>1, <2>2, <2>3, Zenon DEF Enumerates
<1>EnumerationTakes.
      ASSUME NEW n \in Nat, NEW I, NEW p, Enumerates(p, n, I), n + 1 \in I
      PROVE  Enumerates(Append(p, n + 1), n + 1, I)
  <2> USE <1>EnumerationTakes
  <2> DEFINE q == Append(p, n + 1)
  <2>1. /\ Len(p) \in Nat
        /\ \A k \in 1 .. Len(p) : p[k] \in 1 .. n /\ p[k] \in I
        /\ \A k, l \in 1 .. Len(p) : k < l => p[k] < p[l]
    BY EnumerationFacts, Zenon
  <2>2. p \in Seq(1 .. n + 1)
    <3> p \in Seq(1 .. n) /\ 1 .. n \subseteq 1 .. n + 1
      BY DEF Enumerates
    <3> QED
      BY <1>WiderSequence, Zenon
  <2> /\ q \in Seq(1 .. n + 1)
      /\ Len(q) = Len(p) + 1
      /\ \A k \in 1 .. Len(p) : q[k] = p[k]
      /\ q[Len(p) + 1] = n + 1
    BY <2>2
  <2> HIDE DEF q
  <2>4. \A k, l \in 1 .. Len(q) : k < l => q[k] < q[l]
    <3> SUFFICES ASSUME NEW k \in 1 .. Len(q), NEW l \in 1 .. Len(q), k < l
                 PROVE  q[k] < q[l]
      BY Zenon
    <3>1. CASE l = Len(p) + 1
      BY <2>1, <3>1, SMTT(30), ZenonT(30)
    <3> CASE l # Len(p) + 1
      <4> k \in 1 .. Len(p) /\ l \in 1 .. Len(p)
        BY <2>1, SMTT(30), ZenonT(30)
      <4> QED
        BY <2>1, Zenon
    <3> QED
      BY <3>1, Zenon
  <2>5. ASSUME NEW j \in 1 .. n + 1
        PROVE  j \in I <=> \E k \in 1 .. Len(q) : q[k] = j
    <3>1. CASE j \in 1 .. n
      <4>1. j \in I <=> \E k \in 1 .. Len(p) : p[k] = j
        BY <3>1, Zenon DEF Enumerates
      <4> (\E k \in 1 .. Len(p) : p[k] = j) <=> \E k \in 1 .. Len(q) : q[k] = j
        <5> 1 .. Len(p) \subseteq 1 .. Len(q)
          BY <2>1
        <5> \A k \in 1 .. Len(q) : q[k] = j => k \in 1 .. Len(p)
          BY <2>1, <3>1
        <5> QED
          BY Zenon
      <4> QED
        BY <4>1, Zenon
    <3> CASE j = n + 1
      <4> Len(p) + 1 \in 1 .. Len(q)
        BY <2>1
      <4> QED
        BY Zenon
    <3> QED
      BY <3>1
  <2> Enumerates(q, n + 1, I)
    BY <2>4, <2>5, Zenon DEF Enumerates
  <2> QED
    BY Zenon DEF q
<1>ThroughAppend.
      ASSUME NEW V, NEW s \in Seq(V), NEW p \in Seq(1 .. Len(s)), NEW j \in 1 .. Len(s)
      PROVE  Through(Append(p, j), s) = Append(Through(p, s), s[j])
  <2> USE <1>ThroughAppend
  <2> /\ Len(p) \in Nat
      /\ Len(Append(p, j)) = Len(p) + 1
      /\ \A k \in 1 .. Len(p) : Append(p, j)[k] = p[k] /\ p[k] \in 1 .. Len(s)
      /\ Append(p, j)[Len(p) + 1] = j
    OBVIOUS
  <2>2. /\ Through(p, s) \in Seq(V) /\ Len(Through(p, s)) = Len(p)
        /\ \A k \in 1 .. Len(p) : Through(p, s)[k] = s[p[k]]
    BY DEF Through
  <2> /\ Through(Append(p, j), s) \in Seq(V) /\ Len(Through(Append(p, j), s)) = Len(p) + 1
      /\ \A k \in 1 .. Len(p) : Through(Append(p, j), s)[k] = s[p[k]]
      /\ Through(Append(p, j), s)[Len(p) + 1] = s[j]
    BY DEF Through
  <2> /\ Append(Through(p, s), s[j]) \in Seq(V)
      /\ Len(Append(Through(p, s), s[j])) = Len(p) + 1
      /\ \A k \in 1 .. Len(p) : Append(Through(p, s), s[j])[k] = s[p[k]]
      /\ Append(Through(p, s), s[j])[Len(p) + 1] = s[j]
    BY <2>2, SMTT(30), Zenon
  <2> \A k \in 1 .. Len(p) + 1 :
          Through(Append(p, j), s)[k] = Append(Through(p, s), s[j])[k]
    OBVIOUS
  <2> QED
    BY SameSequence
<1> SUFFICES ASSUME NEW V, NEW s \in Seq(V), NEW S
             PROVE  \E p : Enumerates(p, Len(s), Positions(s, S)) /\ Where(s, S) = Through(p, s)
  BY Zenon
<1> DEFINE I == Positions(s, S)
<1>1. Len(s) \in Nat
  OBVIOUS
<1>2. PICK g : Keeps(g, s, S, Len(s)) /\ Where(s, S) = g[Len(s)]
  BY <1>1, <1>WhereKeeps, Zenon
<1>3. \A i \in 0 .. Len(s) : g[i] = KeptAt(g, s, S, i)
  BY <1>2, Zenon DEF Keeps
<1> DEFINE Good(i) == \E p : Enumerates(p, i, I) /\ g[i] = Through(p, s)
<1> HIDE DEF I
<1>4. Good(0)
  <2> Enumerates(<<>>, 0, I)
    BY DEF Enumerates
  <2> g[0] = <<>> /\ Through(<<>>, s) = <<>>
    BY <1>1, <1>3 DEF KeptAt, Through
  <2> QED
    BY Zenon
<1>5. ASSUME NEW i \in 0 .. Len(s) - 1, Good(i) PROVE Good(i + 1)
  <2>1. PICK p : Enumerates(p, i, I) /\ g[i] = Through(p, s)
    BY <1>5, Zenon
  <2> i \in Nat /\ i + 1 \in 1 .. Len(s) /\ i + 1 \in 0 .. Len(s) /\ i + 1 # 0 /\ i + 1 - 1 = i
    BY <1>1
  <2>3. i + 1 \in I <=> s[i + 1] \in S
    BY Zenon DEF I, Positions
  <2>4. g[i + 1] = IF s[i + 1] \in S THEN Append(g[i], s[i + 1]) ELSE g[i]
    BY <1>3 DEF KeptAt
  <2>5. CASE s[i + 1] \in S
    <3>1. Enumerates(Append(p, i + 1), i + 1, I)
      BY <2>1, <2>3, <2>5, <1>EnumerationTakes, Zenon
    <3> p \in Seq(1 .. Len(s))
      <4> p \in Seq(1 .. i) /\ 1 .. i \subseteq 1 .. Len(s)
        BY <2>1 DEF Enumerates
      <4> QED
        BY <1>WiderSequence, Zenon
    <3> g[i + 1] = Through(Append(p, i + 1), s)
      BY <2>1, <2>4, <2>5, <1>ThroughAppend, Zenon
    <3> QED
      BY <3>1, Zenon
  <2> CASE s[i + 1] \notin S
    <3> Enumerates(p, i + 1, I)
      BY <2>1, <2>3, <1>EnumerationSkips, Zenon
    <3> g[i + 1] = Through(p, s)
      BY <2>1, <2>4, Zenon
    <3> QED
      BY Zenon
  <2> QED
    BY <2>5, Zenon
<1> HIDE DEF Good
<1> Good(Len(s))
  <2> DEFINE G == {i \in Nat : Good(i)}
  <2> 0 \in G /\ \A i \in 0 .. Len(s) - 1 : i \in G => i + 1 \in G
    BY <1>4, <1>5
  <2> Len(s) \in G
    BY <1>1, UpTo, Zenon
  <2> QED
    BY Zenon
<1> QED
  BY <1>2, Zenon DEF Good, I

(* What Where keeps, from where, and that it keeps different elements. *)
LEMMA WhereFacts ==
    ASSUME NEW V, NEW s \in Seq(V), NEW S
    PROVE  /\ Where(s, S) \in Seq(V)
           /\ \A k \in 1 .. Len(Where(s, S)) :
                 Where(s, S)[k] \in S /\ \E j \in 1 .. Len(s) : Where(s, S)[k] = s[j]
           /\ \A j \in 1 .. Len(s) :
                 s[j] \in S => \E k \in 1 .. Len(Where(s, S)) : Where(s, S)[k] = s[j]
<1> DEFINE w == Where(s, S)
           I == Positions(s, S)
<1>1. Len(s) \in Nat
  OBVIOUS
<1>2. PICK p : Enumerates(p, Len(s), I) /\ w = Through(p, s)
  BY WhereEnumerates, Zenon
<1>3. /\ Len(p) \in Nat
      /\ \A k \in 1 .. Len(p) : p[k] \in 1 .. Len(s) /\ p[k] \in I
      /\ \A j \in 1 .. Len(s) : j \in I => \E k \in 1 .. Len(p) : p[k] = j
  <2> \A j \in 1 .. Len(s) : j \in I => \E k \in 1 .. Len(p) : p[k] = j
    BY <1>2, Zenon DEF Enumerates
  <2> QED
    BY <1>1, <1>2, EnumerationFacts, Zenon
<1>4. \A j \in 1 .. Len(s) : j \in I <=> s[j] \in S
  BY Zenon DEF Positions
<1> HIDE DEF w, I
<1> w \in Seq(V) /\ Len(w) = Len(p) /\ \A k \in 1 .. Len(p) : w[k] = s[p[k]]
  BY <1>2, <1>3 DEF Through
<1>6. \A k \in 1 .. Len(w) : w[k] \in S /\ \E j \in 1 .. Len(s) : w[k] = s[j]
  BY <1>3, <1>4, Zenon
<1> ASSUME NEW j \in 1 .. Len(s), s[j] \in S PROVE \E k \in 1 .. Len(w) : w[k] = s[j]
  <2> PICK k \in 1 .. Len(p) : p[k] = j
    BY <1>3, <1>4, Zenon
  <2> k \in 1 .. Len(w) /\ w[k] = s[j]
    BY Zenon
  <2> QED
    BY Zenon
<1> QED
  BY <1>6, Zenon DEF w

LEMMA WhereApart ==
    ASSUME NEW V, NEW s \in Seq(V), NEW S,
           NEW k \in 1 .. Len(Where(s, S)), NEW l \in 1 .. Len(Where(s, S)), k # l
    PROVE  \E i, j \in 1 .. Len(s) : i # j /\ Where(s, S)[k] = s[i] /\ Where(s, S)[l] = s[j]
<1> DEFINE w == Where(s, S)
           I == Positions(s, S)
<1>1. Len(s) \in Nat
  OBVIOUS
<1>2. PICK p : Enumerates(p, Len(s), I) /\ w = Through(p, s)
  BY WhereEnumerates, Zenon
<1> /\ Len(p) \in Nat
    /\ \A m \in 1 .. Len(p) : p[m] \in 1 .. Len(s) /\ p[m] \in I
    /\ \A m, n \in 1 .. Len(p) : m < n => p[m] < p[n]
  BY <1>1, <1>2, EnumerationFacts, Zenon
<1> Len(w) = Len(p) /\ \A m \in 1 .. Len(p) : w[m] = s[p[m]]
  BY <1>2 DEF Through
<1> k \in 1 .. Len(p) /\ l \in 1 .. Len(p)
  BY Zenon
<1> HIDE DEF w, I
<1> p[k] # p[l]
  OBVIOUS
<1> w[k] = s[p[k]] /\ w[l] = s[p[l]]
  BY Zenon
<1> QED
  BY Zenon DEF w

LEMMA WhereIn ==
    ASSUME NEW V, NEW src \in Seq(V), NEW S
    PROVE  /\ Where(src, S) \in Seq(V)
           /\ \A k \in DOMAIN Where(src, S) : Where(src, S)[k] \in ToSet(src)
           /\ \A j \in 1 .. Len(src) : src[j] \in ToSet(src) /\ src[j] \in V
<1>1. DOMAIN src = 1 .. Len(src) /\ \A j \in 1 .. Len(src) : src[j] \in V
  OBVIOUS
<1> \A j \in 1 .. Len(src) : src[j] \in ToSet(src)
  BY <1>1, Zenon DEF ToSet
<1> DEFINE w == Where(src, S)
<1> /\ w \in Seq(V)
    /\ \A k \in 1 .. Len(w) : w[k] \in S /\ \E j \in 1 .. Len(src) : w[k] = src[j]
  BY WhereFacts
<1> HIDE DEF w
<1> DOMAIN w = 1 .. Len(w)
  OBVIOUS
<1> \A k \in DOMAIN w : w[k] \in ToSet(src)
  BY Zenon
<1> QED
  BY <1>1, Zenon DEF w

LEMMA EnumerationUnique ==
    \A n, I, p, q :
       /\ n \in Nat
       /\ Enumerates(p, n, I)
       /\ Enumerates(q, n, I)
       => p = q
  (* An enumeration is unique, up to its length first. *)
<1>EnumerationStarts.
      ASSUME NEW n \in Nat, NEW I, NEW p, NEW q, Enumerates(p, n, I), Enumerates(q, n, I)
      PROVE  \A k \in 1 .. Len(p) : k <= Len(q) => p[k] = q[k]
  <2> USE <1>EnumerationStarts
  <2> DEFINE T == {k \in 1 .. Len(p) : k <= Len(q) /\ p[k] # q[k]}
  <2> SUFFICES ASSUME T # {} PROVE FALSE
    BY Zenon
  <2>1. /\ Len(p) \in Nat
        /\ \A k \in 1 .. Len(p) : p[k] \in 1 .. n /\ p[k] \in I
        /\ \A k, l \in 1 .. Len(p) : k < l => p[k] < p[l]
    BY EnumerationFacts, Zenon
  <2>2. /\ Len(q) \in Nat
        /\ \A k \in 1 .. Len(q) : q[k] \in 1 .. n /\ q[k] \in I
        /\ \A k, l \in 1 .. Len(q) : k < l => q[k] < q[l]
    BY EnumerationFacts, Zenon
  <2>3. PICK k \in T : \A m \in T : k <= m
    <3> T \subseteq Nat
      BY <2>1
    <3> QED
      BY Least, Zenon
  <2> /\ k \in 1 .. Len(p) /\ k \in 1 .. Len(q) /\ p[k] # q[k]
      /\ \A m \in 1 .. k - 1 : p[m] = q[m]
    BY <2>1, <2>2, <2>3, SMTT(30), ZenonT(30)
  <2>5. PICK m \in 1 .. Len(q) : q[m] = p[k]
    <3> \A j \in 1 .. n : j \in I => \E m \in 1 .. Len(q) : q[m] = j
      BY Zenon DEF Enumerates
    <3> QED
      BY <2>1, Zenon
  <2>6. PICK l \in 1 .. Len(p) : p[l] = q[k]
    <3> \A j \in 1 .. n : j \in I => \E l \in 1 .. Len(p) : p[l] = j
      BY Zenon DEF Enumerates
    <3> QED
      BY <2>2, Zenon
  <2> HIDE DEF T
  <2>7. ~(m < k)
    BY <2>1, <2>5, SMTT(30), ZenonT(30)
  <2>8. ~(l < k)
    BY <2>2, <2>6, SMTT(30), ZenonT(30)
  <2> q[k] < p[k]
    BY <2>2, <2>5, <2>7
  <2> p[k] < q[k]
    BY <2>1, <2>6, <2>8
  <2> QED
    BY <2>1, <2>2, SMTT(30), Zenon
<1>EnumerationLength.
      ASSUME NEW n \in Nat, NEW I, NEW p, NEW q, Enumerates(p, n, I), Enumerates(q, n, I)
      PROVE  Len(p) <= Len(q)
  <2> USE <1>EnumerationLength
  <2> SUFFICES ASSUME Len(q) < Len(p) PROVE FALSE
    BY DEF Enumerates
  <2> /\ Len(p) \in Nat /\ Len(q) \in Nat
      /\ \A k \in 1 .. Len(p) : p[k] \in 1 .. n /\ p[k] \in I
    BY EnumerationFacts, Zenon
  <2> Len(q) + 1 \in 1 .. Len(p)
    OBVIOUS
  <2> PICK m \in 1 .. Len(q) : q[m] = p[Len(q) + 1]
    <3> \A j \in 1 .. n : j \in I => \E m \in 1 .. Len(q) : q[m] = j
      BY Zenon DEF Enumerates
    <3> QED
      BY Zenon
  <2> m \in 1 .. Len(p) /\ p[m] = q[m] /\ m < Len(q) + 1
    BY <1>EnumerationStarts
  <2> p[m] < p[Len(q) + 1]
    BY Zenon DEF Enumerates
  <2> QED
    OBVIOUS
<1> SUFFICES ASSUME NEW n \in Nat, NEW I, NEW p, NEW q, Enumerates(p, n, I), Enumerates(q, n, I)
             PROVE  p = q
  BY Zenon
<1>1. Len(p) <= Len(q) /\ Len(q) <= Len(p)
  BY <1>EnumerationLength, Zenon
<1> p \in Seq(1 .. n) /\ q \in Seq(1 .. n) /\ Len(p) = Len(q)
  BY <1>1 DEF Enumerates
<1> \A k \in 1 .. Len(p) : p[k] = q[k]
  BY <1>EnumerationStarts, SMTT(30), ZenonT(30)
<1> QED
  BY SameSequence, SMTT(30), Zenon

(* Filtering twice. *)
LEMMA WhereTwice ==
    ASSUME NEW V, NEW s \in Seq(V), NEW S, NEW T, NEW U,
           \A j \in 1 .. Len(s) : s[j] \in U <=> (s[j] \in S /\ s[j] \in T)
    PROVE  Where(Where(s, S), T) = Where(s, U)
<1> DEFINE w == Where(s, S)
<1>1. Len(s) \in Nat
  OBVIOUS
<1>2. PICK p : Enumerates(p, Len(s), Positions(s, S)) /\ w = Through(p, s)
  BY WhereEnumerates, Zenon
<1>3. w \in Seq(V)
  BY WhereFacts, Zenon
<1> HIDE DEF w
<1>4. PICK q : Enumerates(q, Len(w), Positions(w, T)) /\ Where(w, T) = Through(q, w)
  BY <1>3, WhereEnumerates, ZenonT(60)
<1>5. PICK r : Enumerates(r, Len(s), Positions(s, U)) /\ Where(s, U) = Through(r, s)
  BY WhereEnumerates, Zenon
<1>6. /\ Len(p) \in Nat
      /\ \A k \in 1 .. Len(p) : p[k] \in 1 .. Len(s) /\ p[k] \in Positions(s, S)
      /\ \A k, l \in 1 .. Len(p) : k < l => p[k] < p[l]
  BY <1>1, <1>2, EnumerationFacts, Zenon
<1>7. /\ Len(w) = Len(p) /\ Len(w) \in Nat
      /\ \A k \in 1 .. Len(p) : w[k] = s[p[k]]
  BY <1>2, <1>6 DEF Through
<1>8. /\ Len(q) \in Nat
      /\ \A k \in 1 .. Len(q) : q[k] \in 1 .. Len(p) /\ q[k] \in Positions(w, T)
      /\ \A k, l \in 1 .. Len(q) : k < l => q[k] < q[l]
  BY <1>4, <1>7, EnumerationFacts, Zenon
<1> DEFINE u == [k \in 1 .. Len(q) |-> p[q[k]]]
<1>9. u \in Seq(1 .. Len(s)) /\ Len(u) = Len(q) /\ \A k \in 1 .. Len(q) : u[k] = p[q[k]]
  BY <1>6, <1>8
<1> HIDE DEF u
<1>10. ASSUME NEW k \in 1 .. Len(u), NEW l \in 1 .. Len(u), k < l PROVE u[k] < u[l]
  <2> u[k] = p[q[k]] /\ u[l] = p[q[l]] /\ k \in 1 .. Len(q) /\ l \in 1 .. Len(q)
    BY <1>9, Zenon
  <2> q[k] < q[l] /\ q[k] \in 1 .. Len(p) /\ q[l] \in 1 .. Len(p)
    BY <1>8, <1>10, Zenon
  <2> QED
    BY <1>6, Zenon
<1>11. ASSUME NEW j \in 1 .. Len(s)
       PROVE  j \in Positions(s, U) <=> \E k \in 1 .. Len(u) : u[k] = j
  <2>1. ASSUME j \in Positions(s, U) PROVE \E k \in 1 .. Len(u) : u[k] = j
    <3> s[j] \in S /\ s[j] \in T /\ j \in Positions(s, S)
      BY <2>1, Zenon DEF Positions
    <3> PICK i \in 1 .. Len(p) : p[i] = j
      BY <1>2, Zenon DEF Enumerates
    <3> i \in 1 .. Len(w) /\ i \in Positions(w, T)
      BY <1>7, Zenon DEF Positions
    <3> PICK k \in 1 .. Len(q) : q[k] = i
      BY <1>4, Zenon DEF Enumerates
    <3> QED
      BY <1>9, Zenon
  <2> ASSUME NEW k \in 1 .. Len(u), u[k] = j PROVE j \in Positions(s, U)
    <3> k \in 1 .. Len(q) /\ q[k] \in 1 .. Len(p) /\ p[q[k]] = j /\ q[k] \in Positions(w, T)
      BY <1>8, <1>9, Zenon
    <3> w[q[k]] \in T /\ w[q[k]] = s[j] /\ j \in Positions(s, S)
      BY <1>6, <1>7, Zenon DEF Positions
    <3> QED
      BY Zenon DEF Positions
  <2> QED
    BY <2>1, Zenon
<1>12. Enumerates(u, Len(s), Positions(s, U))
  BY <1>9, <1>10, <1>11, Zenon DEF Enumerates
<1>13. u = r
  BY <1>1, <1>5, <1>12, EnumerationUnique, Zenon
<1> Through(u, s) = Through(q, w)
  <2> \A k \in 1 .. Len(q) : s[u[k]] = w[q[k]]
    BY <1>7, <1>8, <1>9, SMTT(30)
  <2> QED
    BY <1>9, Zenon DEF Through
<1> QED
  BY <1>4, <1>5, <1>13, Zenon DEF w

---------------------------------------------------------------------------
(* The columns of the altered definition *)

Distinct(columns) ==
    \A i, j \in 1 .. Len(columns) : columns[i].name = columns[j].name => i = j

KeyDef(d) == IF d = Null THEN NoDefault ELSE d

KeyColumn(c) == [c EXCEPT !.notnull = TRUE, !.def = KeyDef(c.def)]

LEMMA AsKeyFacts ==
    ASSUME NEW c \in Columns
    PROVE  /\ AsKey(c) \in Columns
           /\ AsKey(c).name = c.name /\ AsKey(c).type = c.type
           /\ AsKey(c).notnull = TRUE /\ AsKey(c).def = KeyDef(c.def)
           /\ AsKey(c).on_update = c.on_update /\ AsKey(c).auto = c.auto
           /\ AsKey(c).odd = c.odd
<1>1. AsKey(c) = KeyColumn(c)
  BY Zenon DEF AsKey, KeyColumn, KeyDef
<1> KeyDef(c.def) \in Defaults
  BY Zenon DEF KeyDef, Columns, Defaults
<1> /\ KeyColumn(c) \in Columns
    /\ KeyColumn(c).name = c.name /\ KeyColumn(c).type = c.type
    /\ KeyColumn(c).notnull = TRUE /\ KeyColumn(c).def = KeyDef(c.def)
    /\ KeyColumn(c).on_update = c.on_update /\ KeyColumn(c).auto = c.auto
    /\ KeyColumn(c).odd = c.odd
  BY Zenon DEF KeyColumn, Columns
<1> QED
  BY <1>1, Zenon

LEMMA AddedFacts ==
    ASSUME NEW a \in Alters
    PROVE  /\ AddedColumns(a) \in Seq(Columns)
           /\ Len(AddedColumns(a)) = Len(a.add)
           /\ \A k \in 1 .. Len(a.add) :
                 /\ a.add[k] \in Columns
                 /\ AddedColumns(a)[k].name = a.add[k].name
                 /\ AddedColumns(a)[k].on_update = a.add[k].on_update
                 /\ AddedColumns(a)[k].auto = a.add[k].auto
                 /\ AddedColumns(a)[k].def \in {a.add[k].def, KeyDef(a.add[k].def)}
<1> DEFINE A == AddedColumns(a)
<1>1. a.add \in Seq(Columns)
  BY AltersAssumption, Zenon
<1>2. A = [i \in 1 .. Len(a.add) |->
             IF a.add[i].name \in a.add_pk THEN AsKey(a.add[i]) ELSE a.add[i]]
  BY <1>1 DEF AddedColumns
<1> HIDE DEF A
<1>3. ASSUME NEW k \in 1 .. Len(a.add)
      PROVE  /\ a.add[k] \in Columns
             /\ A[k] \in Columns
             /\ A[k].name = a.add[k].name
             /\ A[k].on_update = a.add[k].on_update
             /\ A[k].auto = a.add[k].auto
             /\ A[k].def \in {a.add[k].def, KeyDef(a.add[k].def)}
  <2>1. A[k] = IF a.add[k].name \in a.add_pk THEN AsKey(a.add[k]) ELSE a.add[k]
    BY <1>2, Zenon
  <2>2. a.add[k] \in Columns
    BY <1>1
  <2>3. CASE a.add[k].name \in a.add_pk
    <3> A[k] = AsKey(a.add[k])
      BY <2>1, <2>3, Zenon
    <3> QED
      BY <2>2, AsKeyFacts, ZenonT(30)
  <2> CASE a.add[k].name \notin a.add_pk
    <3> A[k] = a.add[k]
      BY <2>1, Zenon
    <3> QED
      BY <2>2, Zenon
  <2> QED
    BY <2>3, Zenon
<1> A \in Seq(Columns) /\ Len(A) = Len(a.add)
  <2>1. \A k \in 1 .. Len(a.add) : A[k] \in Columns
    BY <1>3, Zenon
  <2> A \in [1 .. Len(a.add) -> Columns]
    BY <1>2, <2>1, Zenon
  <2> Len(a.add) \in Nat
    BY <1>1
  <2> QED
    OBVIOUS
<1> QED
  BY <1>3, Zenon DEF A

(* What an ALTER makes of a column that stays. *)
Alteration(c, a, d) ==
    /\ d \in Columns
    /\ d.name = NewName(c.name, a)
    /\ c.name \in DOMAIN a.change => d.type = a.change[c.name].type
    /\ d.name \in a.add_pk => d.notnull
    /\ c.name \notin DOMAIN a.change =>
          /\ d.type = c.type
          /\ d.auto = c.auto
          /\ d.name \notin a.add_pk => d.notnull = c.notnull
          /\ c.name \notin DOMAIN a.setdef => d.def \in {c.def, KeyDef(c.def)}

SetDef(c, d) == [c EXCEPT !.def = d]

LEMMA AlteredColumnFacts ==
    \A a, c :
       /\ a \in Alters
       /\ c \in Columns
       => Alteration(c, a, AlteredColumn(c, a))
<1>SetDefFacts.
      ASSUME NEW c \in Columns, NEW d \in Defaults
      PROVE  /\ SetDef(c, d) \in Columns
             /\ SetDef(c, d).name = c.name /\ SetDef(c, d).type = c.type
             /\ SetDef(c, d).notnull = c.notnull /\ SetDef(c, d).def = d
             /\ SetDef(c, d).on_update = c.on_update /\ SetDef(c, d).auto = c.auto
             /\ SetDef(c, d).odd = c.odd
  BY <1>SetDefFacts, Zenon DEF SetDef, Columns
<1> SUFFICES ASSUME NEW a \in Alters, NEW c \in Columns
             PROVE  Alteration(c, a, AlteredColumn(c, a))
  BY Zenon
<1> DEFINE base == IF c.name \in DOMAIN a.change THEN a.change[c.name] ELSE c
           def == IF c.name \in DOMAIN a.setdef THEN SetDef(base, a.setdef[c.name]) ELSE base
           d == AlteredColumn(c, a)
<1>1. d = IF def.name \in a.add_pk THEN AsKey(def) ELSE def
  BY Zenon DEF AlteredColumn, SetDef
<1>2. /\ base \in Columns /\ base.name = NewName(c.name, a)
      /\ c.name \notin DOMAIN a.change => base = c
      /\ c.name \in DOMAIN a.change => base = a.change[c.name]
  <2> c.name \in DOMAIN a.change => a.change[c.name] \in Columns
    BY AltersAssumption, Zenon
  <2> QED
    BY Zenon DEF NewName
<1> HIDE DEF base, d
<1>3. /\ def \in Columns /\ def.name = base.name /\ def.type = base.type
      /\ def.notnull = base.notnull /\ def.auto = base.auto
      /\ c.name \notin DOMAIN a.setdef => def = base
  <2> CASE c.name \in DOMAIN a.setdef
    <3> a.setdef[c.name] \in Defaults
      BY AltersAssumption, Zenon
    <3> def = SetDef(base, a.setdef[c.name])
      BY Zenon
    <3> HIDE DEF def
    <3> QED
      BY <1>2, <1>SetDefFacts, Zenon
  <2> CASE c.name \notin DOMAIN a.setdef
    <3> def = base
      BY Zenon
    <3> HIDE DEF def
    <3> QED
      BY <1>2, Zenon
  <2> QED
    BY Zenon
<1> HIDE DEF def
<1>4. /\ d \in Columns /\ d.name = def.name /\ d.type = def.type /\ d.auto = def.auto
      /\ d.name \in a.add_pk => d.notnull = TRUE
      /\ d.name \notin a.add_pk => d.notnull = def.notnull
      /\ d.def \in {def.def, KeyDef(def.def)}
  <2> CASE def.name \in a.add_pk
    <3> d = AsKey(def)
      BY <1>1, Zenon
    <3> QED
      BY <1>3, AsKeyFacts, Zenon
  <2> CASE def.name \notin a.add_pk
    <3> d = def
      BY <1>1, Zenon
    <3> QED
      BY <1>3, Zenon
  <2> QED
    BY Zenon
<1> Alteration(c, a, d)
  <2>1. CASE c.name \in DOMAIN a.change
    BY <1>2, <1>3, <1>4, <2>1, Zenon DEF Alteration
  <2> CASE c.name \notin DOMAIN a.change
    <3> base = c
      BY <1>2, Zenon
    <3> QED
      BY <1>2, <1>3, <1>4, Zenon DEF Alteration
  <2> QED
    BY <2>1, Zenon
<1> QED
  BY Zenon DEF d

Stays(a) == {c \in ToSet(mdb.columns) : c.name \notin a.drop}

LEMMA KeptFacts ==
    ASSUME NEW a, mdb.columns \in Seq(Columns), Distinct(mdb.columns)
    PROVE  /\ KeptColumns(a) = Where(mdb.columns, Stays(a))
           /\ KeptColumns(a) \in Seq(Columns)
           /\ \A i \in 1 .. Len(KeptColumns(a)) :
                 /\ KeptColumns(a)[i].name \notin a.drop
                 /\ \E j \in 1 .. Len(mdb.columns) : KeptColumns(a)[i] = mdb.columns[j]
           /\ \A j \in 1 .. Len(mdb.columns) : mdb.columns[j].name \notin a.drop =>
                 \E i \in 1 .. Len(KeptColumns(a)) : KeptColumns(a)[i] = mdb.columns[j]
           /\ Distinct(KeptColumns(a))
<1> DEFINE M == mdb.columns
           S == Stays(a)
           K == Where(M, S)
<1>1. KeptColumns(a) = K
  BY Zenon DEF KeptColumns, Stays
<1>2. M \in Seq(Columns) /\ Distinct(M)
  BY Zenon
<1>3. \A j \in 1 .. Len(M) : M[j] \in S <=> M[j].name \notin a.drop
  <2> \A j \in 1 .. Len(M) : M[j] \in ToSet(M)
    BY <1>2, WhereIn, Zenon
  <2> QED
    BY Zenon DEF Stays
<1> HIDE DEF M, S
<1>4. /\ K \in Seq(Columns)
      /\ \A k \in 1 .. Len(K) : K[k] \in S /\ \E j \in 1 .. Len(M) : K[k] = M[j]
      /\ \A j \in 1 .. Len(M) : M[j] \in S => \E k \in 1 .. Len(K) : K[k] = M[j]
  BY <1>2, WhereFacts
<1>5. ASSUME NEW k \in 1 .. Len(K), NEW l \in 1 .. Len(K), k # l
      PROVE  \E i, j \in 1 .. Len(M) : i # j /\ K[k] = M[i] /\ K[l] = M[j]
  BY <1>2, <1>5, WhereApart
<1> HIDE DEF K
<1> Distinct(K)
  <2> SUFFICES ASSUME NEW k \in 1 .. Len(K), NEW l \in 1 .. Len(K), K[k].name = K[l].name, k # l
               PROVE  FALSE
    BY Zenon DEF Distinct
  <2> PICK i, j \in 1 .. Len(M) : i # j /\ K[k] = M[i] /\ K[l] = M[j]
    BY <1>5, Zenon
  <2> M[i].name = M[j].name
    BY Zenon
  <2> QED
    BY <1>2, Zenon DEF Distinct
<1> /\ \A i \in 1 .. Len(K) :
          K[i].name \notin a.drop /\ \E j \in 1 .. Len(M) : K[i] = M[j]
    /\ \A j \in 1 .. Len(M) : M[j].name \notin a.drop =>
          \E i \in 1 .. Len(K) : K[i] = M[j]
  BY <1>3, <1>4, Zenon
<1> QED
  BY <1>1, <1>4, ZenonT(30) DEF K, M, S

(* The new table: the columns that stay, then the added ones. *)
LEMMA NewFacts ==
    ASSUME NEW a \in Alters, mdb.columns \in Seq(Columns), Distinct(mdb.columns), ~a.order,
           WellFormed(Altered(a))
    PROVE  /\ AlteredColumns(a) \in Seq(Columns)
           /\ Len(AlteredColumns(a)) = Len(KeptColumns(a)) + Len(AddedColumns(a))
           /\ \A i \in 1 .. Len(KeptColumns(a)) :
                 Alteration(KeptColumns(a)[i], a, AlteredColumns(a)[i])
           /\ \A k \in 1 .. Len(AddedColumns(a)) :
                 AlteredColumns(a)[Len(KeptColumns(a)) + k] = AddedColumns(a)[k]
           /\ Distinct(AlteredColumns(a))
           /\ Distinct(AddedColumns(a))
<1> DEFINE K == KeptColumns(a)
           A == AddedColumns(a)
           New == AlteredColumns(a)
           L == [i \in DOMAIN K |-> AlteredColumn(K[i], a)]
<1>1. K \in Seq(Columns)
  BY KeptFacts, Zenon
<1>2. A \in Seq(Columns)
  BY AddedFacts, Zenon
<1>3. New = L \o A
  BY Zenon DEF AlteredColumns
<1>4. Altered(a).columns = New
  BY Zenon DEF Altered
<1> HIDE DEF K, A, New
<1>5. DOMAIN K = 1 .. Len(K) /\ Len(K) \in Nat /\ \A i \in 1 .. Len(K) : K[i] \in Columns
  BY <1>1
<1>6. \A i \in 1 .. Len(K) : Alteration(K[i], a, AlteredColumn(K[i], a))
  BY <1>5, AlteredColumnFacts, Zenon
<1>7. \A i \in 1 .. Len(K) : L[i] = AlteredColumn(K[i], a)
  BY <1>5, Zenon
<1>8. \A i \in 1 .. Len(K) : L[i] \in Columns
  BY <1>6, <1>7, Zenon DEF Alteration
<1>9. L \in Seq(Columns) /\ Len(L) = Len(K)
  <2> L \in [1 .. Len(K) -> Columns]
    BY <1>5, <1>8, Zenon
  <2> QED
    BY <1>5
<1> HIDE DEF L
<1> /\ New \in Seq(Columns) /\ Len(New) = Len(K) + Len(A)
    /\ \A i \in 1 .. Len(K) : New[i] = L[i]
    /\ \A k \in 1 .. Len(A) : New[Len(K) + k] = A[k]
  <2> /\ L \o A \in Seq(Columns) /\ Len(L \o A) = Len(L) + Len(A)
      /\ \A i \in 1 .. Len(L) : (L \o A)[i] = L[i]
      /\ \A k \in 1 .. Len(A) : (L \o A)[Len(L) + k] = A[k]
    BY <1>2, <1>9, SMTT(30), ZenonT(30)
  <2> QED
    BY <1>3, <1>9, Zenon
<1>11. \A i \in 1 .. Len(K) : Alteration(K[i], a, New[i])
  BY <1>6, <1>7, Zenon
<1>12. Distinct(New)
  <2> DOMAIN New = 1 .. Len(New)
    OBVIOUS
  <2> QED
    BY <1>4, Zenon DEF WellFormed, Distinct
<1> Distinct(A)
  <2> SUFFICES ASSUME NEW i \in 1 .. Len(A), NEW j \in 1 .. Len(A), A[i].name = A[j].name
               PROVE  i = j
    BY Zenon DEF Distinct
  <2> /\ Len(K) + i \in 1 .. Len(New) /\ Len(K) + j \in 1 .. Len(New)
      /\ New[Len(K) + i] = A[i] /\ New[Len(K) + j] = A[j]
    BY <1>2, <1>5, SMTT(30), ZenonT(30)
  <2> Len(K) + i = Len(K) + j
    BY <1>12, ZenonT(30) DEF Distinct
  <2> QED
    BY <1>5
<1> QED
  BY <1>11, <1>12, Zenon DEF K, A, New

LEMMA CopyInv ==
    \A a :
       /\ AlterInv
       /\ a \in Alters
       /\ AlterCopy(a)
       => AlterInv'
<1>AlteredType.
      ASSUME NEW a \in Alters, mdb.columns \in Seq(Columns), Distinct(mdb.columns)
      PROVE  AlteredColumns(a) \in Seq(Columns)
  <2> USE <1>AlteredType
  <2> DEFINE K == KeptColumns(a)
             A == AddedColumns(a)
             L == [i \in DOMAIN K |-> AlteredColumn(K[i], a)]
  <2>1. K \in Seq(Columns)
    BY KeptFacts, Zenon
  <2>2. A \in Seq(Columns)
    BY AddedFacts, Zenon
  <2>3. AlteredColumns(a) = IF a.order THEN A \o L ELSE L \o A
    BY Zenon DEF AlteredColumns
  <2> HIDE DEF K, A
  <2> DOMAIN K = 1 .. Len(K) /\ Len(K) \in Nat /\ \A i \in 1 .. Len(K) : K[i] \in Columns
    BY <2>1
  <2>5. \A i \in 1 .. Len(K) : AlteredColumn(K[i], a) \in Columns
    BY AlteredColumnFacts, Zenon DEF Alteration
  <2> L \in Seq(Columns)
    <3> L \in [1 .. Len(K) -> Columns]
      BY <2>5, Zenon
    <3> QED
      OBVIOUS
  <2> HIDE DEF L
  <2> A \o L \in Seq(Columns) /\ L \o A \in Seq(Columns)
    BY <2>2
  <2> QED
    BY <2>3, Zenon
<1> SUFFICES ASSUME AlterInv, NEW a \in Alters, AlterCopy(a)
             PROVE  AlterInv'
  BY Zenon
<1> /\ Idle /\ Valid(a) /\ ~CreateRejected(Altered(a), FALSE)
    /\ mdb' = Altered(a) /\ duck' = append_column_definition(Altered(a).columns)
    /\ UNCHANGED <<require_primary_key, pending, torn>>
  BY Zenon DEF AlterCopy, StartAlter
<1>2. /\ mdb.columns \in Seq(Columns) /\ WellFormed(mdb)
  BY Zenon DEF AlterInv, Fits
<1>3. Distinct(mdb.columns)
  <2> DOMAIN mdb.columns = 1 .. Len(mdb.columns)
    BY <1>2
  <2> QED
    BY <1>2, Zenon DEF WellFormed, Distinct
<1>4. Altered(a).columns \in Seq(Columns) /\ WellFormed(Altered(a))
  <2> Altered(a).columns = AlteredColumns(a)
    BY Zenon DEF Altered
  <2> QED
    BY <1>2, <1>3, <1>AlteredType, Zenon DEF Valid
<1>5. Created(duck', mdb'.columns)
  BY <1>4, CreatedFacts, Zenon
<1> Fits(mdb)'
  <2>1. /\ Len(duck') = Len(mdb'.columns)
        /\ \A i \in 1 .. Len(duck') :
              /\ duck'[i].name = mdb'.columns[i].name
              /\ duck'[i].notnull = mdb'.columns[i].notnull
              /\ duck'[i].name \notin retyped' => duck'[i].type = mdb'.columns[i].type
              /\ duck'[i].name \notin frozen' =>
                    SameDefault(duck'[i].def, FieldTranslate(mdb'.columns[i]).def)
    BY <1>5, SameItself, Zenon DEF Created
  <2> mdb'.columns \in Seq(Columns) /\ WellFormed(mdb')
    BY <1>4, Zenon
  <2> QED
    BY <2>1, Zenon DEF Fits, Agree
<1> pending' = NoTable
  BY Zenon DEF Idle
<1> QED
  BY <1>5, Zenon DEF AlterInv, Created

(* The old and the new definition of a column. *)
Pairs == [old : Columns, new : Columns]

DistinctNew(changed) ==
    \A i, j \in 1 .. Len(changed) : changed[i].new.name = changed[j].new.name => i = j

DistinctOld(C) == \A i, j \in 1 .. Len(C) : C[i].old.name = C[j].old.name => i = j

ChangedAt(a, k, i) ==
    /\ ChangedColumns(a)[k].old = KeptColumns(a)[i]
    /\ ChangedColumns(a)[k].new = AlteredColumns(a)[i]

(* The pairs of ChangeColumnConvertor are the changed columns of the two
   tables, position by position. *)
LEMMA ChangedFacts ==
    ASSUME NEW a \in Alters, mdb.columns \in Seq(Columns), Distinct(mdb.columns), ~a.order,
           Valid(a)
    PROVE  /\ ChangedColumns(a) \in Seq(Pairs)
           /\ \A k \in 1 .. Len(ChangedColumns(a)) : \E i \in 1 .. Len(KeptColumns(a)) :
                 ChangedAt(a, k, i) /\ KeptColumns(a)[i].name \in DOMAIN a.change
           /\ \A i \in 1 .. Len(KeptColumns(a)) : KeptColumns(a)[i].name \in DOMAIN a.change =>
                 \E k \in 1 .. Len(ChangedColumns(a)) : ChangedAt(a, k, i)
           /\ DistinctOld(ChangedColumns(a))
           /\ DistinctNew(ChangedColumns(a))
<1> DEFINE M == mdb.columns
           K == KeptColumns(a)
           A == AddedColumns(a)
           New == AlteredColumns(a)
           S == {c \in ToSet(mdb.columns) : c.name \in DOMAIN a.change}
           w == Where(M, S)
           C == ChangedColumns(a)
<1>1. WellFormed(Altered(a)) /\ a.drop \cap DOMAIN a.change = {}
  BY Zenon DEF Valid
<1>2. /\ K \in Seq(Columns)
      /\ \A i \in 1 .. Len(K) : K[i].name \notin a.drop /\ \E j \in 1 .. Len(M) : K[i] = M[j]
      /\ \A j \in 1 .. Len(M) : M[j].name \notin a.drop => \E i \in 1 .. Len(K) : K[i] = M[j]
      /\ Distinct(K)
  BY KeptFacts, Zenon
<1>3. /\ New \in Seq(Columns) /\ Len(New) = Len(K) + Len(A)
      /\ \A i \in 1 .. Len(K) : Alteration(K[i], a, New[i])
      /\ Distinct(New)
  BY <1>1, NewFacts, Zenon
<1>4. A \in Seq(Columns)
  BY AddedFacts, Zenon
<1>5. C = [i \in DOMAIN w |-> [old |-> w[i], new |-> Column(New, NewName(w[i].name, a))]]
  BY Zenon DEF ChangedColumns
<1>6. \A j \in 1 .. Len(M) : M[j] \in S <=> M[j].name \in DOMAIN a.change
  <2> \A j \in 1 .. Len(M) : M[j] \in ToSet(M)
    BY WhereIn, Zenon
  <2> QED
    BY Zenon
<1>7. M \in Seq(Columns) /\ Distinct(M)
  BY Zenon
<1>8. \A k, i : ChangedAt(a, k, i) <=> C[k].old = K[i] /\ C[k].new = New[i]
  BY Zenon DEF ChangedAt
<1> HIDE DEF M, K, A, New, S, C
<1>9. /\ w \in Seq(Columns)
      /\ \A k \in 1 .. Len(w) : w[k] \in S /\ \E j \in 1 .. Len(M) : w[k] = M[j]
      /\ \A j \in 1 .. Len(M) : M[j] \in S => \E k \in 1 .. Len(w) : w[k] = M[j]
  BY <1>7, WhereFacts
<1>10. ASSUME NEW k \in 1 .. Len(w), NEW l \in 1 .. Len(w), k # l
      PROVE  \E i, j \in 1 .. Len(M) : i # j /\ w[k] = M[i] /\ w[l] = M[j]
  BY <1>10, <1>7, WhereApart
<1> HIDE DEF w
<1>11. DOMAIN w = 1 .. Len(w) /\ Len(w) \in Nat /\ DOMAIN New = 1 .. Len(New)
  BY <1>3, <1>9
<1>12. \A i \in 1 .. Len(K) : i \in 1 .. Len(New)
  BY <1>2, <1>3, <1>4
<1>13. ASSUME NEW i \in 1 .. Len(K) PROVE Column(New, NewName(K[i].name, a)) = New[i]
  <2>1. i \in DOMAIN New /\ New[i].name = NewName(K[i].name, a)
    BY <1>3, <1>11, <1>12, Zenon DEF Alteration
  <2> \A m \in DOMAIN New : New[m].name = New[i].name => m = i
    BY <1>3, <1>11, <1>12, Zenon DEF Distinct
  <2> (CHOOSE m \in DOMAIN New : New[m].name = NewName(K[i].name, a)) = i
    BY <2>1, Zenon
  <2> QED
    BY Zenon DEF Column
<1>14. \A k \in 1 .. Len(w) :
          C[k] = [old |-> w[k], new |-> Column(New, NewName(w[k].name, a))]
  BY <1>5, <1>11, Zenon
<1>15. ASSUME NEW k \in 1 .. Len(w), NEW i \in 1 .. Len(K), w[k] = K[i]
       PROVE  C[k] \in Pairs /\ C[k].old = K[i] /\ C[k].new = New[i]
  <2> C[k] = [old |-> K[i], new |-> New[i]]
    BY <1>13, <1>14, <1>15, Zenon
  <2> K[i] \in Columns /\ New[i] \in Columns
    BY <1>2, <1>3, <1>12
  <2> QED
    BY DEF Pairs
<1>16. ASSUME NEW k \in 1 .. Len(w)
       PROVE  \E i \in 1 .. Len(K) : w[k] = K[i] /\ K[i].name \in DOMAIN a.change
  <2> PICK j \in 1 .. Len(M) : w[k] = M[j]
    BY <1>9, Zenon
  <2> M[j].name \in DOMAIN a.change
    BY <1>9, <1>6, Zenon
  <2> M[j].name \notin a.drop
    BY <1>1, Zenon
  <2> QED
    BY <1>2, Zenon
<1>17. C \in Seq(Pairs) /\ Len(C) = Len(w)
  <2> \A k \in 1 .. Len(w) : C[k] \in Pairs
    BY <1>15, <1>16, Zenon
  <2> C \in [1 .. Len(w) -> Pairs]
    BY <1>5, <1>11, Zenon
  <2> QED
    BY <1>11
<1>18. ASSUME NEW k \in 1 .. Len(C)
       PROVE  \E i \in 1 .. Len(K) : ChangedAt(a, k, i) /\ K[i].name \in DOMAIN a.change
  <2> k \in 1 .. Len(w)
    BY <1>17, Zenon
  <2> PICK i \in 1 .. Len(K) : w[k] = K[i] /\ K[i].name \in DOMAIN a.change
    BY <1>16, Zenon
  <2> QED
    BY <1>8, <1>15, Zenon
<1>19. ASSUME NEW i \in 1 .. Len(K), K[i].name \in DOMAIN a.change
       PROVE  \E k \in 1 .. Len(C) : ChangedAt(a, k, i)
  <2> PICK j \in 1 .. Len(M) : K[i] = M[j]
    BY <1>2, Zenon
  <2> PICK k \in 1 .. Len(w) : w[k] = M[j]
    BY <1>9, <1>6, <1>19, Zenon
  <2> QED
    BY <1>8, <1>15, <1>17, Zenon
<1>20. DistinctOld(C)
  <2> SUFFICES ASSUME NEW k \in 1 .. Len(C), NEW l \in 1 .. Len(C),
                      C[k].old.name = C[l].old.name, k # l
               PROVE  FALSE
    BY Zenon DEF DistinctOld
  <2> k \in 1 .. Len(w) /\ l \in 1 .. Len(w)
    BY <1>17, Zenon
  <2>2. PICK i, j \in 1 .. Len(M) : i # j /\ w[k] = M[i] /\ w[l] = M[j]
    BY <1>10, Zenon
  <2> C[k].old = w[k] /\ C[l].old = w[l]
    <3> PICK m \in 1 .. Len(K) : w[k] = K[m]
      BY <1>16, Zenon
    <3> PICK n \in 1 .. Len(K) : w[l] = K[n]
      BY <1>16, Zenon
    <3> QED
      BY <1>15, Zenon
  <2> M[i].name = M[j].name
    BY <2>2, Zenon
  <2> QED
    BY <1>7, <2>2, Zenon DEF Distinct
<1> DistinctNew(C)
  <2> SUFFICES ASSUME NEW k \in 1 .. Len(C), NEW l \in 1 .. Len(C),
                      C[k].new.name = C[l].new.name
               PROVE  k = l
    BY Zenon DEF DistinctNew
  <2>1. PICK i \in 1 .. Len(K) : ChangedAt(a, k, i)
    BY <1>18, Zenon
  <2> PICK j \in 1 .. Len(K) : ChangedAt(a, l, j)
    BY <1>18, Zenon
  <2>3. New[i].name = New[j].name
    BY <1>8, <2>1, Zenon
  <2> i = j
    BY <1>3, <1>12, <2>3, Zenon DEF Distinct
  <2> C[k].old.name = C[l].old.name
    BY <1>8, <2>1, ZenonT(30)
  <2> QED
    BY <1>20, Zenon DEF DistinctOld
<1> QED
  BY <1>17, <1>18, <1>19, <1>20, Zenon DEF C, K

---------------------------------------------------------------------------
(* Columns that agree with the altered definition *)

(* An in-place ALTER can start. *)
Ready(a) ==
    /\ a \in Alters
    /\ duck \in Seq(DuckColumns)
    /\ Fits(mdb)
    /\ ~a.order
    /\ Valid(a)

LEMMA ReadyFacts ==
    ASSUME NEW a, Ready(a)
    PROVE  /\ a \in Alters /\ ~a.order /\ Valid(a) /\ WellFormed(Altered(a))
           /\ duck \in Seq(DuckColumns)
           /\ mdb.columns \in Seq(Columns)
           /\ Distinct(mdb.columns)
           /\ Len(duck) = Len(mdb.columns)
           /\ \A j \in 1 .. Len(duck) : Agree(duck[j], mdb.columns[j])
           /\ Names(duck) = Names(mdb.columns)
<1> /\ a \in Alters /\ ~a.order /\ Valid(a) /\ duck \in Seq(DuckColumns)
    /\ mdb.columns \in Seq(Columns) /\ Len(duck) = Len(mdb.columns) /\ WellFormed(mdb)
    /\ \A j \in 1 .. Len(duck) : Agree(duck[j], mdb.columns[j])
  BY Zenon DEF Ready, Fits
<1> DOMAIN duck = 1 .. Len(duck) /\ DOMAIN mdb.columns = 1 .. Len(duck)
  OBVIOUS
<1>3. Distinct(mdb.columns)
  BY Zenon DEF WellFormed, Distinct
<1> Names(duck) = Names(mdb.columns)
  <2> \A j \in 1 .. Len(duck) : duck[j].name = mdb.columns[j].name
    BY Zenon DEF Agree
  <2> QED
    BY Zenon DEF Names
<1> QED
  BY <1>3, Zenon DEF Valid

(* The columns DropColumnConvertor drops. *)
Gone(a, drop_list) ==
    {c \in ToSet(mdb.columns) :
        IF drop_list THEN c.name \in a.drop
        ELSE c.name \notin DOMAIN a.change /\ c.name \notin Names(AlteredColumns(a))}

GoneIf(a, drop_list) == IF a.drop # {} THEN Gone(a, drop_list) ELSE {}

Differs(a) ==
    {c \in ToSet(AlteredColumns(a)) :
        /\ c.name \in Names(mdb.columns)
        /\ ~SameDefault(Column(mdb.columns, c.name).def, c.def)}

Emptied == {NoDefault, Null} \cup SequenceExprs

DiffersEmptied(a) == {c \in Differs(a) : c.def \in Emptied}

DiffersFilled(a) == {c \in Differs(a) : c.def \notin Emptied}

IsKey(a) == {c \in ToSet(AlteredColumns(a)) : c.name \in Altered(a).pk /\ c.notnull}

(* A column ADD COLUMN and its follow-up statements made. *)
IsAdded(d, c) ==
    /\ d.name = c.name
    /\ d.type = c.type
    /\ d.notnull <=> c.notnull
    /\ d.def = IF c.notnull /\ c.def = NoDefault THEN Null ELSE AddedDefault(c)

(* A column of DuckDB that is as it was when it was column c, but for its name. *)
AsBefore(d, c) ==
    /\ d.notnull = c.notnull
    /\ c.name \notin retyped => d.type = c.type
    /\ c.name \notin frozen => SameDefault(d.def, FieldTranslate(c).def)

(* Whether the default of a changed column is sent. *)
Sent(old, new) == new.def = NoDefault \/ new.def \notin SequenceExprs \/ new.def # old.def

(* A column of DuckDB after ChangeColumnConvertor changed it from old to new. *)
ChangedTo(d, old, new) ==
    /\ old.name \notin retyped => d.type = old.type
    /\ d.notnull = new.notnull
    /\ Sent(old, new) => d.def = ForwardedDefault(new.def)
    /\ ~Sent(old, new) /\ old.name \notin frozen =>
          SameDefault(d.def, FieldTranslate(old).def)

WithChanged(a, X) ==
    /\ X \in Seq(DuckColumns)
    /\ Len(X) = Len(AlteredColumns(a))
    /\ \A i \in 1 .. Len(X) : X[i].name = AlteredColumns(a)[i].name
    /\ \A i \in 1 .. Len(KeptColumns(a)) :
          IF KeptColumns(a)[i].name \in DOMAIN a.change
          THEN ChangedTo(X[i], KeptColumns(a)[i], AlteredColumns(a)[i])
          ELSE AsBefore(X[i], KeptColumns(a)[i])
    /\ \A k \in 1 .. Len(AddedColumns(a)) :
          IsAdded(X[Len(KeptColumns(a)) + k], AddedColumns(a)[k])

(* ChangeColumnDefaultConvertor sends the default of a column. *)
Redefined(a, c) == DOMAIN a.setdef # {} /\ c \in Differs(a)

WithDefaults(a, X, Y) ==
    /\ Y \in Seq(DuckColumns)
    /\ Len(Y) = Len(X)
    /\ \A i \in 1 .. Len(X) :
          /\ Y[i].name = X[i].name /\ Y[i].type = X[i].type /\ Y[i].notnull = X[i].notnull
          /\ Y[i].def = IF Redefined(a, AlteredColumns(a)[i])
                        THEN ForwardedDefault(AlteredColumns(a)[i].def) ELSE X[i].def

WithKeys(a, X, Y) ==
    /\ Y \in Seq(DuckColumns)
    /\ Len(Y) = Len(X)
    /\ \A i \in 1 .. Len(X) :
          /\ Y[i].name = X[i].name /\ Y[i].type = X[i].type /\ Y[i].def = X[i].def
          /\ IF a.add_pk # {} /\ AlteredColumns(a)[i] \in IsKey(a)
             THEN Y[i].notnull = TRUE ELSE Y[i].notnull = X[i].notnull

(* What the convertors make of the columns of DuckDB. *)
Outcomes(a, drop_list, X, Y, R) ==
    /\ WithChanged(a, X)
    /\ WithDefaults(a, X, Y)
    /\ WithKeys(a, Y, R)
    /\ \A j \in 1 .. Len(mdb.columns) :
          mdb.columns[j] \in GoneIf(a, drop_list) <=> mdb.columns[j].name \in a.drop

LEMMA NamesOf ==
    ASSUME NEW V, NEW X \in Seq(V), NEW i \in 1 .. Len(X)
    PROVE  X[i].name \in Names(X)
<1> DOMAIN X = 1 .. Len(X)
  OBVIOUS
<1> QED
  BY Zenon DEF Names

LEMMA NamedAt ==
    ASSUME NEW V, NEW X \in Seq(V), NEW n \in Names(X)
    PROVE  \E i \in 1 .. Len(X) : X[i].name = n
<1> DOMAIN X = 1 .. Len(X)
  OBVIOUS
<1> QED
  BY Zenon DEF Names

LEMMA ColumnAt ==
    ASSUME NEW s \in Seq(Columns), Distinct(s), NEW j \in 1 .. Len(s)
    PROVE  Column(s, s[j].name) = s[j]
<1>1. DOMAIN s = 1 .. Len(s)
  OBVIOUS
<1> DEFINE q == CHOOSE i \in DOMAIN s : s[i].name = s[j].name
<1> q \in 1 .. Len(s) /\ s[q].name = s[j].name
  BY <1>1, Zenon
<1> HIDE DEF q
<1> q = j
  BY Zenon DEF Distinct
<1> QED
  BY Zenon DEF Column, q

KeptNames(S, a) == {NewName(n, a) : n \in S \ a.drop}

RetypedAfter(a) ==
    KeptNames(retyped, a)
      \cup KeptNames({n \in DOMAIN a.change :
                        a.change[n].type # Column(mdb.columns, n).type}, a)

SentNames(a) ==
    {p.new.name : p \in {p \in ToSet(ChangedColumns(a)) : DefaultIsSent(p)}}

RedefinedNames(a) == IF DOMAIN a.setdef = {} THEN {} ELSE Names(DefaultChanged(a))

Computed(a) == {c.name : c \in {c \in ToSet(a.add) : c.on_update \/ c.def \in Exprs}}

FrozenAfter(a) ==
    (KeptNames(frozen, a) \ (SentNames(a) \cup RedefinedNames(a))) \cup Computed(a)

LEMMA RecordFacts ==
    ASSUME NEW a, RecordInplace(a)
    PROVE  /\ retyped' = RetypedAfter(a)
           /\ frozen' = FrozenAfter(a)
BY Zenon DEF RecordInplace, RetypedAfter, FrozenAfter, KeptNames, SentNames, RedefinedNames,
             Computed

(* The facts about the two definitions that the following lemmas use. *)
Definition(a) ==
    /\ a \in Alters /\ Valid(a) /\ WellFormed(Altered(a)) /\ WellFormed(mdb)
    /\ mdb.columns \in Seq(Columns) /\ Distinct(mdb.columns)
    /\ KeptColumns(a) \in Seq(Columns)
    /\ AddedColumns(a) \in Seq(Columns)
    /\ AlteredColumns(a) \in Seq(Columns)
    /\ Distinct(AlteredColumns(a))
    /\ Len(AlteredColumns(a)) = Len(KeptColumns(a)) + Len(AddedColumns(a))

(* Position i of the new definition is the one of a column that stays, ... *)
IsKept(a, i) ==
    /\ i \in 1 .. Len(AlteredColumns(a))
    /\ i \in 1 .. Len(KeptColumns(a))
    /\ Alteration(KeptColumns(a)[i], a, AlteredColumns(a)[i])
    /\ KeptColumns(a)[i].name \notin a.drop
    /\ \E j \in 1 .. Len(mdb.columns) : KeptColumns(a)[i] = mdb.columns[j]

(* ... or the one of an added column. *)
IsNew(a, i, k) ==
    /\ k \in 1 .. Len(AddedColumns(a))
    /\ i = Len(KeptColumns(a)) + k
    /\ AlteredColumns(a)[i] = AddedColumns(a)[k]

LEMMA PositionFacts ==
    ASSUME NEW a, Ready(a)
    PROVE  /\ Definition(a)
           /\ \A i \in 1 .. Len(AlteredColumns(a)) : IsKept(a, i) \/ \E k : IsNew(a, i, k)
           /\ \A i \in 1 .. Len(KeptColumns(a)) : IsKept(a, i)
<1> DEFINE M == mdb.columns
           A == AddedColumns(a)
           K == KeptColumns(a)
           New == AlteredColumns(a)
<1>1. /\ a \in Alters /\ ~a.order /\ Valid(a) /\ WellFormed(Altered(a)) /\ WellFormed(mdb)
      /\ M \in Seq(Columns) /\ Distinct(M)
  BY ReadyFacts, Zenon DEF Ready, Fits
<1>2. /\ New \in Seq(Columns)
      /\ Len(New) = Len(K) + Len(A)
      /\ \A i \in 1 .. Len(K) : Alteration(K[i], a, New[i])
      /\ \A k \in 1 .. Len(A) : New[Len(K) + k] = A[k]
      /\ Distinct(New)
  BY <1>1, NewFacts, Zenon
<1>3. /\ K \in Seq(Columns)
      /\ \A i \in 1 .. Len(K) : K[i].name \notin a.drop /\ \E j \in 1 .. Len(M) : K[i] = M[j]
  BY <1>1, KeptFacts, Zenon
<1>4. A \in Seq(Columns)
  BY <1>1, AddedFacts, Zenon
<1>5. Definition(a)
  BY <1>1, <1>2, <1>3, <1>4, Zenon DEF Definition
<1>6. /\ \A i : IsKept(a, i) <=>
            /\ i \in 1 .. Len(New)
            /\ i \in 1 .. Len(K)
            /\ Alteration(K[i], a, New[i])
            /\ K[i].name \notin a.drop
            /\ \E j \in 1 .. Len(M) : K[i] = M[j]
      /\ \A i, k : IsNew(a, i, k) <=> k \in 1 .. Len(A) /\ i = Len(K) + k /\ New[i] = A[k]
  BY Zenon DEF IsKept, IsNew
<1> HIDE DEF M, A, K, New
<1>7. /\ \A i \in 1 .. Len(K) : i \in 1 .. Len(New)
      /\ \A i \in 1 .. Len(New) :
            i \notin 1 .. Len(K) => i - Len(K) \in 1 .. Len(A) /\ i = Len(K) + (i - Len(K))
  <2> Len(K) \in Nat /\ Len(A) \in Nat
    BY <1>3, <1>4
  <2> QED
    BY <1>2
<1>8. \A i \in 1 .. Len(K) : IsKept(a, i)
  BY <1>2, <1>3, <1>6, <1>7, Zenon
<1>9. ASSUME NEW i \in 1 .. Len(New), i \notin 1 .. Len(K) PROVE \E k : IsNew(a, i, k)
  <2> DEFINE k == i - Len(K)
  <2> k \in 1 .. Len(A) /\ i = Len(K) + k
    BY <1>7, <1>9, Zenon
  <2> HIDE DEF k
  <2> New[i] = A[k]
    BY <1>2, Zenon
  <2> QED
    BY <1>6, Zenon
<1> \A i \in 1 .. Len(New) : IsKept(a, i) \/ \E k : IsNew(a, i, k)
  BY <1>8, <1>9, Zenon
<1> QED
  BY <1>5, <1>8, Zenon DEF K, New

(* The columns an in-place ALTER leaves are the ones of the new definition. *)
ColumnsFit(a, R) ==
    /\ R \in Seq(DuckColumns)
    /\ Len(R) = Len(AlteredColumns(a))
    /\ \A i \in 1 .. Len(R) :
          /\ R[i].name = AlteredColumns(a)[i].name
          /\ R[i].notnull = AlteredColumns(a)[i].notnull
          /\ R[i].name \notin RetypedAfter(a) => R[i].type = AlteredColumns(a)[i].type
          /\ R[i].name \notin FrozenAfter(a) =>
                SameDefault(R[i].def, FieldTranslate(AlteredColumns(a)[i]).def)

LEMMA ColumnsAfter ==
    \A a, drop_list, X, Y, R :
       /\ Ready(a)
       /\ ~AddColumnRejected(a)
       /\ ~ChangeColumnRejected(a)
       /\ Outcomes(a, drop_list, X, Y, R)
       => ColumnsFit(a, R)
  (* A column that stays, in the old definition. *)
<1>KeptIsColumn.
      ASSUME NEW a, Definition(a), NEW i, IsKept(a, i)
      PROVE  /\ KeptColumns(a)[i].name \in Names(mdb.columns)
             /\ Column(mdb.columns, KeptColumns(a)[i].name) = KeptColumns(a)[i]
             /\ KeptColumns(a)[i] \in Columns
             /\ KeptColumns(a)[i].auto => KeptColumns(a)[i].def = NoDefault
  <2> USE <1>KeptIsColumn
  <2> DEFINE M == mdb.columns
  <2> PICK j \in 1 .. Len(M) : KeptColumns(a)[i] = M[j]
    BY Zenon DEF IsKept
  <2> M \in Seq(Columns) /\ Distinct(M) /\ WellFormed(mdb)
    BY Zenon DEF Definition
  <2>3. M[j].auto => M[j].def = NoDefault
    <3> DOMAIN mdb.columns = 1 .. Len(mdb.columns)
      OBVIOUS
    <3> QED
      BY Zenon DEF WellFormed
  <2> HIDE DEF M
  <2>4. Column(M, M[j].name) = M[j]
    BY ColumnAt, Zenon
  <2> M[j].name \in Names(M)
    BY NamesOf, Zenon
  <2> M[j] \in Columns
    OBVIOUS
  <2> QED
    BY <2>3, <2>4, Zenon DEF M
<1>TypeAfter.
      ASSUME NEW a, Definition(a), NEW i, IsKept(a, i), NEW d,
             IF KeptColumns(a)[i].name \in DOMAIN a.change
             THEN ChangedTo(d, KeptColumns(a)[i], AlteredColumns(a)[i])
             ELSE AsBefore(d, KeptColumns(a)[i]),
             AlteredColumns(a)[i].name \notin RetypedAfter(a)
      PROVE  d.type = AlteredColumns(a)[i].type
  <2> USE <1>TypeAfter
  <2> DEFINE c == KeptColumns(a)[i]
             new == AlteredColumns(a)[i]
  <2> c.name \notin a.drop /\ Alteration(c, a, new)
    BY Zenon DEF IsKept
  <2>2. new.name = NewName(c.name, a)
    BY Zenon DEF Alteration
  <2> /\ c.name \notin retyped
      /\ c.name \in DOMAIN a.change => a.change[c.name].type = Column(mdb.columns, c.name).type
    BY <2>2, Zenon DEF RetypedAfter, KeptNames
  <2>4. Column(mdb.columns, c.name) = c
    BY <1>KeptIsColumn, Zenon
  <2> d.type = c.type
    BY Zenon DEF ChangedTo, AsBefore
  <2> new.type = c.type
    BY <2>4, Zenon DEF Alteration
  <2> QED
    BY Zenon
  (* y is the column before PrimaryKeyConvertor, d after it. *)
<1>NotNullAfter.
      ASSUME NEW a, Definition(a), NEW i, IsKept(a, i), NEW y, NEW d,
             IF KeptColumns(a)[i].name \in DOMAIN a.change
             THEN ChangedTo(y, KeptColumns(a)[i], AlteredColumns(a)[i])
             ELSE AsBefore(y, KeptColumns(a)[i]),
             IF a.add_pk # {} /\ AlteredColumns(a)[i] \in IsKey(a)
             THEN d.notnull = TRUE ELSE d.notnull = y.notnull
      PROVE  d.notnull = AlteredColumns(a)[i].notnull
  <2> USE <1>NotNullAfter
  <2> DEFINE c == KeptColumns(a)[i]
             new == AlteredColumns(a)[i]
  <2>1. i \in 1 .. Len(AlteredColumns(a)) /\ Alteration(c, a, new)
    BY Zenon DEF IsKept
  <2>2. new \in ToSet(AlteredColumns(a)) /\ new \in Columns
    <3> AlteredColumns(a) \in Seq(Columns)
      BY Zenon DEF Definition
    <3> QED
      BY <2>1, WhereIn, Zenon
  <2>3. new.notnull \in BOOLEAN
    BY <2>2, Zenon DEF Columns
  <2>4. ASSUME new.notnull PROVE new.notnull = TRUE
    BY <2>3, <2>4, Zenon
  <2>5. ASSUME new \in IsKey(a) PROVE new.notnull
    BY <2>5, Zenon DEF IsKey
  <2>6. CASE a.add_pk # {} /\ new \in IsKey(a)
    BY <2>4, <2>5, <2>6, Zenon
  <2>7. CASE ~(a.add_pk # {} /\ new \in IsKey(a))
    <3>1. new.name \notin a.add_pk
      <4> SUFFICES ASSUME new.name \in a.add_pk PROVE FALSE
        BY Zenon
      <4>2. new.notnull /\ a.add_pk # {}
        BY <2>1, Zenon DEF Alteration
      <4> Altered(a).pk = a.add_pk \cup (IF a.drop_pk THEN {}
                                         ELSE {NewName(n, a) : n \in mdb.pk \ a.drop})
        BY Zenon DEF Altered
      <4> new.name \in Altered(a).pk
        BY Zenon
      <4> QED
        BY <2>2, <2>7, <4>2, Zenon DEF IsKey
    <3> d.notnull = y.notnull
      BY <2>7, Zenon
    <3> CASE c.name \in DOMAIN a.change
      BY Zenon DEF ChangedTo
    <3> CASE c.name \notin DOMAIN a.change
      BY <2>1, <3>1, Zenon DEF AsBefore, Alteration
    <3> QED
      BY Zenon
  <2> QED
    BY <2>6, <2>7, Zenon
  (* The convertors accept an AUTO_INCREMENT column only where it was one before
     and the ALTER does not change it. *)
<1>AutoStays.
      ASSUME NEW a, Ready(a), ~AddColumnRejected(a), ~ChangeColumnRejected(a),
             NEW i \in 1 .. Len(AlteredColumns(a)), AlteredColumns(a)[i].auto
      PROVE  /\ IsKept(a, i)
             /\ KeptColumns(a)[i].name \notin DOMAIN a.change
             /\ KeptColumns(a)[i].auto
             /\ AlteredColumns(a)[i].def = NoDefault
  <2> USE <1>AutoStays
  <2> DEFINE M == mdb.columns
             A == AddedColumns(a)
             K == KeptColumns(a)
             C == ChangedColumns(a)
             New == AlteredColumns(a)
  <2>1. Definition(a) /\ (IsKept(a, i) \/ \E k : IsNew(a, i, k))
    BY PositionFacts, Zenon
  <2>2. ~a.order /\ a \in Alters /\ Valid(a) /\ M \in Seq(Columns) /\ Distinct(M)
    BY ReadyFacts, Zenon
  <2>3. ASSUME NEW k, IsNew(a, i, k) PROVE FALSE
    <3>1. k \in 1 .. Len(A) /\ New[i] = A[k]
      BY <2>3, Zenon DEF IsNew
    <3>2. Len(A) = Len(a.add) /\ \A l \in 1 .. Len(a.add) : A[l].auto = a.add[l].auto
      BY <2>2, AddedFacts, Zenon
    <3> DOMAIN a.add = 1 .. Len(a.add)
      <4> a.add \in Seq(Columns)
        BY <2>2, AltersAssumption, Zenon
      <4> QED
        OBVIOUS
    <3> k \in DOMAIN a.add /\ a.add[k].auto
      BY <3>1, <3>2, Zenon
    <3> QED
      BY Zenon DEF AddColumnRejected, FieldRejected
  <2>4. IsKept(a, i)
    BY <2>1, <2>3, Zenon
  <2>5. K[i].name \notin DOMAIN a.change
    <3> SUFFICES ASSUME K[i].name \in DOMAIN a.change PROVE FALSE
      BY Zenon
    <3>1. i \in 1 .. Len(K)
      BY <2>4, Zenon DEF IsKept
    <3>2. \E k \in 1 .. Len(C) : ChangedAt(a, k, i)
      BY <2>2, <3>1, ChangedFacts, Zenon
    <3>3. PICK k \in 1 .. Len(C) : ChangedAt(a, k, i)
      BY <3>2, Zenon
    <3>4. C[k].new.auto
      BY <3>3, Zenon DEF ChangedAt
    <3> C \in Seq(Pairs)
      BY <2>2, ChangedFacts, Zenon
    <3> DOMAIN C = 1 .. Len(C)
      <4> HIDE DEF C
      <4> QED
        OBVIOUS
    <3> QED
      BY <3>4, Zenon DEF ChangeColumnRejected, FieldRejected
  <2>6. K[i].auto
    BY <2>4, <2>5, Zenon DEF IsKept, Alteration
  <2> New[i].def = NoDefault
    <3> New \in Seq(Columns) /\ WellFormed(Altered(a)) /\ Altered(a).columns = New
      BY <2>1, Zenon DEF Definition, Altered
    <3> DOMAIN New = 1 .. Len(New)
      <4> HIDE DEF New
      <4> QED
        OBVIOUS
    <3> QED
      BY Zenon DEF WellFormed
  <2> QED
    BY <2>4, <2>5, <2>6, Zenon
  (* A column whose default no convertor sent, and that is not in frozen
     afterwards, was not in it before. *)
<1>FrozenStays.
      ASSUME NEW a, Ready(a), NEW i, IsKept(a, i),
             AlteredColumns(a)[i].name \notin FrozenAfter(a),
             ~Redefined(a, AlteredColumns(a)[i]),
             KeptColumns(a)[i].name \in DOMAIN a.change =>
                ~Sent(KeptColumns(a)[i], AlteredColumns(a)[i])
      PROVE  KeptColumns(a)[i].name \notin frozen
  <2> USE <1>FrozenStays
  <2> DEFINE M == mdb.columns
             K == KeptColumns(a)
             C == ChangedColumns(a)
             New == AlteredColumns(a)
  <2>1. /\ Definition(a) /\ New \in Seq(Columns) /\ Distinct(New)
        /\ \A m \in 1 .. Len(K) : IsKept(a, m)
    BY PositionFacts, Zenon DEF Definition
  <2>2. ~a.order /\ a \in Alters /\ Valid(a) /\ M \in Seq(Columns) /\ Distinct(M)
    BY ReadyFacts, Zenon
  <2>3. /\ i \in 1 .. Len(New) /\ i \in 1 .. Len(K)
        /\ K[i].name \notin a.drop /\ New[i].name = NewName(K[i].name, a)
    BY Zenon DEF IsKept, Alteration
  <2>4. New[i].name \notin SentNames(a)
    <3> SUFFICES ASSUME New[i].name \in SentNames(a) PROVE FALSE
      BY Zenon
    <3>1. PICK p \in ToSet(C) : DefaultIsSent(p) /\ p.new.name = New[i].name
      BY Zenon DEF SentNames
    <3>2. C \in Seq(Pairs)
      BY <2>2, ChangedFacts, Zenon
    <3>3. PICK k \in 1 .. Len(C) : p = C[k]
      <4> HIDE DEF C
      <4> DOMAIN C = 1 .. Len(C)
        BY <3>2
      <4> QED
        BY <3>1, Zenon DEF ToSet
    <3>4. \E m \in 1 .. Len(K) : ChangedAt(a, k, m) /\ K[m].name \in DOMAIN a.change
      BY <2>2, ChangedFacts, Zenon
    <3>5. PICK m \in 1 .. Len(K) : ChangedAt(a, k, m) /\ K[m].name \in DOMAIN a.change
      BY <3>4, Zenon
    <3> p.old = K[m] /\ p.new = New[m]
      BY <3>3, <3>5, Zenon DEF ChangedAt
    <3>7. m \in 1 .. Len(New)
      BY <2>1, Zenon DEF IsKept
    <3> m = i
      BY <2>1, <2>3, <3>1, <3>7, Zenon DEF Distinct
    <3> Sent(K[i], New[i])
      BY <3>1, Zenon DEF Sent, DefaultIsSent
    <3> QED
      BY <3>5, Zenon
  <2> New[i].name \notin RedefinedNames(a)
    <3> SUFFICES ASSUME New[i].name \in RedefinedNames(a) PROVE FALSE
      BY Zenon
    <3> DEFINE D == Where(New, Differs(a))
               S == Differs(a)
    <3>1. DOMAIN a.setdef # {} /\ New[i].name \in Names(D)
      BY Zenon DEF RedefinedNames, DefaultChanged, Differs
    <3>2. New[i] \notin S
      BY <3>1, Zenon DEF Redefined
    <3> HIDE DEF S, New
    <3>3. /\ Where(New, S) \in Seq(Columns)
          /\ \A k \in 1 .. Len(Where(New, S)) :
                Where(New, S)[k] \in S /\ \E j \in 1 .. Len(New) : Where(New, S)[k] = New[j]
      BY <2>1, WhereFacts
    <3> /\ D \in Seq(Columns)
        /\ \A k \in 1 .. Len(D) : D[k] \in S /\ \E j \in 1 .. Len(New) : D[k] = New[j]
      BY <3>3, Zenon DEF S
    <3> HIDE DEF D
    <3> PICK k \in 1 .. Len(D) : D[k].name = New[i].name
      BY <3>1, NamedAt, ZenonT(30)
    <3> PICK j \in 1 .. Len(New) : D[k] = New[j]
      BY Zenon
    <3> j = i
      BY <2>1, <2>3, Zenon DEF Distinct
    <3> QED
      BY <3>2, Zenon
  <2> QED
    BY <2>3, <2>4, Zenon DEF FrozenAfter, KeptNames
  (* Both forms of no default are the same to DuckDB. *)
<1>KeyDefForwarded.
      ASSUME NEW d
      PROVE  ForwardedDefault(KeyDef(d)) = ForwardedDefault(d)
  <2> USE <1>KeyDefForwarded
  <2> ForwardedDefault(NoDefault) = Null /\ ForwardedDefault(Null) = Null
    BY Zenon DEF ForwardedDefault
  <2> QED
    BY Zenon DEF KeyDef
  (* The default of a column that stays. *)
<1>KeptDefault.
      ASSUME NEW a, Ready(a), ~AddColumnRejected(a), ~ChangeColumnRejected(a),
             NEW i, IsKept(a, i), NEW x, NEW d,
             IF KeptColumns(a)[i].name \in DOMAIN a.change
             THEN ChangedTo(x, KeptColumns(a)[i], AlteredColumns(a)[i])
             ELSE AsBefore(x, KeptColumns(a)[i]),
             d = IF Redefined(a, AlteredColumns(a)[i])
                 THEN ForwardedDefault(AlteredColumns(a)[i].def) ELSE x.def,
             AlteredColumns(a)[i].name \notin FrozenAfter(a)
      PROVE  SameDefault(d, FieldTranslate(AlteredColumns(a)[i]).def)
  <2> USE <1>KeptDefault
  <2> DEFINE c == KeptColumns(a)[i]
             new == AlteredColumns(a)[i]
  <2>1. /\ FieldTranslate(new).def = IF new.auto THEN <<"nextval">> ELSE ForwardedDefault(new.def)
        /\ FieldTranslate(c).def = IF c.auto THEN <<"nextval">> ELSE ForwardedDefault(c.def)
    BY Zenon DEF FieldTranslate
  <2>2. /\ i \in 1 .. Len(AlteredColumns(a)) /\ Alteration(c, a, new)
        /\ new.name = NewName(c.name, a)
    BY Zenon DEF IsKept, Alteration
  <2>3. Definition(a)
    BY PositionFacts, Zenon
  <2>4. /\ Column(mdb.columns, c.name) = c /\ c.name \in Names(mdb.columns)
        /\ c.auto => c.def = NoDefault
    BY <2>3, <1>KeptIsColumn, Zenon
  <2>5. new.auto => c.name \notin DOMAIN a.change /\ c.auto /\ new.def = NoDefault
    BY <2>2, <1>AutoStays, Zenon
  <2>6. c.name \notin DOMAIN a.change => new.name = c.name
    BY <2>2, Zenon DEF NewName
  <2>7. CASE Redefined(a, new)
    <3> Column(mdb.columns, new.name).def # new.def
      BY <2>7, SameItself, Zenon DEF Redefined, Differs
    <3> ~new.auto
      BY <2>4, <2>5, <2>6, Zenon
    <3> d = FieldTranslate(new).def
      BY <2>1, <2>7, Zenon
    <3> QED
      BY SameItself, Zenon
  <2>8. CASE ~Redefined(a, new) /\ c.name \in DOMAIN a.change
    <3> d = x.def /\ ChangedTo(x, c, new) /\ ~new.auto
      BY <2>5, <2>8, Zenon
    <3>2. CASE Sent(c, new)
      <4> d = FieldTranslate(new).def
        BY <2>1, <3>2, Zenon DEF ChangedTo
      <4> QED
        BY SameItself, Zenon
    <3> CASE ~Sent(c, new)
      <4>1. c.name \notin frozen
        BY <2>8, <1>FrozenStays, Zenon
      <4> SameDefault(x.def, FieldTranslate(c).def)
        BY <4>1, Zenon DEF ChangedTo
      <4> c.def = new.def /\ ~c.auto
        BY <2>4, Zenon DEF Sent
      <4> QED
        BY <2>1, Zenon
    <3> QED
      BY <3>2, Zenon
  <2> CASE ~Redefined(a, new) /\ c.name \notin DOMAIN a.change
    <3>1. d = x.def /\ AsBefore(x, c)
      BY Zenon
    <3>2. c.name \notin frozen
      BY <1>FrozenStays, Zenon
    <3>3. SameDefault(d, FieldTranslate(c).def)
      BY <3>1, <3>2, Zenon DEF AsBefore
    <3>4. new.auto = c.auto
      BY <2>2, Zenon DEF Alteration
    <3>5. SameDefault(ForwardedDefault(c.def), ForwardedDefault(new.def))
      <4>1. CASE c.name \in DOMAIN a.setdef
        <5>1. DOMAIN a.setdef # {}
          BY <4>1, Zenon
        <5>2. new \in ToSet(AlteredColumns(a))
          BY <2>2, <2>3, WhereIn, Zenon DEF Definition
        <5> new \notin Differs(a)
          BY <5>1, Zenon DEF Redefined
        <5> SameDefault(c.def, new.def)
          BY <2>4, <2>6, <5>2, Zenon DEF Differs
        <5> QED
          BY SameForwarded, Zenon
      <4> CASE c.name \notin DOMAIN a.setdef
        <5> new.def = c.def \/ new.def = KeyDef(c.def)
          BY <2>2, Zenon DEF Alteration
        <5> ForwardedDefault(c.def) = ForwardedDefault(new.def)
          BY <1>KeyDefForwarded, Zenon
        <5> QED
          BY SameItself, Zenon
      <4> QED
        BY <4>1, Zenon
    <3>6. SameDefault(FieldTranslate(c).def, FieldTranslate(new).def)
      BY <2>1, <3>4, <3>5, SameItself, Zenon
    <3> QED
      BY <3>3, <3>6, SameChain, Zenon
  <2> QED
    BY <2>7, <2>8, Zenon
  (* The default of an added column: nothing is left of the temporary one. *)
<1>AddedDefaultAgrees.
      ASSUME NEW a, Ready(a), ~AddColumnRejected(a), ~ChangeColumnRejected(a),
             NEW i \in 1 .. Len(AlteredColumns(a)), NEW k, IsNew(a, i, k), NEW x, NEW d,
             IsAdded(x, AddedColumns(a)[k]),
             d = IF Redefined(a, AlteredColumns(a)[i])
                 THEN ForwardedDefault(AlteredColumns(a)[i].def) ELSE x.def,
             AlteredColumns(a)[i].name \notin FrozenAfter(a)
      PROVE  d = FieldTranslate(AlteredColumns(a)[i]).def
  <2> USE <1>AddedDefaultAgrees
  <2> DEFINE c == AddedColumns(a)[k]
             new == AlteredColumns(a)[i]
  <2>1. k \in 1 .. Len(AddedColumns(a)) /\ new = c /\ i = Len(KeptColumns(a)) + k
    BY Zenon DEF IsNew
  <2>2. ~IsKept(a, i)
    <3> KeptColumns(a) \in Seq(Columns) /\ AddedColumns(a) \in Seq(Columns)
      BY PositionFacts, Zenon DEF Definition
    <3> i \notin 1 .. Len(KeptColumns(a))
      BY <2>1
    <3> QED
      BY Zenon DEF IsKept
  <2>3. ~new.auto
    BY <2>2, <1>AutoStays, Zenon
  <2>4. FieldTranslate(new).def = ForwardedDefault(c.def)
    BY <2>1, <2>3, Zenon DEF FieldTranslate
  <2>5. a \in Alters
    BY Zenon DEF Ready
  <2>6. /\ k \in 1 .. Len(a.add)
        /\ c.name = a.add[k].name /\ c.on_update = a.add[k].on_update
        /\ c.def = a.add[k].def \/ c.def = KeyDef(a.add[k].def)
    BY <2>1, <2>5, AddedFacts, Zenon
  <2>7. ~a.add[k].on_update /\ a.add[k].def \notin Exprs
    <3>1. a.add \in Seq(Columns)
      BY <2>5, AltersAssumption, Zenon
    <3> a.add[k] \in ToSet(a.add)
      BY <2>6, <3>1, WhereIn, Zenon
    <3> a.add[k].name \notin Computed(a)
      BY <2>1, <2>6, Zenon DEF FrozenAfter
    <3> QED
      BY Zenon DEF Computed
  <2> ~c.on_update /\ c.def \notin Exprs
    <3> NoDefault \notin Exprs
      BY DefaultsAssumption, Zenon
    <3> QED
      BY <2>6, <2>7, Zenon DEF KeyDef
  <2> x.def = ForwardedDefault(c.def)
    <3>1. x.def = IF c.notnull /\ c.def = NoDefault THEN Null ELSE AddedDefault(c)
      BY Zenon DEF IsAdded
    <3>2. CASE c.def = NoDefault
      BY <3>1, <3>2, Zenon DEF AddedDefault, ForwardedDefault
    <3>3. CASE c.def # NoDefault /\ c.def \in SequenceExprs
      BY <3>1, <3>3, Zenon DEF AddedDefault, ForwardedDefault
    <3> CASE c.def # NoDefault /\ c.def \notin SequenceExprs
      <4>1. c.def \notin ConstantExprs
        BY DefaultsAssumption, Zenon
      <4>2. Materialised(c.def) = c.def
        BY <4>1, Zenon DEF Materialised
      <4> AddedDefault(c) = c.def
        BY <4>2, Zenon DEF AddedDefault
      <4> ForwardedDefault(c.def) = c.def
        BY Zenon DEF ForwardedDefault
      <4> QED
        BY <3>1, Zenon
    <3> QED
      BY <3>2, <3>3, Zenon
  <2> QED
    BY <2>1, <2>4, Zenon
<1> SUFFICES ASSUME NEW a, Ready(a), ~AddColumnRejected(a), ~ChangeColumnRejected(a), NEW drop_list,
                    NEW X, NEW Y, NEW R, Outcomes(a, drop_list, X, Y, R)
             PROVE  ColumnsFit(a, R)
  BY Zenon
<1> DEFINE A == AddedColumns(a)
           K == KeptColumns(a)
           New == AlteredColumns(a)
<1>1. /\ X \in Seq(DuckColumns)
      /\ Len(X) = Len(New)
      /\ \A i \in 1 .. Len(X) : X[i].name = New[i].name
      /\ \A i \in 1 .. Len(K) : IF K[i].name \in DOMAIN a.change
                                THEN ChangedTo(X[i], K[i], New[i]) ELSE AsBefore(X[i], K[i])
      /\ \A k \in 1 .. Len(A) : IsAdded(X[Len(K) + k], A[k])
  BY Zenon DEF Outcomes, WithChanged
<1>2. /\ Y \in Seq(DuckColumns)
      /\ Len(Y) = Len(X)
      /\ \A i \in 1 .. Len(X) :
            /\ Y[i].name = X[i].name /\ Y[i].type = X[i].type /\ Y[i].notnull = X[i].notnull
            /\ Y[i].def = IF Redefined(a, New[i]) THEN ForwardedDefault(New[i].def) ELSE X[i].def
  BY Zenon DEF Outcomes, WithDefaults
<1>3. /\ R \in Seq(DuckColumns)
      /\ Len(R) = Len(Y)
      /\ \A i \in 1 .. Len(Y) :
            /\ R[i].name = Y[i].name /\ R[i].type = Y[i].type /\ R[i].def = Y[i].def
            /\ IF a.add_pk # {} /\ New[i] \in IsKey(a)
               THEN R[i].notnull = TRUE ELSE R[i].notnull = Y[i].notnull
  BY Zenon DEF Outcomes, WithKeys
<1>4. /\ Definition(a) /\ New \in Seq(Columns)
      /\ \A i \in 1 .. Len(New) : IsKept(a, i) \/ \E k : IsNew(a, i, k)
  BY PositionFacts, Zenon DEF Definition
<1>5. ASSUME NEW i \in 1 .. Len(R)
      PROVE  /\ R[i].name = New[i].name
             /\ R[i].notnull = New[i].notnull
             /\ R[i].name \notin RetypedAfter(a) => R[i].type = New[i].type
             /\ R[i].name \notin FrozenAfter(a) => SameDefault(R[i].def, FieldTranslate(New[i]).def)
  <2>1. i \in 1 .. Len(Y) /\ i \in 1 .. Len(X) /\ i \in 1 .. Len(New)
    BY <1>1, <1>2, <1>3, Zenon
  <2> /\ R[i].name = New[i].name
      /\ R[i].type = X[i].type
      /\ R[i].def = IF Redefined(a, New[i]) THEN ForwardedDefault(New[i].def) ELSE X[i].def
      /\ IF a.add_pk # {} /\ New[i] \in IsKey(a)
         THEN R[i].notnull = TRUE ELSE R[i].notnull = X[i].notnull
    BY <1>1, <1>2, <1>3, <2>1, ZenonT(30)
  <2>3. CASE IsKept(a, i)
    <3> IF K[i].name \in DOMAIN a.change
        THEN ChangedTo(X[i], K[i], New[i]) ELSE AsBefore(X[i], K[i])
      BY <1>1, <2>3, Zenon DEF IsKept
    <3>2. R[i].notnull = New[i].notnull
      BY <1>4, <2>3, <1>NotNullAfter, ZenonT(60)
    <3> ASSUME R[i].name \notin RetypedAfter(a) PROVE R[i].type = New[i].type
      BY <1>4, <2>3, <1>TypeAfter, Zenon
    <3> ASSUME R[i].name \notin FrozenAfter(a)
        PROVE  SameDefault(R[i].def, FieldTranslate(New[i]).def)
      BY <2>3, <1>KeptDefault, Zenon
    <3> QED
      BY <3>2, Zenon
  <2>4. ASSUME NEW k, IsNew(a, i, k)
        PROVE  /\ R[i].notnull = New[i].notnull
               /\ R[i].type = New[i].type
               /\ R[i].name \notin FrozenAfter(a) => SameDefault(R[i].def, FieldTranslate(New[i]).def)
    <3>1. New[i] = A[k] /\ IsAdded(X[i], A[k])
      BY <1>1, <2>4, Zenon DEF IsNew
    <3>2. R[i].type = New[i].type
      BY <3>1, Zenon DEF IsAdded
    <3> R[i].notnull = New[i].notnull
      <4>1. New[i] \in Columns /\ X[i] \in DuckColumns
        BY <1>1, <1>4, <2>1, WhereIn, Zenon
      <4> New[i].notnull \in BOOLEAN /\ X[i].notnull \in BOOLEAN
        BY <4>1, Zenon DEF Columns, DuckColumns
      <4>3. X[i].notnull <=> New[i].notnull
        BY <3>1, Zenon DEF IsAdded
      <4> X[i].notnull = New[i].notnull
        BY <4>3, Zenon
      <4> New[i] \in IsKey(a) => New[i].notnull = TRUE
        BY Zenon DEF IsKey
      <4> QED
        BY Zenon
    <3> ASSUME R[i].name \notin FrozenAfter(a)
        PROVE  SameDefault(R[i].def, FieldTranslate(New[i]).def)
      BY <2>1, <2>4, <3>1, <1>AddedDefaultAgrees, SameItself, Zenon
    <3> QED
      BY <3>2, Zenon
  <2> QED
    BY <1>4, <2>1, <2>3, <2>4, Zenon
<1> QED
  BY <1>1, <1>2, <1>3, <1>5, Zenon DEF ColumnsFit

---------------------------------------------------------------------------
(* The columns after the additions, the drops and the renames *)

WithAdded(a, X) ==
    /\ X \in Seq(DuckColumns)
    /\ Len(X) = Len(duck) + Len(AddedColumns(a))
    /\ \A i \in 1 .. Len(duck) : X[i] = duck[i]
    /\ \A k \in 1 .. Len(AddedColumns(a)) :
          /\ AddedColumns(a)[k].name \notin Names(mdb.columns)
          /\ IsAdded(X[Len(duck) + k], AddedColumns(a)[k])

(* The renames of ChangeColumnConvertor: a chain of renames works only if each
   name is free when it is taken. *)
RenameEffect(X, R, C) ==
    /\ R \in Seq(DuckColumns)
    /\ Len(R) = Len(X)
    /\ \A i \in 1 .. Len(X) :
          /\ R[i].type = X[i].type /\ R[i].notnull = X[i].notnull /\ R[i].def = X[i].def
          /\ (\A k \in 1 .. Len(C) : C[k].old.name # X[i].name) => R[i].name = X[i].name
          /\ \A k \in 1 .. Len(C) : C[k].old.name = X[i].name => R[i].name = C[k].new.name
          /\ \A k \in 1 .. Len(C) :
                C[k].old.name # C[k].new.name /\ C[k].new.name = X[i].name =>
                   \E m \in 1 .. Len(C) : C[m].old.name = X[i].name

(* After the drops: the columns that stay, as they were, then the added ones. *)
WithKept(a, Y) ==
    /\ Y \in Seq(DuckColumns)
    /\ Len(Y) = Len(KeptColumns(a)) + Len(AddedColumns(a))
    /\ \A i \in 1 .. Len(KeptColumns(a)) : Agree(Y[i], KeptColumns(a)[i])
    /\ \A k \in 1 .. Len(AddedColumns(a)) :
          IsAdded(Y[Len(KeptColumns(a)) + k], AddedColumns(a)[k])

WithRenamed(a, Z) ==
    /\ Z \in Seq(DuckColumns)
    /\ Len(Z) = Len(AlteredColumns(a))
    /\ \A i \in 1 .. Len(Z) : Z[i].name = AlteredColumns(a)[i].name
    /\ \A i \in 1 .. Len(KeptColumns(a)) : AsBefore(Z[i], KeptColumns(a)[i])
    /\ \A k \in 1 .. Len(AddedColumns(a)) :
          IsAdded(Z[Len(KeptColumns(a)) + k], AddedColumns(a)[k])

(* The columns of X that no column of src in S names. *)
NotDropped(X, src, S) ==
    {c \in ToSet(X) : \A j \in 1 .. Len(src) : src[j] \in S => src[j].name # c.name}

(* A column a statement renames is still there. *)
LEMMA RenamedStays ==
    ASSUME NEW a, Ready(a), NEW drop_list, NEW X, WithAdded(a, X), NEW Y,
           Y = Where(X, NotDropped(X, mdb.columns, GoneIf(a, drop_list)))
    PROVE  /\ Y \in Seq(DuckColumns)
           /\ \A j \in 1 .. Len(mdb.columns) :
                 mdb.columns[j] \notin GoneIf(a, drop_list) => mdb.columns[j].name \in Names(Y)
           /\ \A k \in 1 .. Len(ChangedColumns(a)) : ChangedColumns(a)[k].old.name \in Names(Y)
<1> DEFINE M == mdb.columns
           G == GoneIf(a, drop_list)
           T == NotDropped(X, M, G)
           C == ChangedColumns(a)
           K == KeptColumns(a)
<1>1. /\ a \in Alters /\ ~a.order /\ Valid(a) /\ duck \in Seq(DuckColumns)
      /\ M \in Seq(Columns) /\ Distinct(M) /\ Len(duck) = Len(M)
      /\ \A j \in 1 .. Len(duck) : Agree(duck[j], M[j])
  BY ReadyFacts, Zenon
<1>2. /\ X \in Seq(DuckColumns) /\ \A i \in 1 .. Len(duck) : X[i] = duck[i]
      /\ Len(X) = Len(duck) + Len(AddedColumns(a))
  BY Zenon DEF WithAdded
<1>3. /\ Y \in Seq(DuckColumns)
      /\ \A i \in 1 .. Len(X) : X[i] \in T => \E q \in 1 .. Len(Y) : Y[q] = X[i]
  <2> HIDE DEF T
  <2>1. X \in Seq(DuckColumns)
    BY <1>2, Zenon
  <2> /\ Where(X, T) \in Seq(DuckColumns)
      /\ \A i \in 1 .. Len(X) :
            X[i] \in T => \E k \in 1 .. Len(Where(X, T)) : Where(X, T)[k] = X[i]
    BY <2>1, WhereFacts, SMTT(30), Zenon
  <2> Y = Where(X, T)
    BY Zenon DEF T
  <2> QED
    BY Zenon
<1>4. ASSUME NEW j \in 1 .. Len(M), M[j] \notin G
      PROVE  M[j].name \in Names(Y)
  <2>1. j \in 1 .. Len(duck) /\ j \in 1 .. Len(X)
    <3> Len(AddedColumns(a)) \in Nat
      BY <1>1, AddedFacts
    <3> QED
      BY <1>1, <1>2, SMTT(30), Zenon
  <2>2. X[j] = duck[j] /\ duck[j].name = M[j].name
    BY <1>1, <1>2, <2>1, Zenon DEF Agree
  <2>3. X[j] \in ToSet(X)
    BY <1>2, <2>1, WhereIn, Zenon
  <2>4. ASSUME NEW l \in 1 .. Len(M), M[l] \in G
        PROVE  M[l].name # X[j].name
    BY <1>1, <1>4, <2>2, <2>4, Zenon DEF Distinct
  <2>5. X[j] \in T
    BY <2>3, <2>4, Zenon DEF NotDropped
  <2> PICK q \in 1 .. Len(Y) : Y[q] = X[j]
    BY <1>3, <2>1, <2>5, Zenon
  <2> Y[q].name \in Names(Y)
    BY <1>3, NamesOf, Zenon
  <2> QED
    BY <2>2, ZenonT(30)
<1>5. ASSUME NEW k \in 1 .. Len(C)
      PROVE  C[k].old.name \in Names(Y)
  <2>1. \E i \in 1 .. Len(K) : ChangedAt(a, k, i) /\ K[i].name \in DOMAIN a.change
    BY <1>1, ChangedFacts, Zenon
  <2>2. PICK i \in 1 .. Len(K) : ChangedAt(a, k, i) /\ K[i].name \in DOMAIN a.change
    BY <2>1, Zenon
  <2>3. C[k].old = K[i]
    BY <2>2, Zenon DEF ChangedAt
  <2>4. \E j \in 1 .. Len(M) : K[i] = M[j]
    BY <1>1, KeptFacts, ZenonT(30)
  <2> PICK j \in 1 .. Len(M) : K[i] = M[j]
    BY <2>4, Zenon
  <2> M[j].name \in DOMAIN a.change /\ M[j].name \notin a.drop
    BY <1>1, <2>2, Zenon DEF Valid
  <2> M[j] \notin G
    BY Zenon DEF GoneIf, Gone
  <2> QED
    BY <1>4, <2>3, Zenon
<1> QED
  BY <1>3, <1>4, <1>5, Zenon

(* If all statements succeed, the columns dropped are the ones the ALTER drops,
   also when the drop list is gone and they are found by name: a dropped name
   that the new table has would be that of an added or a renamed column, and
   ADD COLUMN or RENAME COLUMN would have failed. *)
LEMMA GoneIsDropped ==
    ASSUME NEW a, Ready(a), NEW drop_list, NEW X, WithAdded(a, X), NEW Y,
           Y = Where(X, NotDropped(X, mdb.columns, GoneIf(a, drop_list))),
           NEW Z, RenameEffect(Y, Z, ChangedColumns(a)),
           NEW j \in 1 .. Len(mdb.columns)
    PROVE  mdb.columns[j] \in GoneIf(a, drop_list) <=> mdb.columns[j].name \in a.drop
<1> DEFINE M == mdb.columns
           G == GoneIf(a, drop_list)
           A == AddedColumns(a)
           C == ChangedColumns(a)
           K == KeptColumns(a)
           New == AlteredColumns(a)
           n == M[j].name
<1>1. /\ a \in Alters /\ ~a.order /\ Valid(a) /\ WellFormed(Altered(a))
      /\ M \in Seq(Columns) /\ Distinct(M)
  BY ReadyFacts, Zenon
<1>2. CASE a.drop = {}
  BY <1>2, Zenon DEF GoneIf
<1>3. CASE a.drop # {} /\ drop_list
  <2> M[j] \in ToSet(M)
    BY <1>1, WhereIn, Zenon
  <2> QED
    BY <1>3, Zenon DEF GoneIf, Gone
<1>4. CASE a.drop # {} /\ ~drop_list
  <2>1. M[j] \in ToSet(M)
    BY <1>1, WhereIn, Zenon
  <2>2. M[j] \in G <=> n \notin DOMAIN a.change /\ n \notin Names(New)
    BY <1>4, <2>1, Zenon DEF GoneIf, Gone
  <2>3. /\ New \in Seq(Columns)
        /\ Len(New) = Len(K) + Len(A)
        /\ \A i \in 1 .. Len(K) : Alteration(K[i], a, New[i])
        /\ \A k \in 1 .. Len(A) : New[Len(K) + k] = A[k]
    BY <1>1, NewFacts, Zenon
  <2>4. /\ K \in Seq(Columns)
        /\ \A i \in 1 .. Len(K) : K[i].name \notin a.drop
        /\ n \notin a.drop => \E i \in 1 .. Len(K) : K[i] = M[j]
    BY <1>1, KeptFacts, Zenon
  <2>5. A \in Seq(Columns)
    BY <1>1, AddedFacts, Zenon
  <2>6. ASSUME n \notin a.drop, n \notin DOMAIN a.change PROVE n \in Names(New)
    <3> PICK i \in 1 .. Len(K) : K[i] = M[j]
      BY <2>4, <2>6, Zenon
    <3>2. New[i].name = n
      BY <2>3, <2>6, ZenonT(30) DEF Alteration, NewName
    <3> HIDE DEF New, n, K, A
    <3> i \in 1 .. Len(New)
      BY <2>3, <2>4, <2>5, SMTT(30), Zenon
    <3> New[i].name \in Names(New)
      BY <2>3, NamesOf, Zenon
    <3> QED
      BY <3>2, Zenon
  <2>7. ASSUME n \in a.drop PROVE n \notin DOMAIN a.change
    BY <1>1, <2>7, Zenon DEF Valid
  <2>8. ASSUME n \in a.drop, n \in Names(New) PROVE FALSE
    <3>1. PICK q \in 1 .. Len(New) : New[q].name = n
      BY <2>3, <2>8, NamedAt, ZenonT(60)
    <3>2. M[j] \notin G
      BY <2>2, <2>8, Zenon
    <3>3. CASE q \in 1 .. Len(K)
      <4>1. K[q].name \notin a.drop /\ Alteration(K[q], a, New[q])
        BY <2>3, <2>4, <3>3, Zenon
      <4>2. K[q].name # n /\ NewName(K[q].name, a) = n
        BY <2>8, <3>1, <4>1, Zenon DEF Alteration
      <4>3. K[q].name \in DOMAIN a.change
        BY <4>2, Zenon DEF NewName
      <4>4. \E k \in 1 .. Len(C) : ChangedAt(a, k, q)
        BY <1>1, <3>3, <4>3, ChangedFacts, Zenon
      <4>5. PICK k \in 1 .. Len(C) : ChangedAt(a, k, q)
        BY <4>4, Zenon
      <4>6. C[k].old.name # n /\ C[k].new.name = n
        BY <3>1, <4>2, <4>5, Zenon DEF ChangedAt
      <4>7. n \in Names(Y) /\ Y \in Seq(DuckColumns)
        BY <3>2, RenamedStays, Zenon
      <4>8. PICK i \in 1 .. Len(Y) : Y[i].name = n
        BY <4>7, NamedAt, ZenonT(30)
      <4>9. PICK m \in 1 .. Len(C) : C[m].old.name = n
        <5> C[k].old.name # C[k].new.name /\ C[k].new.name = Y[i].name =>
               \E m \in 1 .. Len(C) : C[m].old.name = Y[i].name
          BY <4>5, <4>8, Zenon DEF RenameEffect
        <5> QED
          BY <4>6, <4>8, Zenon
      <4> \E i2 \in 1 .. Len(K) : ChangedAt(a, m, i2) /\ K[i2].name \in DOMAIN a.change
        BY <1>1, ChangedFacts, Zenon
      <4> n \in DOMAIN a.change
        BY <4>9, Zenon DEF ChangedAt
      <4> QED
        BY <2>7, <2>8, Zenon
    <3>4. CASE q \notin 1 .. Len(K)
      <4> DEFINE k == q - Len(K)
      <4> k \in 1 .. Len(A) /\ q = Len(K) + k
        <5> HIDE DEF New, K, A
        <5> QED
          BY <2>3, <2>4, <2>5, <3>1, <3>4, SMTT(30), ZenonT(30)
      <4> HIDE DEF k
      <4>2. A[k].name = n
        BY <2>3, <3>1, Zenon
      <4> A[k].name \notin Names(M)
        BY Zenon DEF WithAdded
      <4> n \in Names(M)
        BY <1>1, NamesOf, Zenon
      <4> QED
        BY <4>2, ZenonT(30)
    <3> QED
      BY <3>3, <3>4, Zenon
  <2> QED
    BY <2>2, <2>6, <2>7, <2>8, ZenonT(30)
<1> QED
  BY <1>2, <1>3, <1>4, Zenon

(* Two sequences of which the same positions are kept. *)
Parallel(v, w, s, t) ==
    /\ Len(v) = Len(w)
    /\ \A k \in 1 .. Len(v) : \E j \in 1 .. Len(s) : v[k] = s[j] /\ w[k] = t[j]

LEMMA ConcatFacts ==
    ASSUME NEW V, NEW s \in Seq(V), NEW t \in Seq(V)
    PROVE  /\ s \o t \in Seq(V) /\ Len(s \o t) = Len(s) + Len(t)
           /\ \A i \in 1 .. Len(s) : (s \o t)[i] = s[i]
           /\ \A k \in 1 .. Len(t) : (s \o t)[Len(s) + k] = t[k]
BY SMTT(30)

(* What is appended after a filtered sequence stays there. *)
LEMMA WhereConcat ==
    ASSUME NEW V, NEW s \in Seq(V), NEW t \in Seq(V), NEW S,
           \A j \in 1 .. Len(t) : t[j] \in S
    PROVE  Where(s \o t, S) = Where(s, S) \o t
<1> DEFINE st == s \o t
<1>1. Len(s) \in Nat /\ Len(t) \in Nat
  OBVIOUS
<1>2. /\ st \in Seq(V) /\ Len(st) = Len(s) + Len(t) /\ Len(st) \in Nat
      /\ \A j \in 1 .. Len(s) : st[j] = s[j]
      /\ \A j \in 1 .. Len(t) : st[Len(s) + j] = t[j]
  BY <1>1, ConcatFacts
<1> HIDE DEF st
<1>3. PICK p : Enumerates(p, Len(s), Positions(s, S)) /\ Where(s, S) = Through(p, s)
  BY WhereEnumerates, Zenon
<1>4. PICK r : Enumerates(r, Len(st), Positions(st, S)) /\ Where(st, S) = Through(r, st)
  BY <1>2, WhereEnumerates, Zenon
<1>5. /\ Len(p) \in Nat
      /\ \A k \in 1 .. Len(p) : p[k] \in 1 .. Len(s) /\ p[k] \in Positions(s, S)
      /\ \A k, l \in 1 .. Len(p) : k < l => p[k] < p[l]
  BY <1>1, <1>3, EnumerationFacts, Zenon
<1> DEFINE u == [k \in 1 .. Len(p) + Len(t) |->
                    IF k <= Len(p) THEN p[k] ELSE Len(s) + (k - Len(p))]
<1>6. /\ u \in Seq(1 .. Len(st)) /\ Len(u) = Len(p) + Len(t)
      /\ \A k \in 1 .. Len(p) : u[k] = p[k]
      /\ \A k \in 1 .. Len(t) : u[Len(p) + k] = Len(s) + k
  <2> \A k \in 1 .. Len(p) + Len(t) : u[k] \in 1 .. Len(st)
    BY <1>1, <1>2, <1>5, SMTT(30), Zenon
  <2> QED
    BY <1>1, <1>5, SMTT(30), Zenon
<1> HIDE DEF u
<1>7. \A k \in 1 .. Len(u) : k \in 1 .. Len(p) \/ \E i \in 1 .. Len(t) : k = Len(p) + i
  <2> \A k \in 1 .. Len(u) :
         k \in 1 .. Len(p) \/ (k - Len(p) \in 1 .. Len(t) /\ k = Len(p) + (k - Len(p)))
    BY <1>1, <1>5, <1>6, SMTT(30), Zenon
  <2> QED
    BY Zenon
<1>8. \A k, l \in 1 .. Len(u) : k < l => u[k] < u[l]
  <2> SUFFICES ASSUME NEW k \in 1 .. Len(u), NEW l \in 1 .. Len(u), k < l PROVE u[k] < u[l]
    BY Zenon
  <2>1. CASE l \in 1 .. Len(p)
    <3> k \in 1 .. Len(p)
      BY <1>5, <2>1
    <3> u[k] = p[k] /\ u[l] = p[l]
      BY <1>6, <2>1, Zenon
    <3> QED
      BY <1>5, <2>1, Zenon
  <2>2. CASE l \notin 1 .. Len(p)
    <3>1. PICK i \in 1 .. Len(t) : l = Len(p) + i
      BY <1>7, <2>2, Zenon
    <3>2. u[l] = Len(s) + i
      BY <1>6, <3>1, SMTT(30), Zenon
    <3>3. CASE k \in 1 .. Len(p)
      <4> u[k] = p[k] /\ p[k] \in 1 .. Len(s)
        BY <1>5, <1>6, <3>3, Zenon
      <4> QED
        BY <1>1, <3>2, SMTT(30), Zenon
    <3> CASE k \notin 1 .. Len(p)
      <4> PICK m \in 1 .. Len(t) : k = Len(p) + m
        BY <1>7, Zenon
      <4> u[k] = Len(s) + m
        BY <1>6, SMTT(30), ZenonT(30)
      <4> QED
        BY <1>1, <1>5, <3>1, <3>2, SMTT(30), Zenon
    <3> QED
      BY <3>3, Zenon
  <2> QED
    BY <2>1, <2>2, SMTT(30), Zenon
<1>9. ASSUME NEW j \in 1 .. Len(st)
      PROVE  j \in Positions(st, S) <=> \E k \in 1 .. Len(u) : u[k] = j
  <2>1. CASE j \in 1 .. Len(s)
    <3>1. j \in Positions(st, S) <=> j \in Positions(s, S)
      BY <1>2, <2>1, Zenon DEF Positions
    <3>2. j \in Positions(s, S) <=> \E k \in 1 .. Len(p) : p[k] = j
      BY <1>3, <2>1, Zenon DEF Enumerates
    <3> (\E k \in 1 .. Len(p) : p[k] = j) <=> \E k \in 1 .. Len(u) : u[k] = j
      <4> 1 .. Len(p) \subseteq 1 .. Len(u)
        BY <1>1, <1>5, <1>6, SMTT(30), ZenonT(30)
      <4> \A k \in 1 .. Len(u) : u[k] = j => k \in 1 .. Len(p)
        BY <1>1, <1>5, <1>6, <1>7, <2>1, SMTT(30), ZenonT(30)
      <4> QED
        BY <1>6, Zenon
    <3> QED
      BY <3>1, <3>2, Zenon
  <2>2. CASE j \notin 1 .. Len(s)
    <3> j - Len(s) \in 1 .. Len(t) /\ j = Len(s) + (j - Len(s))
      BY <1>1, <1>2, <2>2, SMTT(30), Zenon
    <3>2. st[j] \in S
      BY <1>2, Zenon
    <3> Len(p) + (j - Len(s)) \in 1 .. Len(u) /\ u[Len(p) + (j - Len(s))] = j
      <4> Len(p) + (j - Len(s)) \in 1 .. Len(p) + Len(t)
        BY <1>1, <1>5, SMTT(30), Zenon
      <4> QED
        BY <1>6, Zenon
    <3> j \in Positions(st, S)
      BY <3>2, Zenon DEF Positions
    <3> QED
      BY Zenon
  <2> QED
    BY <2>1, <2>2, Zenon
<1>10. Enumerates(u, Len(st), Positions(st, S))
  BY <1>6, <1>8, <1>9, Zenon DEF Enumerates
<1>11. u = r
  BY <1>2, <1>4, <1>10, EnumerationUnique, SMTT(30), Zenon
<1> Through(u, st) = Through(p, s) \o t
  <2> DEFINE a == Through(u, st)
             b == Through(p, s)
  <2>1. /\ a \in Seq(V) /\ Len(a) = Len(p) + Len(t)
        /\ \A k \in 1 .. Len(u) : a[k] = st[u[k]]
    BY <1>2, <1>6, SMTT(30), ZenonT(30) DEF Through
  <2>2. /\ b \in Seq(V) /\ Len(b) = Len(p)
        /\ \A k \in 1 .. Len(p) : b[k] = s[p[k]]
    BY <1>5 DEF Through
  <2> HIDE DEF a, b
  <2>3. /\ b \o t \in Seq(V) /\ Len(b \o t) = Len(p) + Len(t)
        /\ \A k \in 1 .. Len(p) : (b \o t)[k] = b[k]
        /\ \A k \in 1 .. Len(t) : (b \o t)[Len(p) + k] = t[k]
    <3> b \o t \in Seq(V) /\ Len(b \o t) = Len(b) + Len(t)
      BY <2>2, ConcatFacts, Zenon
    <3>2. Len(b \o t) = Len(p) + Len(t)
      BY <2>2, Zenon
    <3> \A k \in 1 .. Len(p) : (b \o t)[k] = b[k]
      BY <2>2, <1>5, SMTT(30), ZenonT(30)
    <3> \A k \in 1 .. Len(t) : (b \o t)[Len(p) + k] = t[k]
      BY <2>2, <1>1, <1>5, SMTT(30), ZenonT(30)
    <3> QED
      BY <3>2, SMTT(30), ZenonT(30)
  <2>4. ASSUME NEW k \in 1 .. Len(p) PROVE a[k] = (b \o t)[k]
    <3> k \in 1 .. Len(u) /\ u[k] = p[k] /\ p[k] \in 1 .. Len(s)
      BY <1>1, <1>5, <1>6, SMTT(30), ZenonT(30)
    <3>2. a[k] = st[p[k]]
      BY <2>1, Zenon
    <3> st[p[k]] = s[p[k]]
      BY <1>2, Zenon
    <3> b[k] = s[p[k]] /\ (b \o t)[k] = b[k]
      BY <2>2, <2>3, Zenon
    <3> QED
      BY <3>2, SMTT(30), Zenon
  <2>5. ASSUME NEW k \in 1 .. Len(t) PROVE a[Len(p) + k] = (b \o t)[Len(p) + k]
    <3> Len(p) + k \in 1 .. Len(u)
      BY <1>1, <1>5, <1>6
    <3> u[Len(p) + k] = Len(s) + k
      BY <1>6, Zenon
    <3> QED
      BY <1>2, <2>1, <2>3, ZenonT(60)
  <2>6. ASSUME NEW k \in 1 .. Len(a) PROVE a[k] = (b \o t)[k]
    <3> Len(a) = Len(u)
      BY <1>6, <2>1, Zenon
    <3> k \in 1 .. Len(p) \/ \E i \in 1 .. Len(t) : k = Len(p) + i
      BY <1>7, Zenon
    <3> QED
      BY <2>4, <2>5, Zenon
  <2> a = b \o t
    BY <2>1, <2>3, <2>6, SameSequence, SMTT(30), ZenonT(30)
  <2> QED
    BY Zenon DEF a, b
<1> QED
  BY <1>3, <1>4, <1>11, SMTT(30), Zenon DEF st

LEMMA KeptPart ==
    \A a, drop_list, X, Y :
       /\ Ready(a)
       /\ WithAdded(a, X)
       /\ Y = Where(X, NotDropped(X, mdb.columns, GoneIf(a, drop_list)))
       /\ \A j \in 1 .. Len(mdb.columns) :
             mdb.columns[j] \in GoneIf(a, drop_list) <=> mdb.columns[j].name \in a.drop
       => WithKept(a, Y)
<1>WhereParallel.
      ASSUME NEW V, NEW s \in Seq(V), NEW U, NEW t \in Seq(U), Len(s) = Len(t),
             NEW S, NEW T, \A j \in 1 .. Len(s) : s[j] \in S <=> t[j] \in T
      PROVE  Parallel(Where(s, S), Where(t, T), s, t)
  <2> USE <1>WhereParallel
  <2> DEFINE v == Where(s, S)
             w == Where(t, T)
  <2>1. Len(s) \in Nat
    OBVIOUS
  <2>2. Positions(s, S) = Positions(t, T)
    BY Zenon DEF Positions
  <2> PICK p : Enumerates(p, Len(s), Positions(s, S)) /\ v = Through(p, s)
    BY WhereEnumerates, Zenon
  <2>4. PICK q : Enumerates(q, Len(t), Positions(t, T)) /\ w = Through(q, t)
    BY WhereEnumerates, Zenon
  <2>5. p = q
    BY <2>1, <2>2, <2>4, EnumerationUnique, SMTT(30), Zenon
  <2> Len(p) \in Nat /\ \A m \in 1 .. Len(p) : p[m] \in 1 .. Len(s)
    BY <2>1, EnumerationFacts, Zenon
  <2> HIDE DEF v, w
  <2> /\ Len(v) = Len(p) /\ \A k \in 1 .. Len(p) : v[k] = s[p[k]]
      /\ Len(w) = Len(p) /\ \A k \in 1 .. Len(p) : w[k] = t[p[k]]
    BY <2>4, <2>5 DEF Through
  <2> \A k \in 1 .. Len(v) : \E j \in 1 .. Len(s) : v[k] = s[j] /\ w[k] = t[j]
    BY Zenon
  <2> QED
    BY Zenon DEF v, w, Parallel
<1> SUFFICES ASSUME NEW a, Ready(a), NEW drop_list, NEW X, WithAdded(a, X), NEW Y,
                    Y = Where(X, NotDropped(X, mdb.columns, GoneIf(a, drop_list))),
                    \A j \in 1 .. Len(mdb.columns) :
                       mdb.columns[j] \in GoneIf(a, drop_list) <=> mdb.columns[j].name \in a.drop
             PROVE  WithKept(a, Y)
  BY Zenon
<1> DEFINE M == mdb.columns
           G == GoneIf(a, drop_list)
           A == AddedColumns(a)
           K == KeptColumns(a)
           T == NotDropped(X, M, G)
           S == Stays(a)
           B == [k \in 1 .. Len(A) |-> X[Len(duck) + k]]
<1>1. /\ a \in Alters /\ duck \in Seq(DuckColumns)
      /\ M \in Seq(Columns) /\ Distinct(M) /\ Len(duck) = Len(M)
      /\ \A j \in 1 .. Len(duck) : Agree(duck[j], M[j])
  BY ReadyFacts, Zenon
<1>2. /\ X \in Seq(DuckColumns) /\ Len(X) = Len(duck) + Len(A)
      /\ \A i \in 1 .. Len(duck) : X[i] = duck[i]
      /\ \A k \in 1 .. Len(A) : A[k].name \notin Names(M) /\ IsAdded(X[Len(duck) + k], A[k])
  BY Zenon DEF WithAdded
<1>3. A \in Seq(Columns)
  BY <1>1, AddedFacts, Zenon
<1>4. K = Where(M, S)
  BY <1>1, KeptFacts, Zenon
<1>5. \A j \in 1 .. Len(M) : M[j] \in S <=> M[j] \notin G
  <2> \A j \in 1 .. Len(M) : M[j] \in ToSet(M)
    BY <1>1, WhereIn, Zenon
  <2> QED
    BY Zenon DEF Stays
<1>6. Y = Where(X, T)
  BY Zenon
<1>7. \A i \in 1 .. Len(X) : X[i] \in ToSet(X)
  BY <1>2, WhereIn, Zenon
<1>8. WithKept(a, Y) <=>
         /\ Y \in Seq(DuckColumns)
         /\ Len(Y) = Len(K) + Len(A)
         /\ \A i \in 1 .. Len(K) : Agree(Y[i], K[i])
         /\ \A k \in 1 .. Len(A) : IsAdded(Y[Len(K) + k], A[k])
  BY Zenon DEF WithKept
<1> HIDE DEF M, A, K, S, G
<1>9. B \in Seq(DuckColumns) /\ Len(B) = Len(A) /\ \A k \in 1 .. Len(A) : B[k] = X[Len(duck) + k]
  <2> Len(A) \in Nat /\ Len(duck) \in Nat
    BY <1>1, <1>3, SMTT(30), Zenon
  <2> \A k \in 1 .. Len(A) : Len(duck) + k \in 1 .. Len(X)
    BY <1>2, SMTT(30), Zenon
  <2> B \in [1 .. Len(A) -> DuckColumns]
    BY <1>2
  <2> QED
    BY SMTT(30)
<1> HIDE DEF B
<1>10. X = duck \o B
  <2>1. Len(duck \o B) = Len(X) /\ duck \o B \in Seq(DuckColumns)
    <3> Len(duck \o B) = Len(duck) + Len(B) /\ duck \o B \in Seq(DuckColumns)
      BY <1>1, <1>9, ConcatFacts, Zenon
    <3> QED
      BY <1>2, <1>9, Zenon
  <2>2. ASSUME NEW i \in 1 .. Len(X) PROVE X[i] = (duck \o B)[i]
    <3>1. CASE i \in 1 .. Len(duck)
      BY <1>1, <1>2, <1>9, <3>1, SMTT(30), Zenon
    <3> CASE i \notin 1 .. Len(duck)
      <4> i - Len(duck) \in 1 .. Len(B) /\ i = Len(duck) + (i - Len(duck))
        BY <1>1, <1>2, <1>9, SMTT(30), ZenonT(30)
      <4> (duck \o B)[i] = B[i - Len(duck)]
        BY <1>1, <1>9, SMTT(30), Zenon
      <4> QED
        BY <1>9, Zenon
    <3> QED
      BY <3>1, ZenonT(30)
  <2> QED
    BY <1>2, <2>1, <2>2, SameSequence, Zenon
<1>11. ASSUME NEW j \in 1 .. Len(duck) PROVE duck[j] \in T <=> M[j] \in S
  <2> X[j] = duck[j] /\ j \in 1 .. Len(X) /\ j \in 1 .. Len(M)
    <3> Len(A) \in Nat
      BY <1>3
    <3> QED
      BY <1>1, <1>2, SMTT(30), Zenon
  <2> duck[j] \in ToSet(X) /\ duck[j].name = M[j].name
    BY <1>1, <1>7, Zenon DEF Agree
  <2>3. ASSUME M[j] \in G PROVE duck[j] \notin T
    BY <2>3, Zenon DEF NotDropped
  <2> ASSUME M[j] \notin G PROVE duck[j] \in T
    <3> ASSUME NEW l \in 1 .. Len(M), M[l] \in G PROVE M[l].name # duck[j].name
      BY <1>1, Zenon DEF Distinct
    <3> QED
      BY Zenon DEF NotDropped
  <2> QED
    BY <1>5, <2>3, ZenonT(30)
<1>12. ASSUME NEW k \in 1 .. Len(B) PROVE B[k] \in T
  <2> k \in 1 .. Len(A) /\ B[k] = X[Len(duck) + k]
    BY <1>9, ZenonT(30)
  <2>2. Len(duck) + k \in 1 .. Len(X)
    BY <1>1, <1>2, <1>3, SMTT(30), ZenonT(30)
  <2> B[k] \in ToSet(X) /\ B[k].name = A[k].name /\ A[k].name \notin Names(M)
    BY <1>2, <1>7, <2>2, Zenon DEF IsAdded
  <2> \A l \in 1 .. Len(M) : M[l].name \in Names(M)
    BY <1>1, NamesOf, Zenon
  <2> QED
    BY Zenon DEF NotDropped
<1> HIDE DEF T
<1>13. Y = Where(duck, T) \o B
  BY <1>1, <1>6, <1>9, <1>10, <1>12, WhereConcat, ZenonT(30)
<1>14. /\ Len(Where(duck, T)) = Len(Where(M, S))
       /\ \A k \in 1 .. Len(Where(duck, T)) : \E j \in 1 .. Len(duck) :
             Where(duck, T)[k] = duck[j] /\ Where(M, S)[k] = M[j]
  <2> \A j \in 1 .. Len(duck) : duck[j] \in T <=> M[j] \in S
    BY <1>11, Zenon
  <2> Parallel(Where(duck, T), Where(M, S), duck, M)
    BY <1>1, <1>WhereParallel, Zenon
  <2> QED
    BY Zenon DEF Parallel
<1> DEFINE W == Where(duck, T)
<1>15. /\ W \in Seq(DuckColumns) /\ Len(W) = Len(K)
       /\ \A k \in 1 .. Len(K) : \E j \in 1 .. Len(duck) : W[k] = duck[j] /\ K[k] = M[j]
  <2> W \in Seq(DuckColumns)
    BY <1>1, WhereIn, Zenon
  <2> QED
    BY <1>4, <1>14, Zenon
<1> HIDE DEF W
<1> /\ Y \in Seq(DuckColumns) /\ Len(Y) = Len(W) + Len(B)
    /\ \A i \in 1 .. Len(W) : Y[i] = W[i]
    /\ \A k \in 1 .. Len(B) : Y[Len(W) + k] = B[k]
  <2>1. Y = W \o B
    BY <1>13, Zenon DEF W
  <2> /\ W \o B \in Seq(DuckColumns) /\ Len(W \o B) = Len(W) + Len(B)
      /\ \A i \in 1 .. Len(W) : (W \o B)[i] = W[i]
      /\ \A k \in 1 .. Len(B) : (W \o B)[Len(W) + k] = B[k]
    <3> W \in Seq(DuckColumns) /\ B \in Seq(DuckColumns)
      BY <1>9, <1>15, Zenon
    <3> QED
      OBVIOUS
  <2> QED
    BY <2>1, Zenon
<1> \A i \in 1 .. Len(K) : Agree(Y[i], K[i])
  BY <1>1, <1>15, ZenonT(30)
<1> \A k \in 1 .. Len(A) : IsAdded(Y[Len(K) + k], A[k])
  BY <1>2, <1>9, <1>15, Zenon
<1> QED
  BY <1>8, <1>9, <1>15, Zenon

LEMMA RenamePart ==
    ASSUME NEW a, Ready(a), NEW X, WithAdded(a, X), NEW Y, WithKept(a, Y),
           NEW Z, RenameEffect(Y, Z, ChangedColumns(a))
    PROVE  WithRenamed(a, Z)
<1> DEFINE M == mdb.columns
           A == AddedColumns(a)
           K == KeptColumns(a)
           C == ChangedColumns(a)
           New == AlteredColumns(a)
<1>1. /\ a \in Alters /\ ~a.order /\ Valid(a) /\ WellFormed(Altered(a))
      /\ M \in Seq(Columns) /\ Distinct(M)
  BY ReadyFacts, Zenon
<1>2. \A k \in 1 .. Len(A) : A[k].name \notin Names(M)
  BY Zenon DEF WithAdded
<1>3. /\ Y \in Seq(DuckColumns)
      /\ Len(Y) = Len(K) + Len(A)
      /\ \A i \in 1 .. Len(K) : Agree(Y[i], K[i])
      /\ \A k \in 1 .. Len(A) : IsAdded(Y[Len(K) + k], A[k])
  BY Zenon DEF WithKept
<1>4. /\ Z \in Seq(DuckColumns)
      /\ Len(Z) = Len(Y)
      /\ \A i \in 1 .. Len(Y) :
            /\ Z[i].type = Y[i].type /\ Z[i].notnull = Y[i].notnull /\ Z[i].def = Y[i].def
            /\ (\A k \in 1 .. Len(C) : C[k].old.name # Y[i].name) => Z[i].name = Y[i].name
            /\ \A k \in 1 .. Len(C) : C[k].old.name = Y[i].name => Z[i].name = C[k].new.name
  BY Zenon DEF RenameEffect
<1>5. /\ Len(New) = Len(K) + Len(A)
      /\ \A i \in 1 .. Len(K) : Alteration(K[i], a, New[i])
      /\ \A k \in 1 .. Len(A) : New[Len(K) + k] = A[k]
  BY <1>1, NewFacts, Zenon
<1>6. /\ K \in Seq(Columns)
      /\ \A i \in 1 .. Len(K) : \E j \in 1 .. Len(M) : K[i] = M[j]
  BY <1>1, KeptFacts, ZenonT(30)
<1>7. /\ \A k \in 1 .. Len(C) : \E i \in 1 .. Len(K) :
            ChangedAt(a, k, i) /\ K[i].name \in DOMAIN a.change
      /\ \A i \in 1 .. Len(K) : K[i].name \in DOMAIN a.change =>
            \E k \in 1 .. Len(C) : ChangedAt(a, k, i)
  BY <1>1, ChangedFacts, Zenon
<1>8. \A k, i : ChangedAt(a, k, i) => C[k].old = K[i] /\ C[k].new = New[i]
  BY Zenon DEF ChangedAt
<1>9. A \in Seq(Columns)
  BY <1>1, AddedFacts, Zenon
<1>10. WithRenamed(a, Z) <=>
         /\ Z \in Seq(DuckColumns)
         /\ Len(Z) = Len(New)
         /\ \A i \in 1 .. Len(Z) : Z[i].name = New[i].name
         /\ \A i \in 1 .. Len(K) : AsBefore(Z[i], K[i])
         /\ \A k \in 1 .. Len(A) : IsAdded(Z[Len(K) + k], A[k])
  BY Zenon DEF WithRenamed
<1> HIDE DEF M, A, K, C, New
<1>11. /\ \A i \in 1 .. Len(K) : i \in 1 .. Len(Y)
       /\ \A k \in 1 .. Len(A) : Len(K) + k \in 1 .. Len(Y)
       /\ \A i \in 1 .. Len(Y) : i \in 1 .. Len(K) \/ \E k \in 1 .. Len(A) : i = Len(K) + k
  <2> Len(K) \in Nat /\ Len(A) \in Nat
    BY <1>6, <1>9, SMTT(30), Zenon
  <2> ASSUME NEW i \in 1 .. Len(Y), i \notin 1 .. Len(K)
      PROVE  i - Len(K) \in 1 .. Len(A) /\ i = Len(K) + (i - Len(K))
    BY <1>3, SMTT(30), Zenon
  <2> \A i \in 1 .. Len(Y) : i \in 1 .. Len(K) \/ \E k \in 1 .. Len(A) : i = Len(K) + k
    BY Zenon
  <2> QED
    BY <1>3, SMTT(30), Zenon
<1>12. ASSUME NEW i \in 1 .. Len(K)
       PROVE  Z[i].name = New[i].name /\ AsBefore(Z[i], K[i])
  <2>1. i \in 1 .. Len(Y) /\ Agree(Y[i], K[i]) /\ Alteration(K[i], a, New[i])
    BY <1>3, <1>5, <1>11, Zenon
  <2>2. Y[i].name = K[i].name
    BY <2>1, Zenon DEF Agree
  <2>3. ASSUME K[i].name \in DOMAIN a.change PROVE Z[i].name = New[i].name
    <3> PICK k \in 1 .. Len(C) : ChangedAt(a, k, i)
      BY <1>7, <2>3, Zenon
    <3> C[k].old.name = Y[i].name /\ C[k].new.name = New[i].name
      BY <1>8, <2>2, Zenon
    <3> QED
      BY <1>4, <2>1, Zenon
  <2>4. ASSUME K[i].name \notin DOMAIN a.change PROVE Z[i].name = New[i].name
    <3>1. ASSUME NEW k \in 1 .. Len(C) PROVE C[k].old.name # Y[i].name
      <4> PICK m \in 1 .. Len(K) : ChangedAt(a, k, m) /\ K[m].name \in DOMAIN a.change
        BY <1>7, Zenon
      <4> C[k].old = K[m]
        BY <1>8, Zenon
      <4> QED
        BY <2>2, <2>4, Zenon
    <3> Z[i].name = K[i].name
      BY <1>4, <2>1, <2>2, <3>1, Zenon
    <3> QED
      BY <2>1, <2>4, Zenon DEF Alteration, NewName
  <2> AsBefore(Z[i], K[i])
    BY <1>4, <2>1, <2>2, Zenon DEF Agree, AsBefore
  <2> QED
    BY <2>3, <2>4, Zenon
<1>13. ASSUME NEW k \in 1 .. Len(A)
       PROVE  Z[Len(K) + k].name = New[Len(K) + k].name /\ IsAdded(Z[Len(K) + k], A[k])
  <2> DEFINE i == Len(K) + k
  <2>1. i \in 1 .. Len(Y) /\ IsAdded(Y[i], A[k]) /\ New[i] = A[k]
    BY <1>3, <1>5, <1>11, Zenon
  <2> HIDE DEF i
  <2>2. ASSUME NEW l \in 1 .. Len(C) PROVE C[l].old.name \in Names(M)
    <3>1. PICK m \in 1 .. Len(K) : C[l].old = K[m]
      BY <1>7, <1>8, Zenon
    <3> PICK j \in 1 .. Len(M) : K[m] = M[j]
      BY <1>6, Zenon
    <3> M[j].name \in Names(M)
      BY <1>1, NamesOf, Zenon
    <3> QED
      BY <3>1, Zenon
  <2> Y[i].name = A[k].name
    BY <2>1, Zenon DEF IsAdded
  <2> Z[i].name = Y[i].name
    <3> \A l \in 1 .. Len(C) : C[l].old.name # Y[i].name
      BY <1>2, <2>2, Zenon
    <3> QED
      BY <1>4, <2>1, Zenon
  <2> IsAdded(Z[i], A[k])
    BY <1>4, <2>1, Zenon DEF IsAdded
  <2> QED
    BY <2>1, Zenon DEF i
<1> \A i \in 1 .. Len(Z) : Z[i].name = New[i].name
  <2> SUFFICES ASSUME NEW i \in 1 .. Len(Z) PROVE Z[i].name = New[i].name
    BY Zenon
  <2>1. CASE i \in 1 .. Len(K)
    BY <1>12, <2>1, Zenon
  <2> CASE i \notin 1 .. Len(K)
    <3> PICK k \in 1 .. Len(A) : i = Len(K) + k
      BY <1>4, <1>11, Zenon
    <3> QED
      BY <1>13, Zenon
  <2> QED
    BY <2>1, Zenon
<1> QED
  BY <1>3, <1>4, <1>5, <1>10, <1>12, <1>13, Zenon

---------------------------------------------------------------------------
(* Statements that succeed *)

(* A statement that succeeds: what has to be true before, and the columns
   afterwards. *)
Accepted(X, s) ==
    /\ (s.op = "add") # (s.col \in Names(X))
    /\ s.op = "rename" => s.arg \notin Names(X)

Stepped(X, s) ==
    IF s.op = "add"
    THEN Append(X, [name |-> s.col, type |-> s.arg, notnull |-> FALSE, def |-> s.def])
    ELSE IF s.op = "drop" THEN Where(X, {c \in ToSet(X) : c.name # s.col})
    ELSE [i \in DOMAIN X |-> IF X[i].name = s.col THEN Changed(X[i], s) ELSE X[i]]

(* h is the columns between the statements of a list that lead from X to R. *)
Leads(h, X, ss, R) ==
    /\ h[0] = X
    /\ h[Len(ss)] = R
    /\ \A i \in 1 .. Len(ss) : Accepted(h[i - 1], ss[i]) /\ h[i] = Stepped(h[i - 1], ss[i])

Succeeds(X, ss, R) == \E h : Leads(h, X, ss, R)

(* The two parts of a list one after the other. *)
LEMMA SucceedsSplit ==
    ASSUME NEW V, NEW s \in Seq(V), NEW t \in Seq(V), NEW X, NEW R, Succeeds(X, s \o t, R)
    PROVE  \E Y : Succeeds(X, s, Y) /\ Succeeds(Y, t, R)
<1> DEFINE st == s \o t
<1>1. PICK h : Leads(h, X, st, R)
  BY Zenon DEF Succeeds
<1>2. /\ Len(s) \in Nat /\ Len(t) \in Nat /\ Len(st) = Len(s) + Len(t)
      /\ \A i \in 1 .. Len(s) : st[i] = s[i]
      /\ \A i \in 1 .. Len(t) : st[Len(s) + i] = t[i]
  OBVIOUS
<1> HIDE DEF st
<1>3. /\ h[0] = X /\ h[Len(st)] = R
      /\ \A i \in 1 .. Len(st) : Accepted(h[i - 1], st[i]) /\ h[i] = Stepped(h[i - 1], st[i])
  BY <1>1, Zenon DEF Leads
<1>4. Leads(h, X, s, h[Len(s)])
  <2>1. ASSUME NEW i \in 1 .. Len(s)
        PROVE  Accepted(h[i - 1], s[i]) /\ h[i] = Stepped(h[i - 1], s[i])
    <3> i \in 1 .. Len(st) /\ st[i] = s[i]
      BY <1>2
    <3> QED
      BY <1>3, SMTT(30), Zenon
  <2> QED
    BY <1>3, <2>1, Zenon DEF Leads
<1> DEFINE g == [i \in 0 .. Len(t) |-> h[Len(s) + i]]
<1> Leads(g, h[Len(s)], t, R)
  <2>1. ASSUME NEW i \in 1 .. Len(t)
        PROVE  Accepted(g[i - 1], t[i]) /\ g[i] = Stepped(g[i - 1], t[i])
    <3> Len(s) + i \in 1 .. Len(st) /\ st[Len(s) + i] = t[i]
      BY <1>2, SMTT(30), Zenon
    <3> g[i] = h[Len(s) + i] /\ g[i - 1] = h[(Len(s) + i) - 1]
      BY <1>2
    <3> /\ Accepted(h[(Len(s) + i) - 1], st[Len(s) + i])
        /\ h[Len(s) + i] = Stepped(h[(Len(s) + i) - 1], st[Len(s) + i])
      BY <1>3, Zenon
    <3> QED
      BY Zenon
  <2> g[0] = h[Len(s)] /\ g[Len(t)] = R
    BY <1>2, <1>3, SMTT(30), Zenon
  <2> HIDE DEF g
  <2> QED
    BY <2>1, Zenon DEF Leads
<1> QED
  BY <1>4, Zenon DEF Succeeds

LEMMA NothingSucceeds ==
    ASSUME NEW ss, Len(ss) = 0, NEW X, NEW R, Succeeds(X, ss, R)
    PROVE  R = X
BY Zenon DEF Succeeds, Leads

(* d is column c after the first n statements of a list, each of which names a
   column of its own. *)
Touched(c, ss, n, d) ==
    /\ \A k \in 1 .. n : ss[k].col = c.name => d = Changed(c, ss[k])
    /\ (\A k \in 1 .. n : ss[k].col # c.name) => d = c

IsUpdate(s) ==
    s.op \in {"set_default", "set_not_null", "drop_not_null"} /\ s.def \in DuckDefaults

DifferentColumns(ss) ==
    \A k, l \in 1 .. Len(ss) : ss[k].col = ss[l].col => k = l

(* The statements made, by g, of the members of src that are in S. *)
MadeOf(ss, src, S, g) == ss = [i \in DOMAIN Where(src, S) |-> g[Where(src, S)[i]]]

Covers(ss, src, S, g) ==
    /\ \A k \in 1 .. Len(ss) : \E j \in 1 .. Len(src) : src[j] \in S /\ ss[k] = g[src[j]]
    /\ \A j \in 1 .. Len(src) : src[j] \in S => \E k \in 1 .. Len(ss) : ss[k] = g[src[j]]

(* Different members give statements on different columns. *)
Apart(src, g) == \A i, j \in 1 .. Len(src) : g[src[i]].col = g[src[j]].col => i = j

AllIn(src, S, g, U) == \A j \in 1 .. Len(src) : src[j] \in S => g[src[j]] \in U

LEMMA MadeOfFacts ==
    ASSUME NEW V, NEW src \in Seq(V), NEW S, NEW U, NEW g, NEW ss, MadeOf(ss, src, S, g),
           AllIn(src, S, g, U)
    PROVE  /\ ss \in Seq(U)
           /\ Covers(ss, src, S, g)
           /\ Apart(src, g) => DifferentColumns(ss)
<1> DEFINE w == Where(src, S)
<1>1. /\ w \in Seq(V)
      /\ \A k \in 1 .. Len(w) : w[k] \in S /\ \E j \in 1 .. Len(src) : w[k] = src[j]
      /\ \A j \in 1 .. Len(src) : src[j] \in S => \E k \in 1 .. Len(w) : w[k] = src[j]
  BY WhereFacts, SMTT(30), Zenon
<1>2. ASSUME NEW k \in 1 .. Len(w), NEW l \in 1 .. Len(w), k # l
      PROVE  \E i, j \in 1 .. Len(src) : i # j /\ w[k] = src[i] /\ w[l] = src[j]
  BY <1>2, WhereApart, SMTT(30), ZenonT(30)
<1>3. ss = [i \in DOMAIN w |-> g[w[i]]]
  BY Zenon DEF MadeOf
<1> HIDE DEF w
<1>4. Len(w) \in Nat /\ DOMAIN w = 1 .. Len(w)
  BY <1>1
<1>5. \A k \in 1 .. Len(w) : g[w[k]] \in U
  BY <1>1, Zenon DEF AllIn
<1>6. ss \in [1 .. Len(w) -> U] /\ \A k \in 1 .. Len(w) : ss[k] = g[w[k]]
  BY <1>3, <1>4, <1>5, SMTT(30), Zenon
<1> ss \in Seq(U) /\ Len(ss) = Len(w)
  BY <1>4, <1>6, SMTT(30), Zenon
<1>8. \A k \in 1 .. Len(ss) : \E j \in 1 .. Len(src) : src[j] \in S /\ ss[k] = g[src[j]]
  BY <1>1, <1>6, SMTT(60), ZenonT(30)
<1>9. \A j \in 1 .. Len(src) : src[j] \in S => \E k \in 1 .. Len(ss) : ss[k] = g[src[j]]
  BY <1>1, <1>6
<1>10. ASSUME Apart(src, g) PROVE DifferentColumns(ss)
  <2> SUFFICES ASSUME NEW k \in 1 .. Len(ss), NEW l \in 1 .. Len(ss),
                      ss[k].col = ss[l].col, k # l
               PROVE  FALSE
    BY Zenon DEF DifferentColumns
  <2> k \in 1 .. Len(w) /\ l \in 1 .. Len(w)
    BY Zenon
  <2> PICK i, j \in 1 .. Len(src) : i # j /\ w[k] = src[i] /\ w[l] = src[j]
    BY <1>2, Zenon
  <2> ss[k] = g[src[i]] /\ ss[l] = g[src[j]]
    BY <1>6, Zenon
  <2> QED
    BY <1>10, Zenon DEF Apart
<1> QED
  BY <1>8, <1>9, <1>10, ZenonT(30) DEF Covers

Statement ==
    [op : {"add", "drop", "rename", "set_default", "set_not_null", "drop_not_null"},
     col : ColumnNames, arg : ColumnNames \cup Types, def : DuckDefaults]

---------------------------------------------------------------------------
(* RENAME COLUMN and DROP COLUMN *)

LEMMA PairTypes ==
    ASSUME NEW p \in Pairs
    PROVE  /\ p.old \in Columns
           /\ p.new \in Columns
           /\ p.new.name \in ColumnNames
           /\ p.old.name \in ColumnNames
           /\ ForwardedDefault(p.new.def) \in DuckDefaults
           /\ Null \in DuckDefaults
<1> p.old \in Columns /\ p.new \in Columns
  BY Zenon DEF Pairs
<1> p.new.name \in ColumnNames /\ p.old.name \in ColumnNames /\ p.new.def \in Defaults
  BY Zenon DEF Columns
<1> Null \in DuckDefaults
  BY Zenon DEF DuckDefaults, Defaults
<1> QED
  BY ForwardedType, Zenon

RenamedPairs(C) == {p \in ToSet(C) : p.old.name # p.new.name}

RenameOf(C) == [p \in ToSet(C) |-> append_stmt_column_rename(p.old.name, p.new.name)]

RenamedAs(c, n) == [c EXCEPT !.name = n]

(* Column d is column c with the name n. *)
IsRenamed(d, c, n) ==
    d.name = n /\ d.type = c.type /\ d.notnull = c.notnull /\ d.def = c.def

LEMMA RenameMade ==
    \A C :
       /\ C \in Seq(Pairs)
       => /\ MadeOf(RenameStatements(C), C, RenamedPairs(C), RenameOf(C))
          /\ RenameStatements(C) \in Seq(Statement)
          /\ \A j \in 1 .. Len(C) :
                /\ C[j] \in ToSet(C)
                /\ RenameOf(C)[C[j]] = append_stmt_column_rename(C[j].old.name, C[j].new.name)
                /\ RenameOf(C)[C[j]] \in Statement
                /\ RenameOf(C)[C[j]].op = "rename"
                /\ RenameOf(C)[C[j]].col = C[j].old.name
                /\ RenameOf(C)[C[j]].arg = C[j].new.name
                /\ C[j].old.name \in ColumnNames /\ C[j].new.name \in ColumnNames
<1>RenameStatement.
      ASSUME NEW n \in ColumnNames, NEW m \in ColumnNames
      PROVE  /\ append_stmt_column_rename(n, m) \in Statement
             /\ append_stmt_column_rename(n, m).op = "rename"
             /\ append_stmt_column_rename(n, m).col = n
             /\ append_stmt_column_rename(n, m).arg = m
  <2> USE <1>RenameStatement
  <2> Null \in DuckDefaults
    BY Zenon DEF DuckDefaults, Defaults
  <2> QED
    BY Zenon DEF Statement, append_stmt_column_rename
<1> SUFFICES ASSUME NEW C \in Seq(Pairs)
             PROVE  /\ MadeOf(RenameStatements(C), C, RenamedPairs(C), RenameOf(C))
                    /\ RenameStatements(C) \in Seq(Statement)
                    /\ \A j \in 1 .. Len(C) :
                          /\ C[j] \in ToSet(C)
                          /\ RenameOf(C)[C[j]]
                               = append_stmt_column_rename(C[j].old.name, C[j].new.name)
                          /\ RenameOf(C)[C[j]] \in Statement
                          /\ RenameOf(C)[C[j]].op = "rename"
                          /\ RenameOf(C)[C[j]].col = C[j].old.name
                          /\ RenameOf(C)[C[j]].arg = C[j].new.name
                          /\ C[j].old.name \in ColumnNames /\ C[j].new.name \in ColumnNames
  BY Zenon
<1> DEFINE S == RenamedPairs(C)
           w == Where(C, S)
           g == RenameOf(C)
           ss == RenameStatements(C)
<1>1. /\ w \in Seq(Pairs)
      /\ \A k \in DOMAIN w : w[k] \in ToSet(C)
      /\ \A j \in 1 .. Len(C) : C[j] \in ToSet(C) /\ C[j] \in Pairs
  BY WhereIn, Zenon
<1>2. \A k \in DOMAIN w : g[w[k]] = append_stmt_column_rename(w[k].old.name, w[k].new.name)
  BY <1>1, ZenonT(30) DEF RenameOf
<1>3. MadeOf(ss, C, S, g)
  BY <1>2, Zenon DEF MadeOf, RenameStatements, RenamedPairs
<1>4. ASSUME NEW j \in 1 .. Len(C)
      PROVE  /\ g[C[j]] = append_stmt_column_rename(C[j].old.name, C[j].new.name)
             /\ g[C[j]] \in Statement
             /\ g[C[j]].op = "rename"
             /\ g[C[j]].col = C[j].old.name
             /\ g[C[j]].arg = C[j].new.name
             /\ C[j].old.name \in ColumnNames /\ C[j].new.name \in ColumnNames
  <2>1. g[C[j]] = append_stmt_column_rename(C[j].old.name, C[j].new.name)
    BY <1>1, Zenon DEF RenameOf
  <2>2. C[j].old.name \in ColumnNames /\ C[j].new.name \in ColumnNames
    BY <1>1, PairTypes, Zenon
  <2> QED
    <3> DEFINE n == C[j].old.name
               m == C[j].new.name
    <3> n \in ColumnNames /\ m \in ColumnNames /\ g[C[j]] = append_stmt_column_rename(n, m)
      BY <2>1, <2>2, Zenon
    <3> HIDE DEF n, m, g
    <3> /\ append_stmt_column_rename(n, m) \in Statement
        /\ append_stmt_column_rename(n, m).op = "rename"
        /\ append_stmt_column_rename(n, m).col = n
        /\ append_stmt_column_rename(n, m).arg = m
      BY <1>RenameStatement, Zenon
    <3> QED
      BY Zenon DEF n, m
<1> HIDE DEF g, ss, S
<1> ss \in Seq(Statement)
  <2> AllIn(C, S, g, Statement)
    BY <1>4, Zenon DEF AllIn
  <2> QED
    BY <1>3, MadeOfFacts, Zenon
<1> QED
  BY <1>1, <1>3, <1>4, Zenon DEF g, ss, S

LEMMA RenameSteps ==
    \A C, X, R :
       /\ C \in Seq(Pairs)
       /\ DistinctOld(C)
       /\ X \in Seq(DuckColumns)
       /\ \A k \in 1 .. Len(C) : C[k].old.name \in Names(X)
       /\ Succeeds(X, RenameStatements(C), R)
       => RenameEffect(X, R, C)
  (* RENAME COLUMN: every column gets the name of the statement that names it,
     and no target is the name of a column that is still there. *)
<1>RenamePhase.
      ASSUME NEW X \in Seq(DuckColumns), NEW V, NEW ss \in Seq(V), NEW R, Succeeds(X, ss, R),
             \A k \in 1 .. Len(ss) :
                ss[k].op = "rename" /\ ss[k].arg \in ColumnNames /\ ss[k].col \in Names(X),
             DifferentColumns(ss)
      PROVE  /\ R \in Seq(DuckColumns)
             /\ Len(R) = Len(X)
             /\ \A i \in 1 .. Len(X) : Touched(X[i], ss, Len(ss), R[i])
             /\ \A k \in 1 .. Len(ss), i \in 1 .. Len(X) :
                   X[i].name = ss[k].arg => \E m \in 1 .. k - 1 : ss[m].col = X[i].name
  <2> USE <1>RenamePhase
  <2>1. PICK h : Leads(h, X, ss, R)
    BY Zenon DEF Succeeds
  <2>2. Len(ss) \in Nat /\ Len(X) \in Nat
    BY SMTT(30)
  <2> DEFINE Free(k) == \A i \in 1 .. Len(X) :
                 X[i].name = ss[k].arg => \E m \in 1 .. k - 1 : ss[m].col = X[i].name
             Good(j) ==
                 /\ h[j] \in Seq(DuckColumns)
                 /\ Len(h[j]) = Len(X)
                 /\ \A i \in 1 .. Len(X) : Touched(X[i], ss, j, h[j][i])
                 /\ \A k \in 1 .. j : Free(k)
  <2>3. Good(0)
    <3> \A i \in 1 .. Len(X) : Touched(X[i], ss, 0, X[i])
      BY DEF Touched
    <3> QED
      BY <2>1, SMTT(30), Zenon DEF Leads
  <2>4. ASSUME NEW j \in 0 .. Len(ss) - 1, Good(j) PROVE Good(j + 1)
    <3> DEFINE s == ss[j + 1]
               Y == h[j]
               Z == h[j + 1]
    <3>1. j + 1 \in 1 .. Len(ss) /\ j + 1 - 1 = j /\ j \in Nat
      BY <2>2, SMTT(30), ZenonT(30)
    <3>2. Accepted(Y, s) /\ Z = Stepped(Y, s)
      BY <2>1, <3>1, SMTT(30), Zenon DEF Leads
    <3>3. s.op = "rename" /\ s.arg \in ColumnNames /\ s.col \in Names(X)
      BY <3>1, Zenon
    <3> HIDE DEF s, Y, Z, Free
    <3>4. /\ Y \in Seq(DuckColumns) /\ Len(Y) = Len(X)
          /\ \A i \in 1 .. Len(X) : Touched(X[i], ss, j, Y[i])
          /\ \A k \in 1 .. j : Free(k)
      BY <2>4, Zenon DEF Y
    <3>5. Z = [i \in 1 .. Len(X) |-> IF Y[i].name = s.col THEN Changed(Y[i], s) ELSE Y[i]]
      <4> DOMAIN Y = 1 .. Len(X)
        BY <3>4, SMTT(30), Zenon
      <4> s.op # "add" /\ s.op # "drop"
        BY <3>3, Zenon
      <4> QED
        BY <3>2, Zenon DEF Stepped
    <3>6. s.arg \notin Names(Y)
      BY <3>2, <3>3, Zenon DEF Accepted
    <3>7. Free(j + 1)
      <4>a. (\A i \in 1 .. Len(X) :
                X[i].name = s.arg => \E m \in 1 .. j : ss[m].col = X[i].name) => Free(j + 1)
        BY <3>1 DEF Free, s
      <4> SUFFICES ASSUME NEW i \in 1 .. Len(X), X[i].name = s.arg,
                          \A m \in 1 .. j : ss[m].col # X[i].name
                   PROVE  FALSE
        BY <4>a, Zenon
      <4> Y[i] = X[i] /\ i \in 1 .. Len(Y)
        BY <3>4, Zenon DEF Touched
      <4> Y[i].name \in Names(Y)
        BY <3>4, NamesOf, Zenon
      <4> QED
        BY <3>6, Zenon
    <3>8. \A c : Changed(c, s) = [c EXCEPT !.name = s.arg]
      BY <3>3, SMTT(30), Zenon DEF Changed
    <3>9. \A k \in 1 .. j : ss[k].col # s.col
      BY <2>2, <3>1 DEF DifferentColumns, s
    <3>10. ASSUME NEW i \in 1 .. Len(X)
           PROVE  /\ Z[i] \in DuckColumns
                  /\ Touched(X[i], ss, j + 1, Z[i])
      <4>1. Z[i] = IF Y[i].name = s.col THEN Changed(Y[i], s) ELSE Y[i]
        BY <3>5, SMTT(30), Zenon
      <4>2. Touched(X[i], ss, j, Y[i]) /\ Y[i] \in DuckColumns
        BY <3>4, SMTT(30), Zenon
      <4>3. CASE X[i].name = s.col
        <5>1. \A k \in 1 .. j : ss[k].col # X[i].name
          BY <3>9, <4>3, Zenon
        <5>2. Y[i] = X[i]
          BY <4>2, <5>1, Zenon DEF Touched
        <5>3. Z[i] = Changed(X[i], s)
          BY <4>1, <4>3, <5>2, ZenonT(30)
        <5>4. \A k \in 1 .. j + 1 : ss[k].col = X[i].name => ss[k] = s
          BY <3>1, <5>1, SMTT(30), Zenon DEF s
        <5>5. j + 1 \in 1 .. j + 1 /\ ss[j + 1].col = X[i].name
          BY <3>1, <4>3 DEF s
        <5>6. Touched(X[i], ss, j + 1, Z[i])
          BY <5>3, <5>4, <5>5, Zenon DEF Touched
        <5> Z[i] = [X[i] EXCEPT !.name = s.arg] /\ X[i] \in DuckColumns
          BY <3>8, <4>2, <5>2, <5>3, Zenon
        <5> Z[i] \in DuckColumns
          BY <3>3, Zenon DEF DuckColumns
        <5> QED
          BY <5>6, Zenon
      <4>4. CASE X[i].name # s.col
        <5>1. Y[i].name # s.col
          <6>1. CASE \A k \in 1 .. j : ss[k].col # X[i].name
            BY <4>2, <4>4, <6>1, Zenon DEF Touched
          <6>2. CASE \E k \in 1 .. j : ss[k].col = X[i].name
            <7>1. PICK k \in 1 .. j : ss[k].col = X[i].name
              BY <6>2, Zenon
            <7>2. k \in 1 .. Len(ss) /\ Free(k) /\ 1 .. k - 1 \subseteq 1 .. j
              BY <2>2, <3>1, <3>4, SMTT(30), ZenonT(30)
            <7>3. Y[i] = Changed(X[i], ss[k]) /\ ss[k].op = "rename"
              BY <4>2, <7>1, <7>2, Zenon DEF Touched
            <7>4. Y[i] = [X[i] EXCEPT !.name = ss[k].arg]
              BY <7>3, SMTT(30), Zenon DEF Changed
            <7> Y[i].name = ss[k].arg
              BY <7>4 DEF DuckColumns
            <7> PICK n \in 1 .. Len(X) : X[n].name = s.col
              BY <3>3, NamedAt, Zenon
            <7> QED
              BY <3>9, <7>2, Zenon DEF Free
          <6> QED
            BY <6>1, <6>2, Zenon
        <5> Z[i] = Y[i]
          BY <4>1, <5>1, Zenon
        <5>3. \A k \in 1 .. j + 1 : k \in 1 .. j \/ k = j + 1
          BY <3>1, SMTT(30), Zenon
        <5> 1 .. j \subseteq 1 .. j + 1
          BY <3>1
        <5> Touched(X[i], ss, j + 1, Z[i])
          BY <4>2, <4>4, <5>3, Zenon DEF Touched, s
        <5> QED
          BY <4>2, Zenon
      <4> QED
        BY <4>3, <4>4, Zenon
    <3>11. Z \in Seq(DuckColumns) /\ Len(Z) = Len(X)
      <4> \A i \in 1 .. Len(X) : Z[i] \in DuckColumns
        BY <3>10, SMTT(30), Zenon
      <4> Z \in [1 .. Len(X) -> DuckColumns]
        BY <3>5, Zenon
      <4> QED
        BY <2>2, SMTT(30), Zenon
    <3> \A k \in 1 .. j + 1 : Free(k)
      <4> \A k \in 1 .. j + 1 : k \in 1 .. j \/ k = j + 1
        BY <3>1, SMTT(30), Zenon
      <4> QED
        BY <3>4, <3>7, ZenonT(30)
    <3> QED
      BY <3>10, <3>11, Zenon DEF Z
  <2> HIDE DEF Good
  <2> Good(Len(ss))
    <3> DEFINE G == {j \in Nat : Good(j)}
    <3> 0 \in G /\ \A j \in 0 .. Len(ss) - 1 : j \in G => j + 1 \in G
      BY <2>3, <2>4, SMTT(30), Zenon
    <3> Len(ss) \in G
      BY <2>2, UpTo, Zenon
    <3> QED
      BY Zenon
  <2> QED
    BY <2>1, Zenon DEF Good, Leads, Free
<1>RenamedBy.
      ASSUME NEW c \in DuckColumns, NEW n, NEW m
      PROVE  IsRenamed(Changed(c, append_stmt_column_rename(n, m)), c, m)
  <2> USE <1>RenamedBy
  <2> Changed(c, append_stmt_column_rename(n, m)) = RenamedAs(c, m)
    BY Zenon DEF Changed, append_stmt_column_rename, RenamedAs
  <2> /\ RenamedAs(c, m).name = m /\ RenamedAs(c, m).type = c.type
      /\ RenamedAs(c, m).notnull = c.notnull /\ RenamedAs(c, m).def = c.def
    BY Zenon DEF RenamedAs, DuckColumns
  <2> QED
    BY Zenon DEF IsRenamed
<1> SUFFICES ASSUME NEW C \in Seq(Pairs), DistinctOld(C), NEW X \in Seq(DuckColumns), NEW R,
                    \A k \in 1 .. Len(C) : C[k].old.name \in Names(X),
                    Succeeds(X, RenameStatements(C), R)
             PROVE  RenameEffect(X, R, C)
  BY Zenon
<1> DEFINE S == RenamedPairs(C)
           g == RenameOf(C)
           ss == RenameStatements(C)
<1>1. /\ MadeOf(ss, C, S, g)
      /\ ss \in Seq(Statement)
      /\ \A j \in 1 .. Len(C) :
            /\ C[j] \in ToSet(C)
            /\ g[C[j]] = append_stmt_column_rename(C[j].old.name, C[j].new.name)
            /\ g[C[j]] \in Statement
            /\ g[C[j]].op = "rename"
            /\ g[C[j]].col = C[j].old.name
            /\ g[C[j]].arg = C[j].new.name
            /\ C[j].old.name \in ColumnNames /\ C[j].new.name \in ColumnNames
  BY RenameMade, Zenon
<1>2. Succeeds(X, ss, R)
  BY Zenon
<1>3. \A j \in 1 .. Len(C) : C[j] \in S <=> C[j].old.name # C[j].new.name
  BY <1>1, Zenon DEF RenamedPairs
<1> HIDE DEF S, g, ss
<1>4. Covers(ss, C, S, g) /\ DifferentColumns(ss)
  <2> AllIn(C, S, g, Statement)
    BY <1>1, Zenon DEF AllIn
  <2> Apart(C, g)
    BY <1>1, ZenonT(30) DEF DistinctOld, Apart
  <2> QED
    BY <1>1, MadeOfFacts, Zenon
<1>5. /\ \A k \in 1 .. Len(ss) : \E j \in 1 .. Len(C) : C[j] \in S /\ ss[k] = g[C[j]]
      /\ \A j \in 1 .. Len(C) : C[j] \in S => \E k \in 1 .. Len(ss) : ss[k] = g[C[j]]
  BY <1>4, Zenon DEF Covers
<1>6. \A k \in 1 .. Len(ss) :
         ss[k].op = "rename" /\ ss[k].arg \in ColumnNames /\ ss[k].col \in Names(X)
  <2> SUFFICES ASSUME NEW k \in 1 .. Len(ss)
               PROVE  ss[k].op = "rename" /\ ss[k].arg \in ColumnNames /\ ss[k].col \in Names(X)
    BY Zenon
  <2> PICK j \in 1 .. Len(C) : ss[k] = g[C[j]]
    BY <1>5, Zenon
  <2> QED
    BY <1>1, Zenon
<1>7. /\ R \in Seq(DuckColumns)
      /\ Len(R) = Len(X)
      /\ \A i \in 1 .. Len(X) : Touched(X[i], ss, Len(ss), R[i])
      /\ \A k \in 1 .. Len(ss), i \in 1 .. Len(X) :
            X[i].name = ss[k].arg => \E m \in 1 .. k - 1 : ss[m].col = X[i].name
  BY <1>1, <1>2, <1>4, <1>6, <1>RenamePhase, ZenonT(30)
<1>8. ASSUME NEW i \in 1 .. Len(X)
      PROVE  /\ R[i].type = X[i].type /\ R[i].notnull = X[i].notnull /\ R[i].def = X[i].def
             /\ (\A k \in 1 .. Len(C) : C[k].old.name # X[i].name) => R[i].name = X[i].name
             /\ \A k \in 1 .. Len(C) : C[k].old.name = X[i].name => R[i].name = C[k].new.name
  <2>1. Touched(X[i], ss, Len(ss), R[i]) /\ X[i] \in DuckColumns
    BY <1>7
  <2>2. CASE \A k \in 1 .. Len(ss) : ss[k].col # X[i].name
    <3> R[i] = X[i]
      BY <2>1, <2>2, Zenon DEF Touched
    <3> ASSUME NEW k \in 1 .. Len(C), C[k].old.name = X[i].name
        PROVE  R[i].name = C[k].new.name
      <4> C[k] \notin S
        BY <1>1, <1>5, <2>2, Zenon
      <4> QED
        BY <1>3, Zenon
    <3> QED
      BY Zenon
  <2>3. CASE \E k \in 1 .. Len(ss) : ss[k].col = X[i].name
    <3>1. PICK l \in 1 .. Len(ss) : ss[l].col = X[i].name
      BY <2>3, Zenon
    <3>2. PICK j \in 1 .. Len(C) : C[j] \in S /\ ss[l] = g[C[j]]
      BY <1>5, Zenon
    <3> C[j].old.name = X[i].name
      BY <1>1, <3>1, <3>2, Zenon
    <3>4. R[i] = Changed(X[i], append_stmt_column_rename(C[j].old.name, C[j].new.name))
      BY <1>1, <2>1, <3>1, <3>2, ZenonT(30) DEF Touched
    <3> /\ R[i].name = C[j].new.name
        /\ R[i].type = X[i].type /\ R[i].notnull = X[i].notnull /\ R[i].def = X[i].def
      <4>1. IsRenamed(R[i], X[i], C[j].new.name)
        BY <2>1, <3>4, <1>RenamedBy, Zenon
      <4> QED
        BY <4>1, Zenon DEF IsRenamed
    <3> ASSUME NEW k \in 1 .. Len(C), C[k].old.name = X[i].name
        PROVE  k = j
      BY Zenon DEF DistinctOld
    <3> QED
      BY Zenon
  <2> QED
    BY <2>2, <2>3, Zenon
<1>9. ASSUME NEW i \in 1 .. Len(X), NEW k \in 1 .. Len(C),
             C[k].old.name # C[k].new.name, C[k].new.name = X[i].name
      PROVE  \E m \in 1 .. Len(C) : C[m].old.name = X[i].name
  <2>1. PICK l \in 1 .. Len(ss) : ss[l] = g[C[k]]
    BY <1>3, <1>5, <1>9, Zenon
  <2>2. X[i].name = ss[l].arg
    BY <1>1, <1>9, <2>1, Zenon
  <2> PICK m \in 1 .. l - 1 : ss[m].col = X[i].name
    BY <1>7, <2>2, ZenonT(30)
  <2>3. Len(ss) \in Nat
    BY <1>1
  <2> m \in 1 .. Len(ss)
    BY ONLY l \in 1 .. Len(ss), m \in 1 .. l - 1, <2>3, SMTT(30), Zenon
  <2> PICK n \in 1 .. Len(C) : ss[m] = g[C[n]]
    BY <1>5, Zenon
  <2> QED
    BY <1>1, Zenon
<1> QED
  BY <1>7, <1>8, <1>9, Zenon DEF RenameEffect

(* DropColumnConvertor *)
DropStatements(columns) ==
    [i \in DOMAIN columns |-> append_stmt_column_drop(columns[i].name)]

DropOf(src) == [c \in ToSet(src) |-> append_stmt_column_drop(c.name)]

LEMMA DropMade ==
    ASSUME NEW src \in Seq(Columns), NEW S
    PROVE  /\ DropStatements(Where(src, S)) \in Seq(Statement)
           /\ Covers(DropStatements(Where(src, S)), src, S, DropOf(src))
           /\ \A j \in 1 .. Len(src) :
                 /\ DropOf(src)[src[j]].op = "drop"
                 /\ DropOf(src)[src[j]].col = src[j].name
<1> DEFINE w == Where(src, S)
           g == DropOf(src)
           ss == DropStatements(w)
<1>1. /\ w \in Seq(Columns)
      /\ \A k \in DOMAIN w : w[k] \in ToSet(src)
      /\ \A j \in 1 .. Len(src) : src[j] \in ToSet(src) /\ src[j] \in Columns
  BY WhereIn, Zenon
<1>2. \A k \in DOMAIN w : g[w[k]] = append_stmt_column_drop(w[k].name)
  BY <1>1, Zenon DEF DropOf
<1>3. MadeOf(ss, src, S, g)
  BY <1>2, SMTT(30), Zenon DEF MadeOf, DropStatements
<1>4. ASSUME NEW j \in 1 .. Len(src)
      PROVE  g[src[j]] \in Statement /\ g[src[j]].op = "drop" /\ g[src[j]].col = src[j].name
  <2>1. g[src[j]] = append_stmt_column_drop(src[j].name)
    BY <1>1, Zenon DEF DropOf
  <2> src[j].name \in ColumnNames
    BY <1>1, Zenon DEF Columns
  <2> Null \in DuckDefaults
    BY Zenon DEF DuckDefaults, Defaults
  <2> HIDE DEF g
  <2> QED
    BY <2>1 DEF append_stmt_column_drop, Statement
<1> HIDE DEF g, ss
<1> AllIn(src, S, g, Statement)
  BY <1>4, Zenon DEF AllIn
<1> ss \in Seq(Statement) /\ Covers(ss, src, S, g)
  BY <1>3, MadeOfFacts, Zenon
<1> QED
  BY <1>4, Zenon DEF g, ss

(* DROP COLUMN: the columns that no statement names stay, in their order. *)
Left(X, ss, n) == {c \in ToSet(X) : \A k \in 1 .. n : ss[k].col # c.name}

LEMMA DropList ==
    ASSUME NEW a, NEW drop_list
    PROVE  DropColumnTranslate(a, drop_list)
             = DropStatements(Where(mdb.columns, Gone(a, drop_list)))
BY Zenon DEF DropColumnTranslate, ColumnsToDrop, Gone, DropStatements

LEMMA DropPart ==
    \A a, drop_list, X, Y :
       /\ Ready(a)
       /\ X \in Seq(DuckColumns)
       /\ Succeeds(X, IF a.drop # {} THEN DropColumnTranslate(a, drop_list) ELSE <<>>, Y)
       => Y = Where(X, NotDropped(X, mdb.columns, GoneIf(a, drop_list)))
<1>WhereAll.
      ASSUME NEW V, NEW s \in Seq(V), NEW S, \A j \in 1 .. Len(s) : s[j] \in S
      PROVE  Where(s, S) = s
  <2> USE <1>WhereAll
  <2> <<>> \in Seq(V) /\ <<>> \o s = s
    OBVIOUS
  <2>2. Where(<<>> \o s, S) = Where(<<>>, S) \o s
    BY WhereConcat, Zenon
  <2> Where(<<>>, S) = <<>>
    <3>1. ASSUME NEW e \in Seq(V)
          PROVE  /\ Where(e, S) \in Seq(V)
                 /\ \A k \in 1 .. Len(Where(e, S)) : \E j \in 1 .. Len(e) : TRUE
      BY <3>1, WhereFacts, Zenon
    <3> /\ Where(<<>>, S) \in Seq(V)
        /\ \A k \in 1 .. Len(Where(<<>>, S)) : \E j \in 1 .. Len(<<>>) : TRUE
      BY <3>1, Zenon
    <3> Len(<<>>) = 0 /\ 1 .. 0 = {}
      OBVIOUS
    <3> 1 .. Len(Where(<<>>, S)) = {}
      BY Zenon
    <3> QED
      OBVIOUS
  <2> QED
    BY <2>2, Zenon
<1>DropPhase.
      ASSUME NEW X \in Seq(DuckColumns), NEW V, NEW ss \in Seq(V), NEW R, Succeeds(X, ss, R),
             \A k \in 1 .. Len(ss) : ss[k].op = "drop"
      PROVE  R = Where(X, Left(X, ss, Len(ss)))
  <2> USE <1>DropPhase
  <2>1. PICK h : Leads(h, X, ss, R)
    BY Zenon DEF Succeeds
  <2>2. Len(ss) \in Nat /\ Len(X) \in Nat /\ DOMAIN X = 1 .. Len(X)
    OBVIOUS
  <2>3. \A i \in 1 .. Len(X) : X[i] \in ToSet(X)
    BY <2>2, Zenon DEF ToSet
  <2> DEFINE Good(j) == h[j] = Where(X, Left(X, ss, j))
  <2>4. Good(0)
    <3> \A i \in 1 .. Len(X) : X[i] \in Left(X, ss, 0)
      BY <2>3 DEF Left
    <3> Where(X, Left(X, ss, 0)) = X
      BY <1>WhereAll, Zenon
    <3> QED
      BY <2>1, Zenon DEF Leads
  <2>5. ASSUME NEW j \in 0 .. Len(ss) - 1, Good(j) PROVE Good(j + 1)
    <3> DEFINE s == ss[j + 1]
               Y == h[j]
               T == {c \in ToSet(Y) : c.name # s.col}
    <3>1. j + 1 \in 1 .. Len(ss) /\ j + 1 - 1 = j /\ j \in Nat
      BY <2>2, SMTT(30), Zenon
    <3>2. h[j + 1] = Stepped(Y, s)
      BY <2>1, <3>1, SMTT(30), Zenon DEF Leads
    <3>3. s.op = "drop" /\ s.op # "add"
      BY <3>1, Zenon
    <3>4. h[j + 1] = Where(Y, T)
      BY <3>2, <3>3, Zenon DEF Stepped
    <3>5. Y = Where(X, Left(X, ss, j))
      BY <2>5, Zenon
    <3>6. /\ Y \in Seq(DuckColumns)
          /\ \A i \in 1 .. Len(X) :
                X[i] \in Left(X, ss, j) => \E k \in 1 .. Len(Y) : Y[k] = X[i]
      <4> DEFINE L == Left(X, ss, j)
      <4> Y = Where(X, L)
        BY <3>5, SMTT(30), Zenon
      <4> HIDE DEF L, Y
      <4> /\ Where(X, L) \in Seq(DuckColumns)
          /\ \A i \in 1 .. Len(X) :
                X[i] \in L => \E k \in 1 .. Len(Where(X, L)) : Where(X, L)[k] = X[i]
        BY WhereFacts, SMTT(30), ZenonT(30)
      <4> QED
        BY Zenon DEF L
    <3> HIDE DEF s, Y
    <3>7. DOMAIN Y = 1 .. Len(Y)
      BY <3>6
    <3>8. \A i \in 1 .. Len(X) : X[i] \in Left(X, ss, j) => X[i] \in ToSet(Y)
      BY <3>6, <3>7, Zenon DEF ToSet
    <3>9. ASSUME NEW i \in 1 .. Len(X)
          PROVE  X[i] \in Left(X, ss, j + 1) <=> (X[i] \in Left(X, ss, j) /\ X[i] \in T)
      <4>1. \A k \in 1 .. j + 1 : k \in 1 .. j \/ k = j + 1
        BY <3>1, SMTT(30), Zenon
      <4> 1 .. j \subseteq 1 .. j + 1 /\ j + 1 \in 1 .. j + 1
        BY <3>1
      <4> X[i] \in Left(X, ss, j + 1) <=> (X[i] \in Left(X, ss, j) /\ X[i].name # s.col)
        BY <4>1, Zenon DEF Left, s
      <4> QED
        BY <3>8, Zenon
    <3> HIDE DEF T
    <3> Where(Where(X, Left(X, ss, j)), T) = Where(X, Left(X, ss, j + 1))
      <4> DEFINE L == Left(X, ss, j)
                 U == Left(X, ss, j + 1)
      <4> \A i \in 1 .. Len(X) : X[i] \in U <=> (X[i] \in L /\ X[i] \in T)
        BY <3>9, SMTT(30), ZenonT(30)
      <4> HIDE DEF L, U
      <4> Where(Where(X, L), T) = Where(X, U)
        BY WhereTwice, SMTT(30), Zenon
      <4> QED
        BY Zenon DEF L, U
    <3> QED
      BY <3>4, <3>5, Zenon
  <2> HIDE DEF Good
  <2> Good(Len(ss))
    <3> DEFINE G == {j \in Nat : Good(j)}
    <3> 0 \in G /\ \A j \in 0 .. Len(ss) - 1 : j \in G => j + 1 \in G
      BY <2>4, <2>5, SMTT(30), ZenonT(30)
    <3> Len(ss) \in G
      BY <2>2, UpTo, Zenon
    <3> QED
      BY Zenon
  <2> QED
    BY <2>1, Zenon DEF Good, Leads
<1>DropSteps.
      ASSUME NEW src \in Seq(Columns), NEW S, NEW X \in Seq(DuckColumns), NEW R,
             Succeeds(X, DropStatements(Where(src, S)), R)
      PROVE  R = Where(X, NotDropped(X, src, S))
  <2> USE <1>DropSteps
  <2> DEFINE g == DropOf(src)
             ss == DropStatements(Where(src, S))
  <2> /\ ss \in Seq(Statement) /\ Covers(ss, src, S, g)
      /\ \A j \in 1 .. Len(src) : g[src[j]].op = "drop" /\ g[src[j]].col = src[j].name
    BY DropMade, ZenonT(30)
  <2>2. Succeeds(X, ss, R)
    BY Zenon
  <2> HIDE DEF g, ss
  <2>3. /\ \A k \in 1 .. Len(ss) : \E j \in 1 .. Len(src) : src[j] \in S /\ ss[k] = g[src[j]]
        /\ \A j \in 1 .. Len(src) : src[j] \in S => \E k \in 1 .. Len(ss) : ss[k] = g[src[j]]
    BY Zenon DEF Covers
  <2>4. \A k \in 1 .. Len(ss) : ss[k].op = "drop"
    BY <2>3, Zenon
  <2>5. R = Where(X, Left(X, ss, Len(ss)))
    BY <2>2, <2>4, <1>DropPhase, Zenon
  <2> Left(X, ss, Len(ss)) = NotDropped(X, src, S)
    <3>1. ASSUME NEW n
          PROVE  (\A k \in 1 .. Len(ss) : ss[k].col # n)
                   <=> (\A j \in 1 .. Len(src) : src[j] \in S => src[j].name # n)
      <4>1. ASSUME \A k \in 1 .. Len(ss) : ss[k].col # n, NEW j \in 1 .. Len(src), src[j] \in S
            PROVE  src[j].name # n
        BY <2>3, <4>1, ZenonT(30)
      <4> ASSUME \A j \in 1 .. Len(src) : src[j] \in S => src[j].name # n, NEW k \in 1 .. Len(ss)
          PROVE  ss[k].col # n
        <5> PICK j \in 1 .. Len(src) : src[j] \in S /\ ss[k] = g[src[j]]
          BY <2>3, Zenon
        <5> QED
          BY Zenon
      <4> QED
        BY <4>1, Zenon
    <3> QED
      BY <3>1, ZenonT(60) DEF Left, NotDropped
  <2> QED
    BY <2>5, Zenon
<1> SUFFICES ASSUME NEW a, Ready(a), NEW drop_list, NEW X \in Seq(DuckColumns), NEW Y,
                    Succeeds(X, IF a.drop # {} THEN DropColumnTranslate(a, drop_list) ELSE <<>>, Y)
             PROVE  Y = Where(X, NotDropped(X, mdb.columns, GoneIf(a, drop_list)))
  BY Zenon
<1> DEFINE M == mdb.columns
<1>1. M \in Seq(Columns)
  BY ReadyFacts, Zenon
<1>2. CASE a.drop # {}
  <2>1. Succeeds(X, DropStatements(Where(M, Gone(a, drop_list))), Y)
    BY <1>2, DropList, Zenon
  <2> GoneIf(a, drop_list) = Gone(a, drop_list)
    BY <1>2, Zenon DEF GoneIf
  <2> HIDE DEF M
  <2> Y = Where(X, NotDropped(X, M, Gone(a, drop_list)))
    BY <1>1, <2>1, <1>DropSteps, Zenon
  <2> QED
    BY Zenon DEF M
<1>3. CASE a.drop = {}
  <2>1. Succeeds(X, <<>>, Y) /\ Len(<<>>) = 0
    BY <1>3, SMTT(30), Zenon
  <2>2. Y = X
    BY <2>1, NothingSucceeds, Zenon
  <2>3. GoneIf(a, drop_list) = {}
    BY <1>3, Zenon DEF GoneIf
  <2>4. \A i \in 1 .. Len(X) : X[i] \in ToSet(X)
    BY WhereIn, Zenon
  <2> \A i \in 1 .. Len(X) : X[i] \in NotDropped(X, M, GoneIf(a, drop_list))
    BY <2>3, <2>4, Zenon DEF NotDropped
  <2> Where(X, NotDropped(X, M, GoneIf(a, drop_list))) = X
    BY <1>WhereAll, Zenon
  <2> QED
    BY <2>2, Zenon
<1> QED
  BY <1>2, <1>3, Zenon
=============================================================================

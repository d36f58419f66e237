-------------------------- MODULE AlterTableProofs --------------------------
(***************************************************************************)
(* DuckDB's columns agree with MariaDB's definition after any sequence of  *)
(* ALTERs, each with any combination of added, dropped, changed columns,   *)
(* defaults and keys.                                                      *)
(***************************************************************************)
EXTENDS AlterColumnsProofs

---------------------------------------------------------------------------
(* Statements that change a column in place *)

(* Statements that change columns in place. *)
Updates(ss, src, S, g) ==
    /\ MadeOf(ss, src, S, g)
    /\ \A j \in 1 .. Len(src) : g[src[j]] \in Statement /\ IsUpdate(g[src[j]])

(* What they do. *)
Effect(X, R, src, S, g) ==
    /\ R \in Seq(DuckColumns)
    /\ Len(R) = Len(X)
    /\ \A i \in 1 .. Len(X) :
          /\ R[i].name = X[i].name /\ R[i].type = X[i].type
          /\ (\A j \in 1 .. Len(src) : g[src[j]].col # X[i].name) => R[i] = X[i]
          /\ \A j \in 1 .. Len(src) : g[src[j]].col = X[i].name =>
                R[i] = IF src[j] \in S THEN Changed(X[i], g[src[j]]) ELSE X[i]

LEMMA Updated ==
    \A V, src, S, g, ss :
       /\ src \in Seq(V)
       /\ Updates(ss, src, S, g)
       => /\ ss \in Seq(Statement)
          /\ Apart(src, g) =>
                \A X, R : X \in Seq(DuckColumns) /\ Succeeds(X, ss, R) =>
                            Effect(X, R, src, S, g)
<1>ChangedType.
      ASSUME NEW c \in DuckColumns, NEW s, IsUpdate(s)
      PROVE  /\ Changed(c, s) \in DuckColumns
             /\ Changed(c, s).name = c.name
             /\ Changed(c, s).type = c.type
  <2> USE <1>ChangedType
  <2>1. CASE s.op = "set_default"
    <3> Changed(c, s) = [c EXCEPT !.def = s.def]
      BY <2>1, Zenon DEF Changed
    <3> QED
      BY Zenon DEF DuckColumns, IsUpdate
  <2>2. CASE s.op = "set_not_null"
    <3> Changed(c, s) = [c EXCEPT !.notnull = TRUE]
      BY <2>2, Zenon DEF Changed
    <3> QED
      BY Zenon DEF DuckColumns
  <2> CASE s.op = "drop_not_null"
    <3> Changed(c, s) = [c EXCEPT !.notnull = FALSE]
      BY Zenon DEF Changed
    <3> QED
      BY Zenon DEF DuckColumns
  <2> QED
    BY <2>1, <2>2, Zenon DEF IsUpdate
  (* SET and DROP of defaults and NOT NULL: every column is changed by the
     statement that names it. *)
<1>UpdatePhase.
      ASSUME NEW X \in Seq(DuckColumns), NEW V, NEW ss \in Seq(V), NEW R, Succeeds(X, ss, R),
             \A k \in 1 .. Len(ss) : IsUpdate(ss[k]), DifferentColumns(ss)
      PROVE  /\ R \in Seq(DuckColumns)
             /\ Len(R) = Len(X)
             /\ \A i \in 1 .. Len(X) : /\ R[i].name = X[i].name
                                       /\ R[i].type = X[i].type
                                       /\ Touched(X[i], ss, Len(ss), R[i])
  <2> USE <1>UpdatePhase
  <2>1. PICK h : Leads(h, X, ss, R)
    BY Zenon DEF Succeeds
  <2>2. Len(ss) \in Nat /\ Len(X) \in Nat
    OBVIOUS
  <2> DEFINE Good(j) ==
          /\ h[j] \in Seq(DuckColumns)
          /\ Len(h[j]) = Len(X)
          /\ \A i \in 1 .. Len(X) : /\ h[j][i].name = X[i].name
                                    /\ h[j][i].type = X[i].type
                                    /\ Touched(X[i], ss, j, h[j][i])
  <2>3. Good(0)
    <3> \A i \in 1 .. Len(X) : Touched(X[i], ss, 0, X[i])
      BY DEF Touched
    <3> QED
      BY <2>1, Zenon DEF Leads
  <2>4. ASSUME NEW j \in 0 .. Len(ss) - 1, Good(j) PROVE Good(j + 1)
    <3> DEFINE s == ss[j + 1]
               Y == h[j]
               Z == h[j + 1]
    <3>1. j + 1 \in 1 .. Len(ss) /\ j + 1 - 1 = j /\ j \in Nat
      BY <2>2
    <3>2. Z = Stepped(Y, s)
      BY <2>1, <3>1, SMTT(30), Zenon DEF Leads
    <3>3. IsUpdate(s)
      BY <3>1, Zenon
    <3>4. s.op # "add" /\ s.op # "drop"
      BY <3>3, Zenon DEF IsUpdate
    <3> HIDE DEF s, Y, Z
    <3>5. /\ Y \in Seq(DuckColumns) /\ Len(Y) = Len(X)
          /\ \A i \in 1 .. Len(X) : /\ Y[i].name = X[i].name
                                    /\ Y[i].type = X[i].type
                                    /\ Touched(X[i], ss, j, Y[i])
      BY <2>4, Zenon DEF Y
    <3>6. Z = [i \in 1 .. Len(X) |-> IF Y[i].name = s.col THEN Changed(Y[i], s) ELSE Y[i]]
      <4> DOMAIN Y = 1 .. Len(X)
        BY <3>5
      <4> QED
        BY <3>2, <3>4, Zenon DEF Stepped
    <3>7. \A i \in 1 .. Len(X) : Y[i] \in DuckColumns
      BY <3>5, SMTT(30), Zenon
    <3>8. ASSUME NEW i \in 1 .. Len(X)
          PROVE  /\ Z[i] \in DuckColumns
                 /\ Z[i].name = X[i].name
                 /\ Z[i].type = X[i].type
                 /\ Touched(X[i], ss, j + 1, Z[i])
      <4>1. Z[i] = IF X[i].name = s.col THEN Changed(Y[i], s) ELSE Y[i]
        BY <3>5, <3>6, SMTT(30), Zenon
      <4>2. /\ Y[i].name = X[i].name /\ Y[i].type = X[i].type
            /\ Touched(X[i], ss, j, Y[i])
        BY <3>5, Zenon
      <4>3. CASE X[i].name = s.col
        <5>1. \A k \in 1 .. j : ss[k].col # X[i].name
          BY <2>2, <3>1, <4>3, SMTT(30), ZenonT(30) DEF DifferentColumns, s
        <5>2. Y[i] = X[i]
          BY <4>2, <5>1, Zenon DEF Touched
        <5>3. Z[i] = Changed(X[i], s)
          BY <4>1, <4>3, <5>2, ZenonT(30)
        <5>4. \A k \in 1 .. j + 1 : ss[k].col = X[i].name => ss[k] = s
          BY <3>1, <5>1, SMTT(30), Zenon DEF s
        <5>5. j + 1 \in 1 .. j + 1 /\ ss[j + 1].col = X[i].name
          BY <3>1, <4>3, SMTT(30), Zenon DEF s
        <5>6. Touched(X[i], ss, j + 1, Z[i])
          BY <5>3, <5>4, <5>5, Zenon DEF Touched
        <5> X[i] \in DuckColumns
          BY <3>7, <5>2, SMTT(30), Zenon
        <5> /\ Changed(X[i], s) \in DuckColumns
            /\ Changed(X[i], s).name = X[i].name
            /\ Changed(X[i], s).type = X[i].type
          BY <3>3, <1>ChangedType, Zenon
        <5> QED
          BY <5>3, <5>6, Zenon
      <4> CASE X[i].name # s.col
        <5> Z[i] = Y[i]
          BY <4>1, Zenon
        <5>2. \A k \in 1 .. j + 1 : k \in 1 .. j \/ k = j + 1
          BY <3>1, SMTT(30), Zenon
        <5> 1 .. j \subseteq 1 .. j + 1
          BY <3>1
        <5> Touched(X[i], ss, j + 1, Z[i])
          BY <4>2, <5>2, Zenon DEF Touched, s
        <5> QED
          BY <3>7, <4>2, SMTT(30), Zenon
      <4> QED
        BY <4>3, Zenon
    <3> Z \in Seq(DuckColumns) /\ Len(Z) = Len(X)
      <4> \A i \in 1 .. Len(X) : Z[i] \in DuckColumns
        BY <3>8, SMTT(30), Zenon
      <4> Z \in [1 .. Len(X) -> DuckColumns]
        BY <3>6, SMTT(30), Zenon
      <4> QED
        BY <2>2, SMTT(30), Zenon
    <3> QED
      BY <3>8, Zenon DEF Z
  <2> HIDE DEF Good
  <2> Good(Len(ss))
    <3> DEFINE G == {j \in Nat : Good(j)}
    <3> 0 \in G /\ \A j \in 0 .. Len(ss) - 1 : j \in G => j + 1 \in G
      BY <2>3, <2>4, SMTT(30), Zenon
    <3> Len(ss) \in G
      BY <2>2, UpTo, Zenon
    <3> QED
      BY Zenon
  <2> QED
    BY <2>1, Zenon DEF Good, Leads
<1> SUFFICES ASSUME NEW V, NEW src \in Seq(V), NEW S, NEW g, NEW ss, Updates(ss, src, S, g)
             PROVE  /\ ss \in Seq(Statement)
                    /\ Apart(src, g) =>
                          \A X, R : X \in Seq(DuckColumns) /\ Succeeds(X, ss, R) =>
                                      Effect(X, R, src, S, g)
  BY Zenon
<1>1. MadeOf(ss, src, S, g) /\ AllIn(src, S, g, Statement)
  BY Zenon DEF Updates, AllIn
<1>2. ss \in Seq(Statement) /\ Covers(ss, src, S, g) /\ (Apart(src, g) => DifferentColumns(ss))
  BY <1>1, MadeOfFacts, ZenonT(30)
<1>3. ASSUME Apart(src, g), NEW X \in Seq(DuckColumns), NEW R, Succeeds(X, ss, R)
      PROVE  Effect(X, R, src, S, g)
  <2>1. /\ \A k \in 1 .. Len(ss) : \E j \in 1 .. Len(src) : src[j] \in S /\ ss[k] = g[src[j]]
        /\ \A j \in 1 .. Len(src) : src[j] \in S => \E k \in 1 .. Len(ss) : ss[k] = g[src[j]]
    BY <1>2, Zenon DEF Covers
  <2>2. \A k \in 1 .. Len(ss) : IsUpdate(ss[k])
    BY <2>1, Zenon DEF Updates
  <2>3. /\ R \in Seq(DuckColumns)
        /\ Len(R) = Len(X)
        /\ \A i \in 1 .. Len(X) : /\ R[i].name = X[i].name
                                  /\ R[i].type = X[i].type
                                  /\ Touched(X[i], ss, Len(ss), R[i])
    BY <1>2, <1>3, <2>2, <1>UpdatePhase, ZenonT(30)
  <2>4. ASSUME NEW i \in 1 .. Len(X), \A j \in 1 .. Len(src) : g[src[j]].col # X[i].name
        PROVE  R[i] = X[i]
    <3> \A k \in 1 .. Len(ss) : ss[k].col # X[i].name
      BY <2>1, <2>4, ZenonT(30)
    <3> QED
      BY <2>3, Zenon DEF Touched
  <2>5. ASSUME NEW i \in 1 .. Len(X), NEW j \in 1 .. Len(src), g[src[j]].col = X[i].name
        PROVE  R[i] = IF src[j] \in S THEN Changed(X[i], g[src[j]]) ELSE X[i]
    <3>1. Touched(X[i], ss, Len(ss), R[i])
      BY <2>3, Zenon
    <3>2. CASE src[j] \in S
      <4> PICK k \in 1 .. Len(ss) : ss[k] = g[src[j]]
        BY <2>1, <3>2, Zenon
      <4> R[i] = Changed(X[i], ss[k])
        BY <2>5, <3>1, Zenon DEF Touched
      <4> QED
        BY <3>2, Zenon
    <3> CASE src[j] \notin S
      <4>1. ASSUME NEW k \in 1 .. Len(ss), ss[k].col = X[i].name PROVE FALSE
        <5> PICK m \in 1 .. Len(src) : src[m] \in S /\ ss[k] = g[src[m]]
          BY <2>1, Zenon
        <5> m = j
          BY <1>3, <2>5, <4>1, Zenon DEF Apart
        <5> QED
          BY Zenon
      <4> R[i] = X[i]
        BY <3>1, <4>1, Zenon DEF Touched
      <4> QED
        BY Zenon
    <3> QED
      BY <3>2, Zenon
  <2> QED
    BY <2>3, <2>4, <2>5, Zenon DEF Effect
<1> QED
  BY <1>2, <1>3, Zenon

UpdateOf(s, n) == s \in Statement /\ IsUpdate(s) /\ s.col = n

NotNullAs(c, b) == [c EXCEPT !.notnull = b]

DefaultAs(c, d) == [c EXCEPT !.def = d]

(* The statements that make a column NOT NULL, give it a default or take its
   NOT NULL away. *)
LEMMA UpdateStatement ==
    ASSUME NEW n \in ColumnNames, NEW d \in DuckDefaults, NEW c
    PROVE  /\ UpdateOf(append_stmt_column_set_not_null(n), n)
           /\ UpdateOf(append_stmt_column_drop_not_null(n), n)
           /\ UpdateOf(append_stmt_column_set_default(n, d), n)
           /\ Changed(c, append_stmt_column_set_not_null(n)) = NotNullAs(c, TRUE)
           /\ Changed(c, append_stmt_column_drop_not_null(n)) = NotNullAs(c, FALSE)
           /\ Changed(c, append_stmt_column_set_default(n, d)) = DefaultAs(c, d)
<1>1. Null \in DuckDefaults
  BY Zenon DEF DuckDefaults, Defaults
<1> /\ UpdateOf(append_stmt_column_set_not_null(n), n)
    /\ UpdateOf(append_stmt_column_drop_not_null(n), n)
    /\ UpdateOf(append_stmt_column_set_default(n, d), n)
  BY <1>1, SMTT(30), Zenon DEF UpdateOf, Statement, IsUpdate, append_stmt_column_set_not_null,
     append_stmt_column_drop_not_null, append_stmt_column_set_default
<1> /\ Changed(c, append_stmt_column_set_not_null(n)) = NotNullAs(c, TRUE)
    /\ Changed(c, append_stmt_column_drop_not_null(n)) = NotNullAs(c, FALSE)
    /\ Changed(c, append_stmt_column_set_default(n, d)) = DefaultAs(c, d)
  BY Zenon DEF NotNullAs, DefaultAs, Changed, append_stmt_column_set_not_null,
     append_stmt_column_drop_not_null, append_stmt_column_set_default
<1> QED
  BY Zenon

NotNullOf(src) == [c \in ToSet(src) |-> append_stmt_column_set_not_null(c.name)]

DropDefaultOf(src) == [c \in ToSet(src) |-> append_stmt_column_set_default(c.name, Null)]

SetDefaultOf(src) == [c \in ToSet(src) |-> append_stmt_column_set_default(c.name, c.def)]

(* SET NOT NULL, DROP DEFAULT and SET DEFAULT on some columns of a definition. *)
LEMMA ColumnUpdates ==
    ASSUME NEW src \in Seq(Columns), NEW S
    PROVE  /\ Updates(SetNotNullStatements(Where(src, S)), src, S, NotNullOf(src))
           /\ Updates(DropDefaultStatements(Where(src, S)), src, S, DropDefaultOf(src))
           /\ Updates(SetDefaultStatements(Where(src, S)), src, S, SetDefaultOf(src))
           /\ \A j \in 1 .. Len(src) :
                 /\ NotNullOf(src)[src[j]].col = src[j].name
                 /\ DropDefaultOf(src)[src[j]].col = src[j].name
                 /\ SetDefaultOf(src)[src[j]].col = src[j].name
                 /\ \A c : /\ Changed(c, NotNullOf(src)[src[j]]) = NotNullAs(c, TRUE)
                           /\ Changed(c, DropDefaultOf(src)[src[j]]) = DefaultAs(c, Null)
                           /\ Changed(c, SetDefaultOf(src)[src[j]]) = DefaultAs(c, src[j].def)
           /\ Distinct(src) => /\ Apart(src, NotNullOf(src))
                               /\ Apart(src, DropDefaultOf(src))
                               /\ Apart(src, SetDefaultOf(src))
<1> DEFINE w == Where(src, S)
           f == NotNullOf(src)
           g == DropDefaultOf(src)
           h == SetDefaultOf(src)
<1>1. /\ \A k \in DOMAIN w : w[k] \in ToSet(src)
      /\ \A j \in 1 .. Len(src) : src[j] \in ToSet(src) /\ src[j] \in Columns
  BY WhereIn, Zenon
<1>2. \A c \in ToSet(src) : /\ f[c] = append_stmt_column_set_not_null(c.name)
                            /\ g[c] = append_stmt_column_set_default(c.name, Null)
                            /\ h[c] = append_stmt_column_set_default(c.name, c.def)
  BY Zenon DEF NotNullOf, DropDefaultOf, SetDefaultOf
<1>3. /\ MadeOf(SetNotNullStatements(w), src, S, f)
      /\ MadeOf(DropDefaultStatements(w), src, S, g)
      /\ MadeOf(SetDefaultStatements(w), src, S, h)
  <2> \A k \in DOMAIN w : /\ f[w[k]] = append_stmt_column_set_not_null(w[k].name)
                          /\ g[w[k]] = append_stmt_column_set_default(w[k].name, Null)
                          /\ h[w[k]] = append_stmt_column_set_default(w[k].name, w[k].def)
    BY <1>1, <1>2, Zenon
  <2> HIDE DEF f, g, h
  <2> QED
    BY Zenon DEF MadeOf, SetNotNullStatements, DropDefaultStatements, SetDefaultStatements,
       append_stmt_column_drop_default
<1>4. ASSUME NEW j \in 1 .. Len(src)
      PROVE  /\ UpdateOf(f[src[j]], src[j].name)
             /\ UpdateOf(g[src[j]], src[j].name)
             /\ UpdateOf(h[src[j]], src[j].name)
             /\ \A c : /\ Changed(c, f[src[j]]) = NotNullAs(c, TRUE)
                       /\ Changed(c, g[src[j]]) = DefaultAs(c, Null)
                       /\ Changed(c, h[src[j]]) = DefaultAs(c, src[j].def)
  <2> src[j].name \in ColumnNames /\ src[j].def \in DuckDefaults /\ Null \in DuckDefaults
    BY <1>1, Zenon DEF Columns, DuckDefaults, Defaults
  <2> /\ f[src[j]] = append_stmt_column_set_not_null(src[j].name)
      /\ g[src[j]] = append_stmt_column_set_default(src[j].name, Null)
      /\ h[src[j]] = append_stmt_column_set_default(src[j].name, src[j].def)
    BY <1>1, <1>2, Zenon
  <2> HIDE DEF f, g, h
  <2> ASSUME NEW c, NEW d \in DuckDefaults
      PROVE  /\ UpdateOf(append_stmt_column_set_not_null(src[j].name), src[j].name)
             /\ UpdateOf(append_stmt_column_set_default(src[j].name, d), src[j].name)
             /\ Changed(c, append_stmt_column_set_not_null(src[j].name)) = NotNullAs(c, TRUE)
             /\ Changed(c, append_stmt_column_set_default(src[j].name, d)) = DefaultAs(c, d)
    BY UpdateStatement, Zenon
  <2> QED
    BY Zenon
<1> HIDE DEF w, f, g, h
<1> /\ Updates(SetNotNullStatements(w), src, S, f)
    /\ Updates(DropDefaultStatements(w), src, S, g)
    /\ Updates(SetDefaultStatements(w), src, S, h)
  BY <1>3, <1>4, Zenon DEF Updates, UpdateOf
<1> Distinct(src) => Apart(src, f) /\ Apart(src, g) /\ Apart(src, h)
  BY <1>4, ZenonT(30) DEF Distinct, Apart, UpdateOf
<1> QED
  BY <1>4, Zenon DEF w, f, g, h, UpdateOf

IsSent(C) == {p \in ToSet(C) : DefaultIsSent(p)}

IsNullable(C) == {p \in ToSet(C) : p.old.notnull /\ ~p.new.notnull}

IsRequired(C) == {p \in ToSet(C) : ~p.old.notnull /\ p.new.notnull}

SentDefaultOf(C) == [p \in ToSet(C) |-> ChangedDefault(p)]

NullableOf(C) == [p \in ToSet(C) |-> append_stmt_column_drop_not_null(p.new.name)]

RequiredOf(C) == [p \in ToSet(C) |-> append_stmt_column_set_not_null(p.new.name)]

(* The defaults of the changed columns, DROP NOT NULL and SET NOT NULL. *)
LEMMA PairUpdates ==
    ASSUME NEW C \in Seq(Pairs)
    PROVE  /\ Updates(DefaultStatements(C), C, IsSent(C), SentDefaultOf(C))
           /\ Updates(NullableStatements(C), C, IsNullable(C), NullableOf(C))
           /\ Updates(NotNullStatements(C), C, IsRequired(C), RequiredOf(C))
           /\ \A j \in 1 .. Len(C) :
                 /\ C[j] \in ToSet(C)
                 /\ SentDefaultOf(C)[C[j]].col = C[j].new.name
                 /\ NullableOf(C)[C[j]].col = C[j].new.name
                 /\ RequiredOf(C)[C[j]].col = C[j].new.name
                 /\ \A c : /\ Changed(c, SentDefaultOf(C)[C[j]])
                                = DefaultAs(c, ForwardedDefault(C[j].new.def))
                           /\ Changed(c, NullableOf(C)[C[j]]) = NotNullAs(c, FALSE)
                           /\ Changed(c, RequiredOf(C)[C[j]]) = NotNullAs(c, TRUE)
           /\ DistinctNew(C) => /\ Apart(C, SentDefaultOf(C))
                                /\ Apart(C, NullableOf(C))
                                /\ Apart(C, RequiredOf(C))
<1> DEFINE w1 == Where(C, IsSent(C))
           w2 == Where(C, IsNullable(C))
           w3 == Where(C, IsRequired(C))
           f == SentDefaultOf(C)
           g == NullableOf(C)
           h == RequiredOf(C)
<1>1. /\ \A k \in DOMAIN w1 : w1[k] \in ToSet(C)
      /\ \A k \in DOMAIN w2 : w2[k] \in ToSet(C)
      /\ \A k \in DOMAIN w3 : w3[k] \in ToSet(C)
      /\ \A j \in 1 .. Len(C) : C[j] \in ToSet(C) /\ C[j] \in Pairs
  BY WhereIn, Zenon
<1>2. \A p \in ToSet(C) : /\ f[p] = ChangedDefault(p)
                          /\ g[p] = append_stmt_column_drop_not_null(p.new.name)
                          /\ h[p] = append_stmt_column_set_not_null(p.new.name)
  BY Zenon DEF SentDefaultOf, NullableOf, RequiredOf
<1>3. /\ MadeOf(DefaultStatements(C), C, IsSent(C), f)
      /\ MadeOf(NullableStatements(C), C, IsNullable(C), g)
      /\ MadeOf(NotNullStatements(C), C, IsRequired(C), h)
  <2> /\ \A k \in DOMAIN w1 : f[w1[k]] = ChangedDefault(w1[k])
      /\ \A k \in DOMAIN w2 : g[w2[k]] = append_stmt_column_drop_not_null(w2[k].new.name)
      /\ \A k \in DOMAIN w3 : h[w3[k]] = append_stmt_column_set_not_null(w3[k].new.name)
    BY <1>1, <1>2, Zenon
  <2> /\ DefaultStatements(C) = [i \in DOMAIN w1 |-> ChangedDefault(w1[i])]
      /\ NullableStatements(C)
           = [i \in DOMAIN w2 |-> append_stmt_column_drop_not_null(w2[i].new.name)]
      /\ NotNullStatements(C)
           = [i \in DOMAIN w3 |-> append_stmt_column_set_not_null(w3[i].new.name)]
    BY Zenon DEF DefaultStatements, NullableStatements, NotNullStatements, IsSent, IsNullable,
       IsRequired
  <2> HIDE DEF f, g, h
  <2> QED
    BY Zenon DEF MadeOf
<1>4. ASSUME NEW j \in 1 .. Len(C)
      PROVE  /\ UpdateOf(f[C[j]], C[j].new.name)
             /\ UpdateOf(g[C[j]], C[j].new.name)
             /\ UpdateOf(h[C[j]], C[j].new.name)
             /\ \A c : /\ Changed(c, f[C[j]]) = DefaultAs(c, ForwardedDefault(C[j].new.def))
                       /\ Changed(c, g[C[j]]) = NotNullAs(c, FALSE)
                       /\ Changed(c, h[C[j]]) = NotNullAs(c, TRUE)
  <2>1. C[j].new.name \in ColumnNames /\ ForwardedDefault(C[j].new.def) \in DuckDefaults
    BY <1>1, PairTypes, ZenonT(30)
  <2>2. ChangedDefault(C[j])
          = append_stmt_column_set_default(C[j].new.name, ForwardedDefault(C[j].new.def))
    BY Zenon DEF ChangedDefault, ForwardedDefault, append_stmt_column_drop_default
  <2> /\ f[C[j]] = append_stmt_column_set_default(C[j].new.name, ForwardedDefault(C[j].new.def))
      /\ g[C[j]] = append_stmt_column_drop_not_null(C[j].new.name)
      /\ h[C[j]] = append_stmt_column_set_not_null(C[j].new.name)
    BY <1>1, <1>2, <2>2, ZenonT(30)
  <2> HIDE DEF f, g, h
  <2> DEFINE n == C[j].new.name
             d == ForwardedDefault(C[j].new.def)
  <2> ASSUME NEW c
      PROVE  /\ UpdateOf(append_stmt_column_set_default(n, d), n)
             /\ UpdateOf(append_stmt_column_drop_not_null(n), n)
             /\ UpdateOf(append_stmt_column_set_not_null(n), n)
             /\ Changed(c, append_stmt_column_set_default(n, d)) = DefaultAs(c, d)
             /\ Changed(c, append_stmt_column_drop_not_null(n)) = NotNullAs(c, FALSE)
             /\ Changed(c, append_stmt_column_set_not_null(n)) = NotNullAs(c, TRUE)
    BY <2>1, UpdateStatement, Zenon
  <2> QED
    BY Zenon
<1> HIDE DEF f, g, h
<1> /\ Updates(DefaultStatements(C), C, IsSent(C), f)
    /\ Updates(NullableStatements(C), C, IsNullable(C), g)
    /\ Updates(NotNullStatements(C), C, IsRequired(C), h)
  BY <1>3, <1>4, Zenon DEF Updates, UpdateOf
<1> DistinctNew(C) => Apart(C, f) /\ Apart(C, g) /\ Apart(C, h)
  BY <1>4, ZenonT(30) DEF DistinctNew, Apart, UpdateOf
<1> QED
  BY <1>1, <1>4, Zenon DEF f, g, h, UpdateOf

LEMMA WithNotNull ==
    ASSUME NEW c \in DuckColumns
    PROVE  /\ NotNullAs(c, TRUE).name = c.name /\ NotNullAs(c, TRUE).type = c.type
           /\ NotNullAs(c, TRUE).notnull = TRUE /\ NotNullAs(c, TRUE).def = c.def
           /\ NotNullAs(c, FALSE).name = c.name /\ NotNullAs(c, FALSE).type = c.type
           /\ NotNullAs(c, FALSE).notnull = FALSE /\ NotNullAs(c, FALSE).def = c.def
BY Zenon DEF NotNullAs, DuckColumns

LEMMA WithDefault ==
    ASSUME NEW c \in DuckColumns, NEW d
    PROVE  /\ DefaultAs(c, d).name = c.name /\ DefaultAs(c, d).type = c.type
           /\ DefaultAs(c, d).notnull = c.notnull /\ DefaultAs(c, d).def = d
BY Zenon DEF DefaultAs, DuckColumns

(* ChangeColumnConvertor after the renames: the default that is sent, and the
   new nullability. *)
ChangeEffect(X, R, C) ==
    /\ R \in Seq(DuckColumns)
    /\ Len(R) = Len(X)
    /\ \A i \in 1 .. Len(X) :
          /\ R[i].name = X[i].name /\ R[i].type = X[i].type
          /\ (\A k \in 1 .. Len(C) : C[k].new.name # X[i].name) => R[i] = X[i]
          /\ \A k \in 1 .. Len(C) : C[k].new.name = X[i].name =>
                /\ R[i].def = IF DefaultIsSent(C[k])
                              THEN ForwardedDefault(C[k].new.def) ELSE X[i].def
                /\ X[i].notnull = C[k].old.notnull => R[i].notnull = C[k].new.notnull

LEMMA ChangePart ==
    \A a, X, Y, Z, R :
       /\ Ready(a)
       /\ WithRenamed(a, X)
       /\ Succeeds(X, DefaultStatements(ChangedColumns(a)), Y)
       /\ Succeeds(Y, NullableStatements(ChangedColumns(a)), Z)
       /\ Succeeds(Z, NotNullStatements(ChangedColumns(a)), R)
       => WithChanged(a, R)
<1>ChangeSteps.
      ASSUME NEW C \in Seq(Pairs), DistinctNew(C), NEW X \in Seq(DuckColumns), NEW Y, NEW Z, NEW R,
             Succeeds(X, DefaultStatements(C), Y), Succeeds(Y, NullableStatements(C), Z),
             Succeeds(Z, NotNullStatements(C), R)
      PROVE  ChangeEffect(X, R, C)
  <2> USE <1>ChangeSteps
  <2>1. /\ Y \in Seq(DuckColumns) /\ Len(Y) = Len(X)
        /\ \A i \in 1 .. Len(X) :
              /\ Y[i].name = X[i].name /\ Y[i].type = X[i].type
              /\ (\A k \in 1 .. Len(C) : C[k].new.name # X[i].name) => Y[i] = X[i]
              /\ \A k \in 1 .. Len(C) : C[k].new.name = X[i].name =>
                    Y[i] = IF DefaultIsSent(C[k])
                           THEN DefaultAs(X[i], ForwardedDefault(C[k].new.def)) ELSE X[i]
    <3> Effect(X, Y, C, IsSent(C), SentDefaultOf(C))
      BY PairUpdates, Updated, Zenon
    <3> \A j \in 1 .. Len(C) :
           /\ SentDefaultOf(C)[C[j]].col = C[j].new.name
           /\ C[j] \in IsSent(C) <=> DefaultIsSent(C[j])
           /\ \A c : Changed(c, SentDefaultOf(C)[C[j]])
                      = DefaultAs(c, ForwardedDefault(C[j].new.def))
      BY PairUpdates, Zenon DEF IsSent
    <3>3. ASSUME NEW i \in 1 .. Len(X)
          PROVE  /\ Y[i].name = X[i].name /\ Y[i].type = X[i].type
                 /\ (\A k \in 1 .. Len(C) : C[k].new.name # X[i].name) => Y[i] = X[i]
      <4> /\ Y[i].name = X[i].name /\ Y[i].type = X[i].type
          /\ (\A k \in 1 .. Len(C) : SentDefaultOf(C)[C[k]].col # X[i].name) => Y[i] = X[i]
        BY Zenon DEF Effect
      <4> QED
        BY Zenon
    <3> ASSUME NEW i \in 1 .. Len(X), NEW k \in 1 .. Len(C), C[k].new.name = X[i].name
        PROVE  Y[i] = IF DefaultIsSent(C[k])
                      THEN DefaultAs(X[i], ForwardedDefault(C[k].new.def)) ELSE X[i]
      <4> Y[i] = IF C[k] \in IsSent(C) THEN Changed(X[i], SentDefaultOf(C)[C[k]]) ELSE X[i]
        BY Zenon DEF Effect
      <4> QED
        BY Zenon
    <3> QED
      BY <3>3, Zenon DEF Effect
  <2>2. /\ Z \in Seq(DuckColumns) /\ Len(Z) = Len(Y)
        /\ \A i \in 1 .. Len(Y) :
              /\ Z[i].name = Y[i].name /\ Z[i].type = Y[i].type
              /\ (\A k \in 1 .. Len(C) : C[k].new.name # Y[i].name) => Z[i] = Y[i]
              /\ \A k \in 1 .. Len(C) : C[k].new.name = Y[i].name =>
                    Z[i] = IF C[k].old.notnull /\ ~C[k].new.notnull
                           THEN NotNullAs(Y[i], FALSE) ELSE Y[i]
    <3> Effect(Y, Z, C, IsNullable(C), NullableOf(C))
      BY <2>1, PairUpdates, Updated, Zenon
    <3> \A j \in 1 .. Len(C) :
           /\ NullableOf(C)[C[j]].col = C[j].new.name
           /\ C[j] \in IsNullable(C) <=> (C[j].old.notnull /\ ~C[j].new.notnull)
           /\ \A c : Changed(c, NullableOf(C)[C[j]]) = NotNullAs(c, FALSE)
      BY PairUpdates, Zenon DEF IsNullable
    <3>3. ASSUME NEW i \in 1 .. Len(Y)
          PROVE  /\ Z[i].name = Y[i].name /\ Z[i].type = Y[i].type
                 /\ (\A k \in 1 .. Len(C) : C[k].new.name # Y[i].name) => Z[i] = Y[i]
      <4> /\ Z[i].name = Y[i].name /\ Z[i].type = Y[i].type
          /\ (\A k \in 1 .. Len(C) : NullableOf(C)[C[k]].col # Y[i].name) => Z[i] = Y[i]
        BY Zenon DEF Effect
      <4> QED
        BY Zenon
    <3> ASSUME NEW i \in 1 .. Len(Y), NEW k \in 1 .. Len(C), C[k].new.name = Y[i].name
        PROVE  Z[i] = IF C[k].old.notnull /\ ~C[k].new.notnull THEN NotNullAs(Y[i], FALSE) ELSE Y[i]
      <4> Z[i] = IF C[k] \in IsNullable(C) THEN Changed(Y[i], NullableOf(C)[C[k]]) ELSE Y[i]
        BY ZenonT(30) DEF Effect
      <4> QED
        BY Zenon
    <3> QED
      BY <3>3, Zenon DEF Effect
  <2>3. /\ R \in Seq(DuckColumns) /\ Len(R) = Len(Z)
        /\ \A i \in 1 .. Len(Z) :
              /\ R[i].name = Z[i].name /\ R[i].type = Z[i].type
              /\ (\A k \in 1 .. Len(C) : C[k].new.name # Z[i].name) => R[i] = Z[i]
              /\ \A k \in 1 .. Len(C) : C[k].new.name = Z[i].name =>
                    R[i] = IF ~C[k].old.notnull /\ C[k].new.notnull
                           THEN NotNullAs(Z[i], TRUE) ELSE Z[i]
    <3> Effect(Z, R, C, IsRequired(C), RequiredOf(C))
      BY <2>2, PairUpdates, Updated, Zenon
    <3> \A j \in 1 .. Len(C) :
           /\ RequiredOf(C)[C[j]].col = C[j].new.name
           /\ C[j] \in IsRequired(C) <=> (~C[j].old.notnull /\ C[j].new.notnull)
           /\ \A c : Changed(c, RequiredOf(C)[C[j]]) = NotNullAs(c, TRUE)
      BY PairUpdates, Zenon DEF IsRequired
    <3>3. ASSUME NEW i \in 1 .. Len(Z)
          PROVE  /\ R[i].name = Z[i].name /\ R[i].type = Z[i].type
                 /\ (\A k \in 1 .. Len(C) : C[k].new.name # Z[i].name) => R[i] = Z[i]
      <4> /\ R[i].name = Z[i].name /\ R[i].type = Z[i].type
          /\ (\A k \in 1 .. Len(C) : RequiredOf(C)[C[k]].col # Z[i].name) => R[i] = Z[i]
        BY Zenon DEF Effect
      <4> QED
        BY Zenon
    <3> ASSUME NEW i \in 1 .. Len(Z), NEW k \in 1 .. Len(C), C[k].new.name = Z[i].name
        PROVE  R[i] = IF ~C[k].old.notnull /\ C[k].new.notnull THEN NotNullAs(Z[i], TRUE) ELSE Z[i]
      <4> R[i] = IF C[k] \in IsRequired(C) THEN Changed(Z[i], RequiredOf(C)[C[k]]) ELSE Z[i]
        BY ZenonT(30) DEF Effect
      <4> QED
        BY Zenon
    <3> QED
      BY <3>3, Zenon DEF Effect
  <2>4. ASSUME NEW i \in 1 .. Len(X)
        PROVE  /\ R[i].name = X[i].name /\ R[i].type = X[i].type
               /\ (\A k \in 1 .. Len(C) : C[k].new.name # X[i].name) => R[i] = X[i]
    <3> i \in 1 .. Len(Y) /\ i \in 1 .. Len(Z)
      BY <2>1, <2>2, Zenon
    <3> /\ R[i].name = X[i].name /\ R[i].type = X[i].type
        /\ Y[i].name = X[i].name /\ Z[i].name = X[i].name
      BY <2>1, <2>2, <2>3, ZenonT(30)
    <3> ASSUME \A k \in 1 .. Len(C) : C[k].new.name # X[i].name
        PROVE  R[i] = X[i]
      <4> Y[i] = X[i]
        BY <2>1, Zenon
      <4> Z[i] = Y[i]
        BY <2>2, Zenon
      <4> QED
        BY <2>3, Zenon
    <3> QED
      BY Zenon
  <2>5. ASSUME NEW i \in 1 .. Len(X), NEW k \in 1 .. Len(C), C[k].new.name = X[i].name
        PROVE  /\ R[i].def = IF DefaultIsSent(C[k])
                             THEN ForwardedDefault(C[k].new.def) ELSE X[i].def
               /\ X[i].notnull = C[k].old.notnull => R[i].notnull = C[k].new.notnull
    <3>1. i \in 1 .. Len(Y) /\ i \in 1 .. Len(Z)
      BY <2>1, <2>2, Zenon
    <3>2. Y[i].name = X[i].name /\ Z[i].name = X[i].name
      BY <2>1, <2>2, <3>1, ZenonT(30)
    <3>3. X[i] \in DuckColumns /\ Y[i] \in DuckColumns /\ Z[i] \in DuckColumns
      BY <2>1, <2>2, <3>1, SMTT(30), ZenonT(30)
    <3>4. C[k].old.notnull \in BOOLEAN /\ C[k].new.notnull \in BOOLEAN
      <4> C[k] \in Pairs
        OBVIOUS
      <4> C[k].old \in Columns /\ C[k].new \in Columns
        BY PairTypes, Zenon
      <4> QED
        BY Zenon DEF Columns
    <3>5. /\ Y[i].notnull = X[i].notnull
          /\ Y[i].def = IF DefaultIsSent(C[k]) THEN ForwardedDefault(C[k].new.def) ELSE X[i].def
      <4> Y[i] = IF DefaultIsSent(C[k])
                 THEN DefaultAs(X[i], ForwardedDefault(C[k].new.def)) ELSE X[i]
        BY <2>1, <2>5, Zenon
      <4> CASE DefaultIsSent(C[k])
        <5> Y[i] = DefaultAs(X[i], ForwardedDefault(C[k].new.def))
          BY Zenon
        <5> Y[i].notnull = X[i].notnull /\ Y[i].def = ForwardedDefault(C[k].new.def)
          BY <3>3, WithDefault, SMTT(30), ZenonT(30)
        <5> QED
          BY Zenon
      <4> QED
        BY Zenon
    <3>6. /\ Z[i].def = Y[i].def
          /\ IF C[k].old.notnull /\ ~C[k].new.notnull
             THEN Z[i].notnull = FALSE ELSE Z[i].notnull = Y[i].notnull
      <4> Z[i] = IF C[k].old.notnull /\ ~C[k].new.notnull
                 THEN NotNullAs(Y[i], FALSE) ELSE Y[i]
        BY <2>2, <2>5, <3>1, <3>2, ZenonT(30)
      <4> CASE C[k].old.notnull /\ ~C[k].new.notnull
        <5> Z[i] = NotNullAs(Y[i], FALSE)
          BY Zenon
        <5> Z[i].notnull = FALSE /\ Z[i].def = Y[i].def
          BY <3>3, WithNotNull, Zenon
        <5> QED
          BY Zenon
      <4> QED
        BY Zenon
    <3> /\ R[i].def = Z[i].def
        /\ IF ~C[k].old.notnull /\ C[k].new.notnull
           THEN R[i].notnull = TRUE ELSE R[i].notnull = Z[i].notnull
      <4> R[i] = IF ~C[k].old.notnull /\ C[k].new.notnull
                 THEN NotNullAs(Z[i], TRUE) ELSE Z[i]
        BY <2>3, <2>5, <3>1, <3>2, ZenonT(30)
      <4> CASE ~C[k].old.notnull /\ C[k].new.notnull
        <5> R[i] = NotNullAs(Z[i], TRUE)
          BY Zenon
        <5> R[i].notnull = TRUE /\ R[i].def = Z[i].def
          BY <3>3, WithNotNull, ZenonT(30)
        <5> QED
          BY Zenon
      <4> QED
        BY Zenon
    <3> QED
      BY <3>4, <3>5, <3>6, Zenon
  <2> QED
    BY <2>1, <2>2, <2>3, <2>4, <2>5, ZenonT(30) DEF ChangeEffect
<1> SUFFICES ASSUME NEW a, Ready(a), NEW X, WithRenamed(a, X), NEW Y, NEW Z, NEW R,
                    Succeeds(X, DefaultStatements(ChangedColumns(a)), Y),
                    Succeeds(Y, NullableStatements(ChangedColumns(a)), Z),
                    Succeeds(Z, NotNullStatements(ChangedColumns(a)), R)
             PROVE  WithChanged(a, R)
  BY Zenon
<1> DEFINE M == mdb.columns
           A == AddedColumns(a)
           K == KeptColumns(a)
           C == ChangedColumns(a)
           New == AlteredColumns(a)
<1>1. /\ a \in Alters /\ ~a.order /\ Valid(a) /\ WellFormed(Altered(a))
      /\ M \in Seq(Columns) /\ Distinct(M)
  BY ReadyFacts, Zenon
<1>2. /\ X \in Seq(DuckColumns)
      /\ Len(X) = Len(New)
      /\ \A i \in 1 .. Len(X) : X[i].name = New[i].name
      /\ \A i \in 1 .. Len(K) : AsBefore(X[i], K[i])
      /\ \A k \in 1 .. Len(A) : IsAdded(X[Len(K) + k], A[k])
  BY Zenon DEF WithRenamed
<1>3. /\ Len(New) = Len(K) + Len(A)
      /\ Distinct(New)
  BY <1>1, NewFacts, Zenon
<1>4. K \in Seq(Columns)
  BY <1>1, KeptFacts, Zenon
<1>5. /\ \A k \in 1 .. Len(C) : \E i \in 1 .. Len(K) :
            ChangedAt(a, k, i) /\ K[i].name \in DOMAIN a.change
      /\ \A i \in 1 .. Len(K) : K[i].name \in DOMAIN a.change =>
            \E k \in 1 .. Len(C) : ChangedAt(a, k, i)
      /\ C \in Seq(Pairs)
      /\ DistinctNew(C)
  BY <1>1, ChangedFacts, Zenon
<1>6. \A k, i : ChangedAt(a, k, i) => C[k].old = K[i] /\ C[k].new = New[i]
  BY Zenon DEF ChangedAt
<1>7. A \in Seq(Columns)
  BY <1>1, AddedFacts, Zenon
<1>8. WithChanged(a, R) <=>
         /\ R \in Seq(DuckColumns)
         /\ Len(R) = Len(New)
         /\ \A i \in 1 .. Len(R) : R[i].name = New[i].name
         /\ \A i \in 1 .. Len(K) : IF K[i].name \in DOMAIN a.change
                                   THEN ChangedTo(R[i], K[i], New[i]) ELSE AsBefore(R[i], K[i])
         /\ \A k \in 1 .. Len(A) : IsAdded(R[Len(K) + k], A[k])
  BY Zenon DEF WithChanged
<1>9. /\ Succeeds(X, DefaultStatements(C), Y)
      /\ Succeeds(Y, NullableStatements(C), Z)
      /\ Succeeds(Z, NotNullStatements(C), R)
  BY Zenon
<1> HIDE DEF M, A, K, C, New
<1>10. ChangeEffect(X, R, C)
  BY <1>2, <1>5, <1>9, <1>ChangeSteps, ZenonT(30)
<1>11. /\ R \in Seq(DuckColumns)
       /\ Len(R) = Len(X)
       /\ \A i \in 1 .. Len(X) :
             /\ R[i].name = X[i].name /\ R[i].type = X[i].type
             /\ (\A k \in 1 .. Len(C) : C[k].new.name # X[i].name) => R[i] = X[i]
             /\ \A k \in 1 .. Len(C) : C[k].new.name = X[i].name =>
                   /\ R[i].def = IF DefaultIsSent(C[k])
                                 THEN ForwardedDefault(C[k].new.def) ELSE X[i].def
                   /\ X[i].notnull = C[k].old.notnull => R[i].notnull = C[k].new.notnull
  BY <1>10, Zenon DEF ChangeEffect
<1>12. /\ \A i \in 1 .. Len(K) : i \in 1 .. Len(X)
       /\ \A k \in 1 .. Len(A) : Len(K) + k \in 1 .. Len(X) /\ Len(K) + k \notin 1 .. Len(K)
  <2> Len(K) \in Nat /\ Len(A) \in Nat
    BY <1>4, <1>7, SMTT(30), ZenonT(30)
  <2> QED
    BY <1>2, <1>3, SMTT(30), ZenonT(30)
<1>13. ASSUME NEW i \in 1 .. Len(X), i \in 1 .. Len(K) => K[i].name \notin DOMAIN a.change
       PROVE  R[i] = X[i]
  <2>1. ASSUME NEW k \in 1 .. Len(C) PROVE C[k].new.name # X[i].name
    <3> PICK m \in 1 .. Len(K) : ChangedAt(a, k, m) /\ K[m].name \in DOMAIN a.change
      BY <1>5, Zenon
    <3> C[k].new = New[m] /\ m # i /\ m \in 1 .. Len(New) /\ i \in 1 .. Len(New)
      BY <1>2, <1>6, <1>12, <1>13, ZenonT(30)
    <3> QED
      BY <1>2, <1>3, Zenon DEF Distinct
  <2> QED
    BY <1>11, <2>1, Zenon
<1>14. ASSUME NEW i \in 1 .. Len(K), K[i].name \in DOMAIN a.change
       PROVE  ChangedTo(R[i], K[i], New[i])
  <2>1. PICK k \in 1 .. Len(C) : ChangedAt(a, k, i)
    BY <1>5, <1>14, Zenon
  <2> C[k].old = K[i] /\ C[k].new = New[i]
    BY <1>6, <2>1, Zenon
  <2> i \in 1 .. Len(X) /\ X[i].name = New[i].name /\ AsBefore(X[i], K[i])
    BY <1>2, <1>12, Zenon
  <2>4. C[k].new.name = X[i].name
    BY Zenon
  <2> /\ R[i].type = X[i].type
      /\ R[i].def = IF DefaultIsSent(C[k]) THEN ForwardedDefault(C[k].new.def) ELSE X[i].def
      /\ X[i].notnull = C[k].old.notnull => R[i].notnull = C[k].new.notnull
    BY <1>11, <2>4, Zenon
  <2> DefaultIsSent(C[k]) <=> Sent(K[i], New[i])
    BY Zenon DEF DefaultIsSent, Sent
  <2> QED
    BY Zenon DEF AsBefore, ChangedTo
<1> \A i \in 1 .. Len(K) : IF K[i].name \in DOMAIN a.change
                           THEN ChangedTo(R[i], K[i], New[i]) ELSE AsBefore(R[i], K[i])
  BY <1>2, <1>12, <1>13, <1>14, ZenonT(30)
<1> \A k \in 1 .. Len(A) : IsAdded(R[Len(K) + k], A[k])
  BY <1>2, <1>12, <1>13, Zenon
<1> QED
  BY <1>2, <1>8, <1>11, Zenon

---------------------------------------------------------------------------
(* ADD COLUMN *)

IsNotNull(columns) == {c \in ToSet(columns) : c.notnull}

IsFilled(columns) == {c \in ToSet(columns) : c.notnull /\ c.def = NoDefault}

LEMMA AddList ==
    ASSUME NEW a
    PROVE  AddColumnTranslate(a)
             = AddStatements(AddedColumns(a))
                 \o SetNotNullStatements(Where(AddedColumns(a), IsNotNull(AddedColumns(a))))
                 \o DropDefaultStatements(Where(AddedColumns(a), IsFilled(AddedColumns(a))))
BY Zenon DEF AddColumnTranslate, NotNull, IsNotNull, IsFilled

NewColumn(s) == [name |-> s.col, type |-> s.arg, notnull |-> FALSE, def |-> s.def]

(* The column ADD COLUMN makes of a definition. *)
FreshColumn(c) == [name |-> c.name, type |-> c.type, notnull |-> FALSE, def |-> AddedDefault(c)]

LEMMA AddMade ==
    \A A :
       /\ A \in Seq(Columns)
       => /\ AddStatements(A) \in Seq(Statement)
          /\ Len(AddStatements(A)) = Len(A)
          /\ \A k \in 1 .. Len(A) :
                /\ AddStatements(A)[k].op = "add"
                /\ AddStatements(A)[k].col = A[k].name
                /\ NewColumn(AddStatements(A)[k]) = FreshColumn(A[k])
                /\ FreshColumn(A[k]) \in DuckColumns
<1>AddedDefaultType.
      ASSUME NEW c \in Columns
      PROVE  AddedDefault(c) \in DuckDefaults
  <2> USE <1>AddedDefaultType
  <2>1. c.def \in Defaults
    BY Zenon DEF Columns
  <2> Materialised(c.def) \in DuckDefaults
    BY <2>1, Zenon DEF Materialised, DuckDefaults
  <2> Null \in DuckDefaults /\ <<"now">> \in DuckDefaults
    BY Zenon DEF DuckDefaults, Defaults
  <2> QED
    BY Zenon DEF AddedDefault
<1> SUFFICES ASSUME NEW A \in Seq(Columns)
             PROVE  /\ AddStatements(A) \in Seq(Statement)
                    /\ Len(AddStatements(A)) = Len(A)
                    /\ \A k \in 1 .. Len(A) :
                          /\ AddStatements(A)[k].op = "add"
                          /\ AddStatements(A)[k].col = A[k].name
                          /\ NewColumn(AddStatements(A)[k]) = FreshColumn(A[k])
                          /\ FreshColumn(A[k]) \in DuckColumns
  BY Zenon
<1> DEFINE ss == AddStatements(A)
<1>1. ss = [i \in 1 .. Len(A) |-> append_stmt_column_add(A[i], AddedDefault(A[i]))]
  BY DEF AddStatements
<1> HIDE DEF ss
<1>2. ASSUME NEW k \in 1 .. Len(A)
      PROVE  /\ ss[k] \in Statement
             /\ ss[k].op = "add"
             /\ ss[k].col = A[k].name
             /\ NewColumn(ss[k]) = FreshColumn(A[k])
             /\ FreshColumn(A[k]) \in DuckColumns
  <2>1. ss[k] = append_stmt_column_add(A[k], AddedDefault(A[k])) /\ A[k] \in Columns
    BY <1>1
  <2>2. ss[k] = [op |-> "add", col |-> A[k].name, arg |-> A[k].type, def |-> AddedDefault(A[k])]
    BY <2>1, Zenon DEF append_stmt_column_add
  <2>3. A[k].name \in ColumnNames /\ A[k].type \in Types
    BY <2>1, SMTT(30), Zenon DEF Columns
  <2> AddedDefault(A[k]) \in DuckDefaults
    BY <2>1, <1>AddedDefaultType, Zenon
  <2>5. ss[k] \in Statement /\ ss[k].op = "add" /\ ss[k].col = A[k].name
    BY <2>2, <2>3, SMTT(30), ZenonT(30) DEF Statement
  <2> NewColumn(ss[k]) = FreshColumn(A[k])
    BY <2>2, SMTT(30), ZenonT(30) DEF NewColumn, FreshColumn
  <2> FreshColumn(A[k]) \in DuckColumns
    BY <2>3, Zenon DEF FreshColumn, DuckColumns
  <2> QED
    BY <2>5, Zenon
<1> ss \in Seq(Statement) /\ Len(ss) = Len(A)
  BY <1>1, <1>2, SMTT(30), ZenonT(30)
<1> QED
  BY <1>2, Zenon DEF ss

LEMMA AddPart ==
    \A a, X :
       /\ Ready(a)
       /\ Succeeds(duck, AddColumnTranslate(a), X)
       => WithAdded(a, X)
<1>AppendFacts.
      ASSUME NEW V, NEW s \in Seq(V), NEW v \in V
      PROVE  Append(s, v) \in Seq(V) /\ Len(Append(s, v)) = Len(s) + 1
  BY <1>AppendFacts
  (* ADD COLUMN appends, in order, columns the table does not have. *)
<1>AddPhase.
      ASSUME NEW X \in Seq(DuckColumns), NEW V, NEW ss \in Seq(V), NEW R, Succeeds(X, ss, R),
             \A k \in 1 .. Len(ss) : ss[k].op = "add" /\ NewColumn(ss[k]) \in DuckColumns
      PROVE  /\ R \in Seq(DuckColumns)
             /\ Len(R) = Len(X) + Len(ss)
             /\ \A i \in 1 .. Len(X) : R[i] = X[i]
             /\ \A k \in 1 .. Len(ss) : R[Len(X) + k] = NewColumn(ss[k])
             /\ \A k \in 1 .. Len(ss) : ss[k].col \notin Names(X)
  <2> USE <1>AddPhase
  <2>1. PICK h : Leads(h, X, ss, R)
    BY Zenon DEF Succeeds
  <2>2. Len(ss) \in Nat /\ Len(X) \in Nat
    OBVIOUS
  <2> DEFINE Good(j) ==
          /\ h[j] \in Seq(DuckColumns)
          /\ Len(h[j]) = Len(X) + j
          /\ \A i \in 1 .. Len(X) : h[j][i] = X[i]
          /\ \A k \in 1 .. j : h[j][Len(X) + k] = NewColumn(ss[k])
          /\ \A k \in 1 .. j : ss[k].col \notin Names(X)
  <2>3. Good(0)
    BY <2>1, <2>2, SMTT(30), ZenonT(30) DEF Leads
  <2>4. ASSUME NEW j \in 0 .. Len(ss) - 1, Good(j) PROVE Good(j + 1)
    <3> DEFINE s == ss[j + 1]
               Y == h[j]
               Z == h[j + 1]
    <3>1. j + 1 \in 1 .. Len(ss) /\ j + 1 - 1 = j
      BY <2>2, SMTT(30), Zenon
    <3>2. Accepted(Y, s) /\ Z = Stepped(Y, s)
      BY <2>1, <3>1, SMTT(30), Zenon DEF Leads
    <3>3. s.op = "add" /\ NewColumn(s) \in DuckColumns
      BY <3>1, Zenon
    <3>4. Z = Append(Y, NewColumn(s))
      BY <3>2, <3>3, Zenon DEF Stepped, NewColumn
    <3>5. s.col \notin Names(Y)
      BY <3>2, <3>3, Zenon DEF Accepted
    <3> HIDE DEF s, Y, Z
    <3> /\ Y \in Seq(DuckColumns) /\ Len(Y) = Len(X) + j
        /\ \A i \in 1 .. Len(X) : Y[i] = X[i]
        /\ \A k \in 1 .. j : Y[Len(X) + k] = NewColumn(ss[k])
        /\ \A k \in 1 .. j : ss[k].col \notin Names(X)
      BY <2>4, SMTT(30), ZenonT(30) DEF Y
    <3>7. Z \in Seq(DuckColumns) /\ Len(Z) = Len(X) + (j + 1)
      <4> Z \in Seq(DuckColumns) /\ Len(Z) = Len(Y) + 1
        BY <3>3, <3>4, <1>AppendFacts, ZenonT(30)
      <4> QED
        BY <2>2
    <3>8. \A i \in 1 .. Len(X) : Z[i] = X[i]
      BY <2>2, <3>4, SMTT(30), ZenonT(30)
    <3>9. ASSUME NEW k \in 1 .. j + 1 PROVE Z[Len(X) + k] = NewColumn(ss[k])
      <4> CASE k \in 1 .. j
        BY <2>2, <3>4, SMTT(30), ZenonT(30)
      <4> CASE k = j + 1
        BY <2>2, <3>4, SMTT(30), ZenonT(30) DEF s
      <4> QED
        BY SMTT(30)
    <3> s.col \notin Names(X)
      <4> SUFFICES ASSUME s.col \in Names(X) PROVE FALSE
        BY Zenon
      <4> PICK i \in 1 .. Len(X) : X[i].name = s.col
        BY NamedAt, ZenonT(30)
      <4> i \in 1 .. Len(Y) /\ Y[i].name = s.col
        BY <2>2
      <4> QED
        BY <3>5, NamesOf, ZenonT(30)
    <3> \A k \in 1 .. j + 1 : ss[k].col \notin Names(X)
      BY DEF s
    <3> QED
      BY <3>7, <3>8, <3>9, SMTT(30), ZenonT(30) DEF Z
  <2> HIDE DEF Good
  <2> Good(Len(ss))
    <3> DEFINE G == {j \in Nat : Good(j)}
    <3> 0 \in G /\ \A j \in 0 .. Len(ss) - 1 : j \in G => j + 1 \in G
      BY <2>3, <2>4, SMTT(30), Zenon
    <3> Len(ss) \in G
      BY <2>2, UpTo, Zenon
    <3> QED
      BY Zenon
  <2> QED
    BY <2>1, Zenon DEF Good, Leads
  (* AddColumnConvertor: the new columns come last, NOT NULL as they are defined
     and without the temporary default. *)
<1>AddSteps.
      ASSUME NEW A \in Seq(Columns), Distinct(A), NEW N, NEW F, NEW X \in Seq(DuckColumns), NEW R,
             Succeeds(X, AddStatements(A) \o SetNotNullStatements(Where(A, N))
                           \o DropDefaultStatements(Where(A, F)), R)
      PROVE  /\ R \in Seq(DuckColumns)
             /\ Len(R) = Len(X) + Len(A)
             /\ \A i \in 1 .. Len(X) : R[i] = X[i]
             /\ \A k \in 1 .. Len(A) :
                   /\ A[k].name \notin Names(X)
                   /\ R[Len(X) + k].name = A[k].name
                   /\ R[Len(X) + k].type = A[k].type
                   /\ R[Len(X) + k].notnull <=> A[k] \in N
                   /\ R[Len(X) + k].def = IF A[k] \in F THEN Null ELSE AddedDefault(A[k])
  <2> USE <1>AddSteps
  <2> DEFINE s1 == AddStatements(A)
             s2 == SetNotNullStatements(Where(A, N))
             s3 == DropDefaultStatements(Where(A, F))
  <2>1. /\ s1 \in Seq(Statement) /\ Len(s1) = Len(A)
        /\ \A k \in 1 .. Len(A) :
              /\ s1[k].op = "add"
              /\ s1[k].col = A[k].name
              /\ NewColumn(s1[k]) = FreshColumn(A[k])
              /\ FreshColumn(A[k]) \in DuckColumns
    BY AddMade, Zenon
  <2>2. s2 \in Seq(Statement)
    BY ColumnUpdates, Updated, Zenon
  <2>3. s3 \in Seq(Statement)
    BY ColumnUpdates, Updated, Zenon
  <2>4. Succeeds(X, (s1 \o s2) \o s3, R)
    BY Zenon
  <2>5. \A Y, Z : Y \in Seq(DuckColumns) =>
           /\ Succeeds(Y, s2, Z) => Effect(Y, Z, A, N, NotNullOf(A))
           /\ Succeeds(Y, s3, Z) => Effect(Y, Z, A, F, DropDefaultOf(A))
    BY ColumnUpdates, Updated, Zenon
  <2> HIDE DEF s1, s2, s3
  <2>6. s1 \o s2 \in Seq(Statement)
    BY <2>1, <2>2, SMTT(30), ZenonT(30)
  <2>7. PICK Z : Succeeds(X, s1 \o s2, Z) /\ Succeeds(Z, s3, R)
    BY <2>3, <2>4, <2>6, SucceedsSplit, ZenonT(30)
  <2>8. PICK Y : Succeeds(X, s1, Y) /\ Succeeds(Y, s2, Z)
    BY <2>1, <2>2, <2>7, SucceedsSplit, ZenonT(30)
  <2>9. /\ Y \in Seq(DuckColumns) /\ Len(Y) = Len(X) + Len(A)
        /\ \A i \in 1 .. Len(X) : Y[i] = X[i]
        /\ \A k \in 1 .. Len(A) : Y[Len(X) + k] = FreshColumn(A[k])
        /\ \A k \in 1 .. Len(A) : A[k].name \notin Names(X)
    <3> \A k \in 1 .. Len(s1) : s1[k].op = "add" /\ NewColumn(s1[k]) \in DuckColumns
      BY <2>1, Zenon
    <3> /\ Y \in Seq(DuckColumns)
        /\ Len(Y) = Len(X) + Len(s1)
        /\ \A i \in 1 .. Len(X) : Y[i] = X[i]
        /\ \A k \in 1 .. Len(s1) : Y[Len(X) + k] = NewColumn(s1[k])
        /\ \A k \in 1 .. Len(s1) : s1[k].col \notin Names(X)
      BY <2>1, <2>8, <1>AddPhase, ZenonT(30)
    <3> QED
      BY <2>1, Zenon
  <2>10. /\ Z \in Seq(DuckColumns) /\ Len(Z) = Len(Y)
         /\ \A i \in 1 .. Len(Y) :
               /\ Z[i].name = Y[i].name
               /\ (\A j \in 1 .. Len(A) : A[j].name # Y[i].name) => Z[i] = Y[i]
               /\ \A j \in 1 .. Len(A) : A[j].name = Y[i].name =>
                     Z[i] = IF A[j] \in N THEN NotNullAs(Y[i], TRUE) ELSE Y[i]
    <3> Effect(Y, Z, A, N, NotNullOf(A))
      BY <2>5, <2>8, <2>9, Zenon
    <3> \A j \in 1 .. Len(A) : /\ NotNullOf(A)[A[j]].col = A[j].name
                               /\ \A c : Changed(c, NotNullOf(A)[A[j]]) = NotNullAs(c, TRUE)
      BY ColumnUpdates, Zenon
    <3> QED
      BY ZenonT(60) DEF Effect
  <2>11. /\ R \in Seq(DuckColumns) /\ Len(R) = Len(Z)
         /\ \A i \in 1 .. Len(Z) :
               /\ (\A j \in 1 .. Len(A) : A[j].name # Z[i].name) => R[i] = Z[i]
               /\ \A j \in 1 .. Len(A) : A[j].name = Z[i].name =>
                     R[i] = IF A[j] \in F THEN DefaultAs(Z[i], Null) ELSE Z[i]
    <3> Effect(Z, R, A, F, DropDefaultOf(A))
      BY <2>5, <2>7, <2>10, Zenon
    <3> \A j \in 1 .. Len(A) : /\ DropDefaultOf(A)[A[j]].col = A[j].name
                               /\ \A c : Changed(c, DropDefaultOf(A)[A[j]]) = DefaultAs(c, Null)
      BY ColumnUpdates, Zenon
    <3> QED
      BY ZenonT(60) DEF Effect
  <2>12. Len(X) \in Nat /\ Len(A) \in Nat
    OBVIOUS
  <2>13. ASSUME NEW i \in 1 .. Len(X) PROVE R[i] = X[i]
    <3> i \in 1 .. Len(Y) /\ i \in 1 .. Len(Z)
      BY <2>9, <2>10, <2>12, SMTT(30), ZenonT(30)
    <3> Y[i] = X[i] /\ X[i].name \in Names(X)
      BY <2>9, NamesOf, ZenonT(30)
    <3> \A j \in 1 .. Len(A) : A[j].name # Y[i].name
      BY <2>9, Zenon
    <3> Z[i] = Y[i]
      BY <2>10, Zenon
    <3> QED
      BY <2>11, ZenonT(30)
  <2>14. ASSUME NEW k \in 1 .. Len(A)
         PROVE  /\ R[Len(X) + k].name = A[k].name
                /\ R[Len(X) + k].type = A[k].type
                /\ R[Len(X) + k].notnull <=> A[k] \in N
                /\ R[Len(X) + k].def = IF A[k] \in F THEN Null ELSE AddedDefault(A[k])
    <3> DEFINE i == Len(X) + k
    <3>1. i \in 1 .. Len(Y) /\ i \in 1 .. Len(Z)
      BY <2>9, <2>10, <2>12, SMTT(30), ZenonT(30)
    <3>2. Y[i] = FreshColumn(A[k])
      BY <2>9, SMTT(30), ZenonT(30)
    <3> HIDE DEF i
    <3>3. Y[i].name = A[k].name
      BY <3>2, SMTT(30), ZenonT(30) DEF FreshColumn
    <3>4. Z[i] = (IF A[k] \in N THEN NotNullAs(Y[i], TRUE) ELSE Y[i]) /\ Z[i].name = A[k].name
      BY <2>10, <3>1, <3>3, ZenonT(30)
    <3>5. R[i] = IF A[k] \in F THEN DefaultAs(Z[i], Null) ELSE Z[i]
      BY <2>11, <3>1, <3>4, ZenonT(30)
    <3>6. Y[i] \in DuckColumns /\ Z[i] \in DuckColumns
      BY <2>9, <2>10, <3>1, SMTT(30), ZenonT(30)
    <3>7. /\ Y[i].type = A[k].type /\ Y[i].notnull = FALSE
          /\ Y[i].def = AddedDefault(A[k])
      BY <3>2, SMTT(30), ZenonT(30) DEF FreshColumn
    <3>8. Z[i].type = A[k].type /\ (Z[i].notnull <=> A[k] \in N) /\ Z[i].def = AddedDefault(A[k])
      <4> CASE A[k] \in N
        <5> Z[i] = NotNullAs(Y[i], TRUE)
          BY <3>4, Zenon
        <5> Z[i].type = Y[i].type /\ Z[i].notnull = TRUE /\ Z[i].def = Y[i].def
          BY <3>6, WithNotNull, Zenon
        <5> QED
          BY <3>7, Zenon
      <4> CASE A[k] \notin N
        BY <3>4, <3>7, ZenonT(30)
      <4> QED
        BY Zenon
    <3> /\ R[i].name = A[k].name /\ R[i].type = A[k].type
        /\ R[i].notnull <=> A[k] \in N
        /\ R[i].def = IF A[k] \in F THEN Null ELSE AddedDefault(A[k])
      <4> CASE A[k] \in F
        <5> R[i] = DefaultAs(Z[i], Null)
          BY <3>5, ZenonT(30)
        <5> /\ R[i].name = Z[i].name /\ R[i].type = Z[i].type
            /\ R[i].notnull = Z[i].notnull /\ R[i].def = Null
          BY <3>6, WithDefault, SMTT(30), ZenonT(30)
        <5> QED
          BY <3>4, <3>8, ZenonT(30)
      <4> CASE A[k] \notin F
        BY <3>4, <3>5, <3>8, ZenonT(30)
      <4> QED
        BY Zenon
    <3> QED
      BY Zenon DEF i
  <2> Len(R) = Len(X) + Len(A)
    BY <2>9, <2>10, <2>11, ZenonT(30)
  <2> QED
    BY <2>9, <2>11, <2>13, <2>14, ZenonT(30)
<1> SUFFICES ASSUME NEW a, Ready(a), NEW X, Succeeds(duck, AddColumnTranslate(a), X)
             PROVE  WithAdded(a, X)
  BY Zenon
<1> DEFINE A == AddedColumns(a)
<1> /\ a \in Alters /\ ~a.order /\ WellFormed(Altered(a)) /\ duck \in Seq(DuckColumns)
    /\ mdb.columns \in Seq(Columns) /\ Distinct(mdb.columns)
    /\ Names(duck) = Names(mdb.columns)
  BY ReadyFacts, Zenon
<1>2. A \in Seq(Columns)
  BY AddedFacts, Zenon
<1>3. Distinct(A)
  BY NewFacts, Zenon
<1>4. Succeeds(duck, AddStatements(A) \o SetNotNullStatements(Where(A, IsNotNull(A)))
                       \o DropDefaultStatements(Where(A, IsFilled(A))), X)
  BY AddList, Zenon
<1>5. \A k \in 1 .. Len(A) : A[k] \in ToSet(A)
  BY <1>2, WhereIn, ZenonT(30)
<1> HIDE DEF A
<1> /\ X \in Seq(DuckColumns)
    /\ Len(X) = Len(duck) + Len(A)
    /\ \A i \in 1 .. Len(duck) : X[i] = duck[i]
    /\ \A k \in 1 .. Len(A) :
          /\ A[k].name \notin Names(duck)
          /\ X[Len(duck) + k].name = A[k].name
          /\ X[Len(duck) + k].type = A[k].type
          /\ X[Len(duck) + k].notnull <=> A[k] \in IsNotNull(A)
          /\ X[Len(duck) + k].def = IF A[k] \in IsFilled(A) THEN Null ELSE AddedDefault(A[k])
  BY <1>2, <1>3, <1>4, <1>AddSteps, SMTT(30), ZenonT(30)
<1>7. ASSUME NEW k \in 1 .. Len(A) PROVE IsAdded(X[Len(duck) + k], A[k])
  <2> /\ A[k] \in IsNotNull(A) <=> A[k].notnull
      /\ A[k] \in IsFilled(A) <=> A[k].notnull /\ A[k].def = NoDefault
    BY <1>5, Zenon DEF IsNotNull, IsFilled
  <2> QED
    BY Zenon DEF IsAdded
<1> QED
  BY <1>7, Zenon DEF WithAdded, A

---------------------------------------------------------------------------
(* Defaults and keys *)

LEMMA DefaultList ==
    ASSUME NEW a, AlteredColumns(a) \in Seq(Columns)
    PROVE  ChangeColumnDefaultTranslate(a)
             = DropDefaultStatements(Where(AlteredColumns(a), DiffersEmptied(a)))
                 \o SetDefaultStatements(Where(AlteredColumns(a), DiffersFilled(a)))
<1> DEFINE New == AlteredColumns(a)
           D == Where(New, Differs(a))
           E == {c \in ToSet(D) : c.def \in {NoDefault, Null} \cup SequenceExprs}
<1>1. DefaultChanged(a) = D
  BY Zenon DEF DefaultChanged, Differs
<1>2. ChangeColumnDefaultTranslate(a)
        = DropDefaultStatements(Where(D, E)) \o SetDefaultStatements(Where(D, ToSet(D) \ E))
  BY <1>1, Zenon DEF ChangeColumnDefaultTranslate
<1>3. \A j \in 1 .. Len(New) : New[j] \in Differs(a) => New[j] \in ToSet(D)
  <2> /\ D \in Seq(Columns)
      /\ \A j \in 1 .. Len(New) : New[j] \in Differs(a) => \E k \in 1 .. Len(D) : D[k] = New[j]
    BY WhereFacts, SMTT(30), ZenonT(30)
  <2> HIDE DEF D
  <2> DOMAIN D = 1 .. Len(D)
    OBVIOUS
  <2> QED
    BY Zenon DEF ToSet
<1>4. \A j \in 1 .. Len(New) :
         New[j] \in DiffersEmptied(a) <=> (New[j] \in Differs(a) /\ New[j] \in E)
  BY <1>3, Zenon DEF DiffersEmptied, Emptied
<1>5. \A j \in 1 .. Len(New) :
         New[j] \in DiffersFilled(a) <=> (New[j] \in Differs(a) /\ New[j] \in ToSet(D) \ E)
  BY <1>3, Zenon DEF DiffersFilled, Emptied
<1> HIDE DEF E
<1>6. Where(D, E) = Where(New, DiffersEmptied(a))
  BY <1>4, WhereTwice, SMTT(30), ZenonT(30)
<1> Where(D, ToSet(D) \ E) = Where(New, DiffersFilled(a))
  <2> DEFINE F == ToSet(D) \ E
  <2> \A j \in 1 .. Len(New) :
         New[j] \in DiffersFilled(a) <=> (New[j] \in Differs(a) /\ New[j] \in F)
    BY <1>5, SMTT(30), Zenon
  <2> HIDE DEF F
  <2> Where(D, F) = Where(New, DiffersFilled(a))
    BY WhereTwice
  <2> QED
    BY Zenon DEF F
<1> QED
  BY <1>2, <1>6, Zenon

(* ChangeColumnDefaultConvertor: the default of the definition, as it is
   forwarded. *)
DefaultEffect(X, R, src, S, T) ==
    /\ R \in Seq(DuckColumns)
    /\ Len(R) = Len(X)
    /\ \A i \in 1 .. Len(X) :
          /\ R[i].name = X[i].name /\ R[i].type = X[i].type
          /\ \A j \in 1 .. Len(src) : src[j].name = X[i].name =>
                /\ R[i].notnull = X[i].notnull
                /\ R[i].def = IF src[j] \in T THEN src[j].def
                              ELSE IF src[j] \in S THEN Null ELSE X[i].def

LEMMA DefaultPart ==
    \A a, X, Y :
       /\ Ready(a)
       /\ X \in Seq(DuckColumns)
       /\ Len(X) = Len(AlteredColumns(a))
       /\ \A i \in 1 .. Len(X) : X[i].name = AlteredColumns(a)[i].name
       /\ Succeeds(X, IF DOMAIN a.setdef # {} THEN ChangeColumnDefaultTranslate(a) ELSE <<>>, Y)
       => WithDefaults(a, X, Y)
<1>DefaultSteps.
      ASSUME NEW src \in Seq(Columns), Distinct(src), NEW S, NEW T, NEW X \in Seq(DuckColumns),
             NEW Y, NEW R,
             Succeeds(X, DropDefaultStatements(Where(src, S)), Y),
             Succeeds(Y, SetDefaultStatements(Where(src, T)), R)
      PROVE  DefaultEffect(X, R, src, S, T)
  <2> USE <1>DefaultSteps
  <2>1. /\ Y \in Seq(DuckColumns) /\ Len(Y) = Len(X)
        /\ \A i \in 1 .. Len(X) :
              /\ Y[i].name = X[i].name /\ Y[i].type = X[i].type
              /\ \A j \in 1 .. Len(src) : src[j].name = X[i].name =>
                    Y[i] = IF src[j] \in S THEN DefaultAs(X[i], Null) ELSE X[i]
    <3> Effect(X, Y, src, S, DropDefaultOf(src))
      BY ColumnUpdates, Updated, Zenon
    <3> \A j \in 1 .. Len(src) :
           /\ DropDefaultOf(src)[src[j]].col = src[j].name
           /\ \A c : Changed(c, DropDefaultOf(src)[src[j]]) = DefaultAs(c, Null)
      BY ColumnUpdates, Zenon
    <3> QED
      BY ZenonT(30) DEF Effect
  <2>2. /\ R \in Seq(DuckColumns) /\ Len(R) = Len(Y)
        /\ \A i \in 1 .. Len(Y) :
              /\ R[i].name = Y[i].name /\ R[i].type = Y[i].type
              /\ \A j \in 1 .. Len(src) : src[j].name = Y[i].name =>
                    R[i] = IF src[j] \in T THEN DefaultAs(Y[i], src[j].def) ELSE Y[i]
    <3> Effect(Y, R, src, T, SetDefaultOf(src))
      BY <2>1, ColumnUpdates, Updated, Zenon
    <3> \A j \in 1 .. Len(src) :
           /\ SetDefaultOf(src)[src[j]].col = src[j].name
           /\ \A c : Changed(c, SetDefaultOf(src)[src[j]]) = DefaultAs(c, src[j].def)
      BY ColumnUpdates, Zenon
    <3> QED
      BY Zenon DEF Effect
  <2>3. \A i \in 1 .. Len(X) : R[i].name = X[i].name /\ R[i].type = X[i].type
    BY <2>1, <2>2, Zenon
  <2>4. ASSUME NEW i \in 1 .. Len(X), NEW j \in 1 .. Len(src), src[j].name = X[i].name
        PROVE  /\ R[i].notnull = X[i].notnull
               /\ R[i].def = IF src[j] \in T THEN src[j].def
                             ELSE IF src[j] \in S THEN Null ELSE X[i].def
    <3>1. /\ i \in 1 .. Len(Y) /\ Y[i].name = X[i].name
      BY <2>1, Zenon
    <3>2. X[i] \in DuckColumns /\ Y[i] \in DuckColumns
      BY <2>1, <3>1, SMTT(30), ZenonT(30)
    <3>3. /\ Y[i].notnull = X[i].notnull
          /\ Y[i].def = IF src[j] \in S THEN Null ELSE X[i].def
      <4> Y[i] = IF src[j] \in S THEN DefaultAs(X[i], Null) ELSE X[i]
        BY <2>1, <2>4, Zenon
      <4> CASE src[j] \in S
        <5> Y[i] = DefaultAs(X[i], Null)
          BY Zenon
        <5> Y[i].notnull = X[i].notnull /\ Y[i].def = Null
          BY <3>2, WithDefault, SMTT(30), ZenonT(30)
        <5> QED
          BY Zenon
      <4> QED
        BY Zenon
    <3> /\ R[i].notnull = Y[i].notnull
        /\ R[i].def = IF src[j] \in T THEN src[j].def ELSE Y[i].def
      <4> R[i] = IF src[j] \in T THEN DefaultAs(Y[i], src[j].def) ELSE Y[i]
        BY <2>2, <2>4, <3>1, Zenon
      <4> CASE src[j] \in T
        <5> R[i] = DefaultAs(Y[i], src[j].def)
          BY Zenon
        <5> R[i].notnull = Y[i].notnull /\ R[i].def = src[j].def
          BY <3>2, WithDefault, SMTT(30), ZenonT(30)
        <5> QED
          BY Zenon
      <4> QED
        BY Zenon
    <3> QED
      BY <3>3, Zenon
  <2> QED
    BY <2>1, <2>2, <2>3, <2>4, ZenonT(30) DEF DefaultEffect
<1> SUFFICES ASSUME NEW a, Ready(a), NEW X \in Seq(DuckColumns), Len(X) = Len(AlteredColumns(a)),
                    \A i \in 1 .. Len(X) : X[i].name = AlteredColumns(a)[i].name, NEW Y,
                    Succeeds(X, IF DOMAIN a.setdef # {}
                                THEN ChangeColumnDefaultTranslate(a) ELSE <<>>, Y)
             PROVE  WithDefaults(a, X, Y)
  BY Zenon
<1> DEFINE New == AlteredColumns(a)
           S == DiffersEmptied(a)
           T == DiffersFilled(a)
<1>1. New \in Seq(Columns) /\ Distinct(New)
  <2> /\ a \in Alters /\ ~a.order /\ WellFormed(Altered(a))
      /\ mdb.columns \in Seq(Columns) /\ Distinct(mdb.columns)
    BY ReadyFacts, Zenon
  <2> QED
    BY NewFacts, Zenon
<1>2. CASE DOMAIN a.setdef # {}
  <2>1. Succeeds(X, DropDefaultStatements(Where(New, S)) \o SetDefaultStatements(Where(New, T)), Y)
    BY <1>1, <1>2, DefaultList, Zenon
  <2>2. /\ \A i \in 1 .. Len(New) : New[i] \in Differs(a) /\ New[i].def \in Emptied => New[i] \in S
        /\ \A i \in 1 .. Len(New) :
              New[i] \in Differs(a) /\ New[i].def \notin Emptied => New[i] \in T
        /\ \A c \in S : c \in Differs(a) /\ c.def \in Emptied
        /\ \A c \in T : c \in Differs(a) /\ c.def \notin Emptied
    BY Zenon DEF DiffersEmptied, DiffersFilled
  <2>3. WithDefaults(a, X, Y) <=>
          /\ Y \in Seq(DuckColumns)
          /\ Len(Y) = Len(X)
          /\ \A i \in 1 .. Len(X) :
                /\ Y[i].name = X[i].name /\ Y[i].type = X[i].type /\ Y[i].notnull = X[i].notnull
                /\ Y[i].def = IF New[i] \in Differs(a)
                              THEN ForwardedDefault(New[i].def) ELSE X[i].def
    BY <1>2, Zenon DEF WithDefaults, Redefined
  <2>4. Len(X) = Len(New) /\ \A i \in 1 .. Len(X) : X[i].name = New[i].name
    BY Zenon
  <2> HIDE DEF New, S, T
  <2>5. /\ DropDefaultStatements(Where(New, S)) \in Seq(Statement)
        /\ SetDefaultStatements(Where(New, T)) \in Seq(Statement)
    BY <1>1, ColumnUpdates, Updated, Zenon
  <2>6. \E W : /\ Succeeds(X, DropDefaultStatements(Where(New, S)), W)
               /\ Succeeds(W, SetDefaultStatements(Where(New, T)), Y)
    BY <2>1, <2>5, SucceedsSplit, Zenon
  <2>7. PICK W : /\ Succeeds(X, DropDefaultStatements(Where(New, S)), W)
                 /\ Succeeds(W, SetDefaultStatements(Where(New, T)), Y)
    BY <2>6, Zenon
  <2>8. DefaultEffect(X, Y, New, S, T)
    BY <1>1, <2>7, <1>DefaultSteps, ZenonT(30)
  <2>9. /\ Y \in Seq(DuckColumns)
        /\ Len(Y) = Len(X)
        /\ \A i \in 1 .. Len(X) :
              /\ Y[i].name = X[i].name /\ Y[i].type = X[i].type
              /\ \A j \in 1 .. Len(New) : New[j].name = X[i].name =>
                    /\ Y[i].notnull = X[i].notnull
                    /\ Y[i].def = IF New[j] \in T THEN New[j].def
                                  ELSE IF New[j] \in S THEN Null ELSE X[i].def
    BY <2>8, Zenon DEF DefaultEffect
  <2>10. ASSUME NEW i \in 1 .. Len(X)
         PROVE  /\ Y[i].notnull = X[i].notnull
                /\ Y[i].def = IF New[i] \in Differs(a)
                              THEN ForwardedDefault(New[i].def) ELSE X[i].def
    <3>1. i \in 1 .. Len(New) /\ New[i].name = X[i].name
      BY <2>4, Zenon
    <3>2. /\ Y[i].notnull = X[i].notnull
          /\ Y[i].def = IF New[i] \in T THEN New[i].def
                        ELSE IF New[i] \in S THEN Null ELSE X[i].def
      BY <2>9, <3>1, Zenon
    <3>3. CASE New[i] \in T
      <4> New[i] \in Differs(a) /\ New[i].def \notin Emptied
        BY <2>2, <3>3, Zenon
      <4> ForwardedDefault(New[i].def) = New[i].def
        BY Zenon DEF Emptied, ForwardedDefault
      <4> QED
        BY <3>2, <3>3, Zenon
    <3> CASE New[i] \in S
      <4> New[i] \in Differs(a) /\ New[i].def \in Emptied /\ New[i] \notin T
        BY <2>2, Zenon
      <4> ForwardedDefault(New[i].def) = Null
        BY Zenon DEF Emptied, ForwardedDefault
      <4> QED
        BY <3>2, Zenon
    <3> CASE New[i] \notin S /\ New[i] \notin T
      <4> New[i] \notin Differs(a)
        BY <2>2, <3>1, Zenon
      <4> QED
        BY <3>2, Zenon
    <3> QED
      BY <3>3, Zenon
  <2> QED
    BY <2>3, <2>9, <2>10, Zenon
<1> CASE DOMAIN a.setdef = {}
  <2> Succeeds(X, <<>>, Y) /\ Len(<<>>) = 0
    BY Zenon
  <2> Y = X
    BY NothingSucceeds, Zenon
  <2> QED
    BY Zenon DEF WithDefaults, Redefined
<1> QED
  BY <1>2, Zenon

LEMMA KeyList ==
    ASSUME NEW a
    PROVE  PrimaryKeyTranslate(a) = SetNotNullStatements(Where(AlteredColumns(a), IsKey(a)))
BY Zenon DEF PrimaryKeyTranslate, IsKey

LEMMA KeyPart ==
    ASSUME NEW a, Ready(a), NEW X \in Seq(DuckColumns), Len(X) = Len(AlteredColumns(a)),
           \A i \in 1 .. Len(X) : X[i].name = AlteredColumns(a)[i].name, NEW Y,
           Succeeds(X, IF a.add_pk # {} THEN PrimaryKeyTranslate(a) ELSE <<>>, Y)
    PROVE  WithKeys(a, X, Y)
<1> DEFINE New == AlteredColumns(a)
           S == IsKey(a)
<1>1. New \in Seq(Columns) /\ Distinct(New)
  <2> /\ a \in Alters /\ ~a.order /\ WellFormed(Altered(a))
      /\ mdb.columns \in Seq(Columns) /\ Distinct(mdb.columns)
    BY ReadyFacts, Zenon
  <2> QED
    BY NewFacts, Zenon
<1>2. CASE a.add_pk # {}
  <2>1. Succeeds(X, SetNotNullStatements(Where(New, S)), Y)
    BY <1>2, KeyList, Zenon
  <2>2. WithKeys(a, X, Y) <=>
          /\ Y \in Seq(DuckColumns)
          /\ Len(Y) = Len(X)
          /\ \A i \in 1 .. Len(X) :
                /\ Y[i].name = X[i].name /\ Y[i].type = X[i].type /\ Y[i].def = X[i].def
                /\ IF New[i] \in S THEN Y[i].notnull = TRUE ELSE Y[i].notnull = X[i].notnull
    BY <1>2, Zenon DEF WithKeys
  <2>3. Len(X) = Len(New) /\ \A i \in 1 .. Len(X) : X[i].name = New[i].name
    BY Zenon
  <2> HIDE DEF New, S
  <2>4. Effect(X, Y, New, S, NotNullOf(New))
    BY <1>1, <2>1, ColumnUpdates, Updated, ZenonT(30)
  <2>5. /\ Y \in Seq(DuckColumns)
        /\ Len(Y) = Len(X)
        /\ \A i \in 1 .. Len(X) :
              /\ Y[i].name = X[i].name /\ Y[i].type = X[i].type
              /\ \A j \in 1 .. Len(New) : New[j].name = X[i].name =>
                    Y[i] = IF New[j] \in S THEN NotNullAs(X[i], TRUE) ELSE X[i]
    <3> \A j \in 1 .. Len(New) :
           /\ NotNullOf(New)[New[j]].col = New[j].name
           /\ \A c : Changed(c, NotNullOf(New)[New[j]]) = NotNullAs(c, TRUE)
      BY <1>1, ColumnUpdates, Zenon
    <3> QED
      BY <2>4, ZenonT(30) DEF Effect
  <2>6. ASSUME NEW i \in 1 .. Len(X)
        PROVE  /\ Y[i].def = X[i].def
               /\ IF New[i] \in S THEN Y[i].notnull = TRUE ELSE Y[i].notnull = X[i].notnull
    <3>1. i \in 1 .. Len(New) /\ New[i].name = X[i].name
      BY <2>3, Zenon
    <3>2. Y[i] = IF New[i] \in S THEN NotNullAs(X[i], TRUE) ELSE X[i]
      BY <2>5, <3>1, Zenon
    <3> CASE New[i] \in S
      <4>1. Y[i] = NotNullAs(X[i], TRUE)
        BY <3>2, Zenon
      <4> X[i] \in DuckColumns
        OBVIOUS
      <4> Y[i].notnull = TRUE /\ Y[i].def = X[i].def
        BY <4>1, WithNotNull, ZenonT(30)
      <4> QED
        BY Zenon
    <3> CASE New[i] \notin S
      BY <3>2, Zenon
    <3> QED
      BY Zenon
  <2> QED
    BY <2>2, <2>5, <2>6, Zenon
<1> CASE a.add_pk = {}
  <2> Succeeds(X, <<>>, Y) /\ Len(<<>>) = 0
    BY Zenon
  <2> Y = X
    BY NothingSucceeds, Zenon
  <2> QED
    BY Zenon DEF WithKeys
<1> QED
  BY <1>2, Zenon

---------------------------------------------------------------------------
(* The convertors one after the other *)

(* The five convertors one after the other. *)
Phases(a, drop_list, X1, X2, X3, X4, R) ==
    /\ Succeeds(duck, AddColumnTranslate(a), X1)
    /\ Succeeds(X1, IF a.drop # {} THEN DropColumnTranslate(a, drop_list) ELSE <<>>, X2)
    /\ Succeeds(X2, ChangeColumnTranslate(a), X3)
    /\ Succeeds(X3, IF DOMAIN a.setdef # {} THEN ChangeColumnDefaultTranslate(a) ELSE <<>>, X4)
    /\ Succeeds(X4, IF a.add_pk # {} THEN PrimaryKeyTranslate(a) ELSE <<>>, R)

LEMMA ListTypes ==
    \A a, drop_list :
       /\ a \in Alters
       /\ mdb.columns \in Seq(Columns)
       /\ Distinct(mdb.columns)
       /\ ~a.order
       /\ Valid(a)
       => /\ AddColumnTranslate(a) \in Seq(Statement)
          /\ DropColumnTranslate(a, drop_list) \in Seq(Statement)
          /\ RenameStatements(ChangedColumns(a)) \in Seq(Statement)
          /\ TypeStatements(ChangedColumns(a)) = <<>>
          /\ DefaultStatements(ChangedColumns(a)) \in Seq(Statement)
          /\ NullableStatements(ChangedColumns(a)) \in Seq(Statement)
          /\ NotNullStatements(ChangedColumns(a)) \in Seq(Statement)
          /\ ChangeColumnTranslate(a) \in Seq(Statement)
          /\ ChangeColumnDefaultTranslate(a) \in Seq(Statement)
          /\ PrimaryKeyTranslate(a) \in Seq(Statement)
  (* No type is ever changed. *)
<1>NoTypeStatements.
      ASSUME NEW C \in Seq(Pairs)
      PROVE  TypeStatements(C) = <<>>
  <2> USE <1>NoTypeStatements
  <2> DEFINE S == {p \in ToSet(C) : is_type_changed(p.old, p.new)}
             w == Where(C, S)
  <2>1. S = {}
    BY Zenon DEF is_type_changed
  <2> HIDE DEF S
  <2>2. w \in Seq(Pairs) /\ \A k \in 1 .. Len(w) : w[k] \in S /\ \E j \in 1 .. Len(C) : w[k] = C[j]
    BY WhereFacts, SMTT(30), ZenonT(30)
  <2> HIDE DEF w
  <2>3. Len(w) = 0 /\ w = <<>>
    <3> 1 .. Len(w) = {}
      BY <2>1, <2>2, Zenon
    <3> QED
      BY <2>2
  <2> TypeStatements(C)
        = [i \in DOMAIN w |-> append_stmt_column_change_type(w[i].new.name, w[i].new.type)]
    BY Zenon DEF TypeStatements, w, S
  <2> DOMAIN w = {}
    BY <2>3, SMTT(30), ZenonT(30)
  <2> QED
    BY SMTT(30)
<1> SUFFICES ASSUME NEW a \in Alters, NEW drop_list, mdb.columns \in Seq(Columns),
                    Distinct(mdb.columns), ~a.order, Valid(a)
             PROVE  /\ AddColumnTranslate(a) \in Seq(Statement)
                    /\ DropColumnTranslate(a, drop_list) \in Seq(Statement)
                    /\ RenameStatements(ChangedColumns(a)) \in Seq(Statement)
                    /\ TypeStatements(ChangedColumns(a)) = <<>>
                    /\ DefaultStatements(ChangedColumns(a)) \in Seq(Statement)
                    /\ NullableStatements(ChangedColumns(a)) \in Seq(Statement)
                    /\ NotNullStatements(ChangedColumns(a)) \in Seq(Statement)
                    /\ ChangeColumnTranslate(a) \in Seq(Statement)
                    /\ ChangeColumnDefaultTranslate(a) \in Seq(Statement)
                    /\ PrimaryKeyTranslate(a) \in Seq(Statement)
  BY Zenon
<1> DEFINE A == AddedColumns(a)
           New == AlteredColumns(a)
           C == ChangedColumns(a)
<1>1. A \in Seq(Columns)
  BY AddedFacts, Zenon
<1>2. New \in Seq(Columns)
  <2> WellFormed(Altered(a))
    BY Zenon DEF Valid
  <2> QED
    BY NewFacts, Zenon
<1>3. C \in Seq(Pairs)
  BY ChangedFacts, Zenon
<1> HIDE DEF A, New, C
<1>4. AddColumnTranslate(a) \in Seq(Statement)
  <2> DEFINE s1 == AddStatements(A)
             s2 == SetNotNullStatements(Where(A, IsNotNull(A)))
             s3 == DropDefaultStatements(Where(A, IsFilled(A)))
  <2>1. s1 \in Seq(Statement)
    BY <1>1, AddMade, Zenon
  <2>2. s2 \in Seq(Statement)
    BY <1>1, ColumnUpdates, Updated, ZenonT(30)
  <2>3. s3 \in Seq(Statement)
    BY <1>1, ColumnUpdates, Updated, ZenonT(30)
  <2> AddColumnTranslate(a) = (s1 \o s2) \o s3
    BY AddList, ZenonT(30) DEF A
  <2> HIDE DEF s1, s2, s3
  <2> (s1 \o s2) \o s3 \in Seq(Statement)
    BY <2>1, <2>2, <2>3, SMTT(30), ZenonT(30)
  <2> QED
    BY Zenon
<1>5. DropColumnTranslate(a, drop_list) \in Seq(Statement)
  BY DropList, DropMade, ZenonT(30)
<1>6. /\ RenameStatements(C) \in Seq(Statement)
      /\ DefaultStatements(C) \in Seq(Statement)
      /\ NullableStatements(C) \in Seq(Statement)
      /\ NotNullStatements(C) \in Seq(Statement)
      /\ TypeStatements(C) = <<>>
  <2>1. RenameStatements(C) \in Seq(Statement)
    BY <1>3, RenameMade, Zenon
  <2>2. DefaultStatements(C) \in Seq(Statement)
    BY <1>3, PairUpdates, Updated, ZenonT(30)
  <2>3. NullableStatements(C) \in Seq(Statement)
    BY <1>3, PairUpdates, Updated, ZenonT(30)
  <2> NotNullStatements(C) \in Seq(Statement)
    BY <1>3, PairUpdates, Updated, ZenonT(30)
  <2> TypeStatements(C) = <<>>
    BY <1>3, <1>NoTypeStatements, ZenonT(30)
  <2> QED
    BY <2>1, <2>2, <2>3, ZenonT(30)
<1>7. ChangeColumnTranslate(a) \in Seq(Statement)
  <2> ChangeColumnTranslate(a)
        = RenameStatements(C) \o TypeStatements(C) \o DefaultStatements(C)
            \o NullableStatements(C) \o NotNullStatements(C)
    BY Zenon DEF ChangeColumnTranslate, C
  <2> DEFINE s1 == RenameStatements(C)
             s2 == TypeStatements(C)
             s3 == DefaultStatements(C)
             s4 == NullableStatements(C)
             s5 == NotNullStatements(C)
  <2> /\ s1 \in Seq(Statement) /\ s2 = <<>> /\ s3 \in Seq(Statement)
      /\ s4 \in Seq(Statement) /\ s5 \in Seq(Statement)
      /\ ChangeColumnTranslate(a) = s1 \o s2 \o s3 \o s4 \o s5
    BY <1>6, ZenonT(30)
  <2> HIDE DEF s1, s2, s3, s4, s5
  <2> QED
    OBVIOUS
<1>8. ChangeColumnDefaultTranslate(a) \in Seq(Statement)
  <2> DEFINE s1 == DropDefaultStatements(Where(New, DiffersEmptied(a)))
             s2 == SetDefaultStatements(Where(New, DiffersFilled(a)))
  <2>1. ChangeColumnDefaultTranslate(a) = s1 \o s2
    BY <1>2, DefaultList, ZenonT(30) DEF New
  <2> s1 \in Seq(Statement)
    BY <1>2, ColumnUpdates, Updated, ZenonT(30)
  <2> s2 \in Seq(Statement)
    BY <1>2, ColumnUpdates, Updated, ZenonT(30)
  <2> HIDE DEF s1, s2
  <2> QED
    BY <2>1, SMTT(30), Zenon
<1> PrimaryKeyTranslate(a) \in Seq(Statement)
  <2> PrimaryKeyTranslate(a) = SetNotNullStatements(Where(New, IsKey(a)))
    BY KeyList, Zenon DEF New
  <2> SetNotNullStatements(Where(New, IsKey(a))) \in Seq(Statement)
    BY <1>2, ColumnUpdates, Updated, ZenonT(30)
  <2> QED
    BY Zenon
<1> QED
  BY <1>4, <1>5, <1>6, <1>7, <1>8, ZenonT(30) DEF C

(* Execute is a recursive function as well. *)

RunAt(h, ss, x, i) == IF i = 0 THEN x ELSE AfterStatement(h[i - 1], ss[i])

Runs(h, ss, x, n) == h = [i \in 0 .. n |-> RunAt(h, ss, x, i)]

LEMMA PhasesExist ==
    \A a, drop_list :
       /\ a \in Alters
       /\ mdb.columns \in Seq(Columns)
       /\ Distinct(mdb.columns)
       /\ ~a.order
       /\ Valid(a)
       /\ Outcome(Statements(a, drop_list)).columns # <<>>
       => \E X1, X2, X3, X4 :
             Phases(a, drop_list, X1, X2, X3, X4, Outcome(Statements(a, drop_list)).columns)
<1>RunsExtends.
      ASSUME NEW ss, NEW x, NEW n \in Nat, NEW g, Runs(g, ss, x, n)
      PROVE  \E h : Runs(h, ss, x, n + 1)
  <2> USE <1>RunsExtends
  <2> DEFINE h == [i \in 0 .. n + 1 |-> IF i = n + 1 THEN RunAt(g, ss, x, n + 1) ELSE g[i]]
  <2>1. \A i \in 0 .. n : g[i] = RunAt(g, ss, x, i)
    BY Zenon DEF Runs
  <2>2. \A i \in 0 .. n : h[i] = g[i]
    BY SMTT(30)
  <2>3. \A i \in 0 .. n + 1 : RunAt(h, ss, x, i) = RunAt(g, ss, x, i)
    BY <2>2, SMTT(30), ZenonT(30) DEF RunAt
  <2>4. \A i \in 0 .. n + 1 : h[i] = RunAt(h, ss, x, i)
    BY <2>1, <2>2, <2>3, SMTT(30), ZenonT(30)
  <2> h = [i \in 0 .. n + 1 |-> h[i]]
    BY Zenon
  <2> HIDE DEF h
  <2> Runs(h, ss, x, n + 1)
    BY <2>4, SMTT(30), ZenonT(30) DEF Runs
  <2> QED
    BY Zenon
<1>RunsExists.
      ASSUME NEW ss, NEW x, NEW n \in Nat
      PROVE  \E h : Runs(h, ss, x, n)
  <2> USE <1>RunsExists
  <2> DEFINE T == {k \in Nat : ~\E h : Runs(h, ss, x, k)}
  <2> SUFFICES ASSUME T # {} PROVE FALSE
    BY Zenon
  <2>1. PICK k \in T : \A m \in T : k <= m
    BY Least, Zenon
  <2>2. CASE k = 0
    <3> DEFINE g == [i \in 0 .. 0 |-> x]
    <3> g = [i \in 0 .. 0 |-> RunAt(g, ss, x, i)]
      BY SMTT(30) DEF RunAt
    <3> HIDE DEF g
    <3> QED
      BY <2>1, <2>2, SMTT(30), ZenonT(30) DEF Runs
  <2>3. CASE k # 0
    <3> k - 1 \in Nat /\ k - 1 \notin T /\ k - 1 + 1 = k
      BY <2>1, <2>3, SMTT(30), ZenonT(30)
    <3> PICK g : Runs(g, ss, x, k - 1)
      BY Zenon
    <3> \E h : Runs(h, ss, x, k - 1 + 1)
      BY <1>RunsExtends, SMTT(30), ZenonT(30)
    <3> QED
      BY <2>1, SMTT(30), ZenonT(30)
  <2> QED
    BY <2>2, <2>3, SMTT(30), ZenonT(30)
<1>ExecuteRuns.
      ASSUME NEW ss, NEW x, Len(ss) \in Nat
      PROVE  \E h : /\ h[0] = x
                    /\ \A i \in 1 .. Len(ss) : h[i] = AfterStatement(h[i - 1], ss[i])
                    /\ Execute(ss, x) = h[Len(ss)]
  <2> USE <1>ExecuteRuns
  <2> DEFINE P(h) == h = [i \in 0 .. Len(ss) |->
                             IF i = 0 THEN x ELSE AfterStatement(h[i - 1], ss[i])]
             after == CHOOSE h : P(h)
  <2>1. \E h : P(h)
    <3> PICK h : Runs(h, ss, x, Len(ss))
      BY <1>RunsExists, Zenon
    <3> P(h)
      BY Zenon DEF Runs, RunAt
    <3> QED
      BY Zenon
  <2>2. P(after)
    BY <2>1, Zenon
  <2>3. Execute(ss, x) = after[Len(ss)]
    BY Zenon DEF Execute
  <2> HIDE DEF after
  <2> \A i \in 0 .. Len(ss) : after[i] = IF i = 0 THEN x ELSE AfterStatement(after[i - 1], ss[i])
    BY <2>2, SMTT(30), ZenonT(30)
  <2> after[0] = x /\ \A i \in 1 .. Len(ss) : after[i] = AfterStatement(after[i - 1], ss[i])
    OBVIOUS
  <2> QED
    BY <2>3, Zenon
  (* A list of statements has a result only if all of them succeed. *)
<1>ExecuteSucceeds.
      ASSUME NEW ss, Len(ss) \in Nat, NEW X, NEW W,
             Execute(ss, [columns |-> X, nulls |-> W]).columns # <<>>
      PROVE  Succeeds(X, ss, Execute(ss, [columns |-> X, nulls |-> W]).columns)
  <2> USE <1>ExecuteSucceeds
  <2> DEFINE x == [columns |-> X, nulls |-> W]
  <2>1. PICK g : /\ g[0] = x
                 /\ \A i \in 1 .. Len(ss) : g[i] = AfterStatement(g[i - 1], ss[i])
                 /\ Execute(ss, x) = g[Len(ss)]
    BY <1>ExecuteRuns, Zenon
  <2>2. x.columns = X
    BY Zenon
  <2> HIDE DEF x
  <2>3. \A i \in 1 .. Len(ss) : g[i].columns = Apply(g[i - 1].columns, g[i - 1].nulls, ss[i])
    <3> \A t, s : AfterStatement(t, s).columns = Apply(t.columns, t.nulls, s)
      BY Zenon DEF AfterStatement
    <3> QED
      BY <2>1, Zenon
  <2>4. \A i \in 1 .. Len(ss) : g[i].columns # <<>> =>
            /\ g[i - 1].columns # <<>>
            /\ Accepted(g[i - 1].columns, ss[i])
            /\ g[i].columns = Stepped(g[i - 1].columns, ss[i])
    <3> SUFFICES ASSUME NEW i \in 1 .. Len(ss), g[i].columns # <<>>
                 PROVE  /\ g[i - 1].columns # <<>>
                        /\ Accepted(g[i - 1].columns, ss[i])
                        /\ g[i].columns = Stepped(g[i - 1].columns, ss[i])
      BY Zenon
    <3> g[i].columns = Apply(g[i - 1].columns, g[i - 1].nulls, ss[i])
      BY <2>3, Zenon
    <3> QED
      BY Zenon DEF Apply, Refused, Accepted, Stepped
  <2> DEFINE T == {k \in Nat : k <= Len(ss) /\ g[Len(ss) - k].columns = <<>>}
  <2>5. T = {}
    <3> SUFFICES ASSUME T # {} PROVE FALSE
      BY Zenon
    <3> PICK k \in T : \A m \in T : k <= m
      BY Least, ZenonT(30)
    <3> k # 0
      BY <2>1, SMTT(30), Zenon DEF x
    <3>3. k - 1 \in Nat /\ k - 1 \notin T
      BY SMTT(30)
    <3> /\ Len(ss) - (k - 1) \in 1 .. Len(ss)
        /\ Len(ss) - (k - 1) - 1 = Len(ss) - k
        /\ g[Len(ss) - (k - 1)].columns # <<>>
      BY <3>3, SMTT(30), Zenon
    <3> g[Len(ss) - (k - 1) - 1].columns # <<>>
      BY <2>4, Zenon
    <3> QED
      BY Zenon
  <2>6. \A i \in 0 .. Len(ss) : g[i].columns # <<>>
    <3> SUFFICES ASSUME NEW i \in 0 .. Len(ss) PROVE g[i].columns # <<>>
      BY Zenon
    <3> Len(ss) - i \in Nat /\ Len(ss) - i <= Len(ss) /\ Len(ss) - (Len(ss) - i) = i
      OBVIOUS
    <3> QED
      BY <2>5, Zenon
  <2> DEFINE h == [i \in 0 .. Len(ss) |-> g[i].columns]
  <2>7. \A i \in 1 .. Len(ss) : Accepted(h[i - 1], ss[i]) /\ h[i] = Stepped(h[i - 1], ss[i])
    <3> SUFFICES ASSUME NEW i \in 1 .. Len(ss)
                 PROVE  Accepted(h[i - 1], ss[i]) /\ h[i] = Stepped(h[i - 1], ss[i])
      BY Zenon
    <3> h[i] = g[i].columns /\ h[i - 1] = g[i - 1].columns /\ g[i].columns # <<>>
      BY <2>6, SMTT(30), ZenonT(30)
    <3> QED
      BY <2>4, Zenon
  <2> h[0] = X /\ h[Len(ss)] = Execute(ss, x).columns
    BY <2>1, <2>2, SMTT(30), ZenonT(30)
  <2> HIDE DEF h
  <2> Leads(h, X, ss, Execute(ss, x).columns)
    BY <2>7, Zenon DEF Leads
  <2> QED
    BY Zenon DEF x, Succeeds
<1> SUFFICES ASSUME NEW a \in Alters, NEW drop_list, mdb.columns \in Seq(Columns),
                    Distinct(mdb.columns), ~a.order, Valid(a),
                    Outcome(Statements(a, drop_list)).columns # <<>>
             PROVE  \E X1, X2, X3, X4 :
                       Phases(a, drop_list, X1, X2, X3, X4,
                              Outcome(Statements(a, drop_list)).columns)
  BY Zenon
<1> DEFINE s1 == AddColumnTranslate(a)
           s2 == IF a.drop # {} THEN DropColumnTranslate(a, drop_list) ELSE <<>>
           s3 == ChangeColumnTranslate(a)
           s4 == IF DOMAIN a.setdef # {} THEN ChangeColumnDefaultTranslate(a) ELSE <<>>
           s5 == IF a.add_pk # {} THEN PrimaryKeyTranslate(a) ELSE <<>>
           R == Outcome(Statements(a, drop_list)).columns
<1>1. <<>> \in Seq(Statement)
  OBVIOUS
<1>2. /\ s1 \in Seq(Statement) /\ s2 \in Seq(Statement) /\ s3 \in Seq(Statement)
      /\ s4 \in Seq(Statement) /\ s5 \in Seq(Statement)
  BY <1>1, ListTypes, Zenon
<1>3. Statements(a, drop_list) = (((s1 \o s2) \o s3) \o s4) \o s5
  BY Zenon DEF Statements
<1>4. \A X1, X2, X3, X4 :
         Phases(a, drop_list, X1, X2, X3, X4, R)
           <=> /\ Succeeds(duck, s1, X1) /\ Succeeds(X1, s2, X2) /\ Succeeds(X2, s3, X3)
               /\ Succeeds(X3, s4, X4) /\ Succeeds(X4, s5, R)
  BY Zenon DEF Phases
<1> HIDE DEF s1, s2, s3, s4, s5
<1>5. /\ s1 \o s2 \in Seq(Statement)
      /\ (s1 \o s2) \o s3 \in Seq(Statement)
      /\ ((s1 \o s2) \o s3) \o s4 \in Seq(Statement)
      /\ (((s1 \o s2) \o s3) \o s4) \o s5 \in Seq(Statement)
  BY <1>2, SMTT(30), Zenon
<1>6. Succeeds(duck, (((s1 \o s2) \o s3) \o s4) \o s5, R)
  <2> DEFINE ss == Statements(a, drop_list)
  <2>1. Len(ss) \in Nat
    BY <1>3, <1>5, SMTT(30), ZenonT(30)
  <2> HIDE DEF ss
  <2>2. Outcome(ss) = Execute(ss, [columns |-> duck, nulls |-> nulls])
    BY Zenon DEF Outcome
  <2> Outcome(ss).columns # <<>> /\ R = Outcome(ss).columns
    BY Zenon DEF ss
  <2> Succeeds(duck, ss, R)
    BY <2>1, <2>2, <1>ExecuteSucceeds, Zenon
  <2> QED
    BY <1>3, Zenon DEF ss
<1> HIDE DEF R
<1>7. PICK X4 : Succeeds(duck, ((s1 \o s2) \o s3) \o s4, X4) /\ Succeeds(X4, s5, R)
  BY <1>2, <1>5, <1>6, SucceedsSplit, ZenonT(30)
<1> PICK X3 : Succeeds(duck, (s1 \o s2) \o s3, X3) /\ Succeeds(X3, s4, X4)
  BY <1>2, <1>5, <1>7, SucceedsSplit, ZenonT(30)
<1> PICK X2 : Succeeds(duck, s1 \o s2, X2) /\ Succeeds(X2, s3, X3)
  BY <1>2, <1>5, SucceedsSplit, ZenonT(30)
<1> PICK X1 : Succeeds(duck, s1, X1) /\ Succeeds(X1, s2, X2)
  BY <1>2, SucceedsSplit, Zenon
<1> Phases(a, drop_list, X1, X2, X3, X4, R)
  BY <1>4, <1>7, ZenonT(30)
<1> QED
  BY Zenon DEF R

LEMMA PhasesLead ==
    ASSUME NEW a, Ready(a), NEW drop_list, NEW X1, NEW X2, NEW X3, NEW X4, NEW R,
           Phases(a, drop_list, X1, X2, X3, X4, R)
    PROVE  Outcomes(a, drop_list, X3, X4, R)
<1> DEFINE M == mdb.columns
           C == ChangedColumns(a)
           G == GoneIf(a, drop_list)
           New == AlteredColumns(a)
<1>1. /\ a \in Alters /\ ~a.order /\ Valid(a) /\ M \in Seq(Columns) /\ Distinct(M)
  BY ReadyFacts, Zenon
<1>2. WithAdded(a, X1)
  BY AddPart, Zenon DEF Phases
<1>3. X2 = Where(X1, NotDropped(X1, M, G))
  <2> X1 \in Seq(DuckColumns)
    BY <1>2, Zenon DEF WithAdded
  <2> QED
    BY DropPart, Zenon DEF Phases
<1>4. /\ X2 \in Seq(DuckColumns)
      /\ \A k \in 1 .. Len(C) : C[k].old.name \in Names(X2)
  BY <1>2, <1>3, RenamedStays, ZenonT(30)
<1>5. /\ RenameStatements(C) \in Seq(Statement)
      /\ TypeStatements(C) = <<>>
      /\ DefaultStatements(C) \in Seq(Statement)
      /\ NullableStatements(C) \in Seq(Statement)
      /\ NotNullStatements(C) \in Seq(Statement)
  BY <1>1, ListTypes, Zenon
<1>6. Succeeds(X2, RenameStatements(C) \o TypeStatements(C) \o DefaultStatements(C)
                     \o NullableStatements(C) \o NotNullStatements(C), X3)
  BY Zenon DEF Phases, ChangeColumnTranslate
<1>7. \E Z, U, V : /\ Succeeds(X2, RenameStatements(C), Z)
                   /\ Succeeds(Z, DefaultStatements(C), U)
                   /\ Succeeds(U, NullableStatements(C), V)
                   /\ Succeeds(V, NotNullStatements(C), X3)
  <2> DEFINE s1 == RenameStatements(C)
             s2 == TypeStatements(C)
             s3 == DefaultStatements(C)
             s4 == NullableStatements(C)
             s5 == NotNullStatements(C)
  <2> /\ s1 \in Seq(Statement) /\ s2 \in Seq(Statement) /\ s3 \in Seq(Statement)
      /\ s4 \in Seq(Statement) /\ s5 \in Seq(Statement) /\ Len(s2) = 0
    <3> s2 \in Seq(Statement) /\ Len(s2) = 0
      BY <1>5, SMTT(30), ZenonT(30)
    <3> QED
      BY <1>5, Zenon
  <2>2. Succeeds(X2, (((s1 \o s2) \o s3) \o s4) \o s5, X3)
    BY <1>6, Zenon
  <2> HIDE DEF s1, s2, s3, s4, s5
  <2> /\ s1 \o s2 \in Seq(Statement) /\ (s1 \o s2) \o s3 \in Seq(Statement)
      /\ ((s1 \o s2) \o s3) \o s4 \in Seq(Statement)
    OBVIOUS
  <2>4. PICK V : Succeeds(X2, ((s1 \o s2) \o s3) \o s4, V) /\ Succeeds(V, s5, X3)
    BY <2>2, SucceedsSplit, Zenon
  <2> PICK U : Succeeds(X2, (s1 \o s2) \o s3, U) /\ Succeeds(U, s4, V)
    BY <2>4, SucceedsSplit, Zenon
  <2> PICK T : Succeeds(X2, s1 \o s2, T) /\ Succeeds(T, s3, U)
    BY SucceedsSplit, Zenon
  <2> PICK Z : Succeeds(X2, s1, Z) /\ Succeeds(Z, s2, T)
    BY SucceedsSplit, Zenon
  <2> T = Z
    BY NothingSucceeds, Zenon
  <2> QED
    BY <2>4, Zenon DEF s1, s3, s4, s5
<1>8. PICK Z, U, V : /\ Succeeds(X2, RenameStatements(C), Z)
                     /\ Succeeds(Z, DefaultStatements(C), U)
                     /\ Succeeds(U, NullableStatements(C), V)
                     /\ Succeeds(V, NotNullStatements(C), X3)
  BY <1>7, Zenon
<1>9. RenameEffect(X2, Z, C)
  <2> C \in Seq(Pairs) /\ DistinctOld(C)
    BY <1>1, ChangedFacts, ZenonT(30)
  <2> HIDE DEF C
  <2> QED
    BY <1>4, <1>8, RenameSteps, ZenonT(30)
<1>10. \A j \in 1 .. Len(M) : M[j] \in G <=> M[j].name \in a.drop
  BY <1>2, <1>3, <1>9, GoneIsDropped, ZenonT(30)
<1>11. WithKept(a, X2)
  BY <1>2, <1>3, <1>10, KeptPart, ZenonT(30)
<1>12. WithRenamed(a, Z)
  BY <1>2, <1>9, <1>11, RenamePart, ZenonT(30)
<1>13. WithChanged(a, X3)
  BY <1>8, <1>12, ChangePart, Zenon
<1>14. WithDefaults(a, X3, X4)
  <2> /\ X3 \in Seq(DuckColumns) /\ Len(X3) = Len(New)
      /\ \A i \in 1 .. Len(X3) : X3[i].name = New[i].name
    BY <1>13, Zenon DEF WithChanged
  <2> QED
    BY DefaultPart, Zenon DEF Phases
<1> WithKeys(a, X4, R)
  <2>1. /\ Len(X3) = Len(New) /\ \A i \in 1 .. Len(X3) : X3[i].name = New[i].name
    BY <1>13, Zenon DEF WithChanged
  <2> /\ X4 \in Seq(DuckColumns) /\ Len(X4) = Len(X3)
      /\ \A i \in 1 .. Len(X3) : X4[i].name = X3[i].name
    BY <1>14, Zenon DEF WithDefaults
  <2> /\ Len(X4) = Len(New) /\ \A i \in 1 .. Len(X4) : X4[i].name = New[i].name
    BY <2>1, Zenon
  <2> QED
    BY KeyPart, Zenon DEF Phases
<1> QED
  BY <1>10, <1>13, <1>14, ZenonT(30) DEF Outcomes

---------------------------------------------------------------------------
(* The inductive invariant *)

LEMMA InplaceInv ==
    ASSUME AlterInv, NEW a \in Alters, NEW drop_list \in BOOLEAN, AlterInplace(a, drop_list)
    PROVE  AlterInv'
<1> DEFINE R == Outcome(Statements(a, drop_list)).columns
<1>1. /\ Idle /\ Valid(a) /\ InplaceSupported(a) /\ ~ConvertorRejects(a, drop_list)
      /\ R # <<>> /\ duck' = R /\ pending' = Altered(a) /\ RecordInplace(a)
      /\ UNCHANGED require_primary_key
  BY Zenon DEF AlterInplace, StartAlter
<1>2. Ready(a)
  BY <1>1, Zenon DEF AlterInv, Ready, InplaceSupported
<1>3. \E X1, X2, X3, X4 : Phases(a, drop_list, X1, X2, X3, X4, R)
  <2> ~a.order /\ mdb.columns \in Seq(Columns) /\ Distinct(mdb.columns)
    BY <1>2, ReadyFacts, Zenon
  <2> QED
    BY <1>1, PhasesExist, Zenon
<1>4. PICK X1, X2, X3, X4 : Phases(a, drop_list, X1, X2, X3, X4, R)
  BY <1>3, Zenon
<1> HIDE DEF R
<1>5. Outcomes(a, drop_list, X3, X4, R)
  BY <1>2, <1>4, PhasesLead, Zenon
<1>6. /\ ~AddColumnRejected(a) /\ ~ChangeColumnRejected(a)
  BY <1>1, Zenon DEF ConvertorRejects
<1>7. ColumnsFit(a, R)
  BY <1>2, <1>5, <1>6, ColumnsAfter, ZenonT(30)
<1>8. retyped' = RetypedAfter(a) /\ frozen' = FrozenAfter(a)
  BY <1>1, RecordFacts, ZenonT(30)
<1> /\ pending'.columns = AlteredColumns(a) /\ pending'.pk = Altered(a).pk
    /\ WellFormed(pending') /\ AlteredColumns(a) \in Seq(Columns)
    /\ AlteredColumns(a) # <<>>
  <2> AlteredColumns(a) \in Seq(Columns) /\ WellFormed(Altered(a))
    BY <1>2, PositionFacts, ZenonT(30) DEF Definition
  <2> Altered(a).columns = AlteredColumns(a)
    BY Zenon DEF Altered
  <2> QED
    BY <1>1, Zenon DEF WellFormed
<1>11. Fits(pending)'
  <2> /\ Len(duck') = Len(pending'.columns)
      /\ \A i \in 1 .. Len(duck') :
            /\ duck'[i].name = pending'.columns[i].name
            /\ duck'[i].notnull = pending'.columns[i].notnull
            /\ duck'[i].name \notin retyped' => duck'[i].type = pending'.columns[i].type
            /\ duck'[i].name \notin frozen' =>
                  SameDefault(duck'[i].def, FieldTranslate(pending'.columns[i]).def)
    BY <1>1, <1>7, <1>8, ZenonT(30) DEF ColumnsFit
  <2> QED
    BY Zenon DEF Fits, Agree
<1> pending' # NoTable
  <2> NoTable.columns = <<>>
    BY Zenon DEF NoTable
  <2> QED
    BY Zenon
<1> QED
  BY <1>1, <1>7, <1>11, ZenonT(30) DEF AlterInv, Idle, ColumnsFit

(* A DROP DEFAULT the handler does not see changes nothing but that default. *)
LEMMA UnseenInv ==
    ASSUME AlterInv, NEW n, DropDefaultUnseen(n)
    PROVE  AlterInv'
<1> DEFINE M == mdb.columns
           W(c) == IF c.name = n THEN WithoutDefault(c) ELSE c
<1>1. /\ pending = NoTable /\ pending' = NoTable /\ duck' = duck /\ retyped' = retyped
      /\ frozen' = frozen \cup {n} /\ Fits(mdb)
      /\ mdb' = [columns |-> [i \in DOMAIN M |-> W(M[i])], pk |-> mdb.pk]
  BY Zenon DEF DropDefaultUnseen, Idle, AlterInv
<1>2. /\ M \in Seq(Columns) /\ WellFormed(mdb) /\ Len(duck) = Len(M)
      /\ \A i \in 1 .. Len(duck) : Agree(duck[i], M[i])
  BY <1>1, Zenon DEF Fits
<1>3. DOMAIN M = 1 .. Len(M) /\ Len(M) \in Nat /\ \A i \in 1 .. Len(M) : M[i] \in Columns
  BY <1>2
<1> DEFINE N == [i \in 1 .. Len(M) |-> W(M[i])]
<1>4. mdb'.columns = N /\ mdb'.pk = mdb.pk
  BY <1>1, <1>3, Zenon
<1>5. ASSUME NEW c \in Columns
      PROVE  /\ W(c) \in Columns
             /\ W(c).name = c.name /\ W(c).type = c.type /\ W(c).notnull = c.notnull
             /\ W(c).auto = c.auto
             /\ c.name # n => W(c) = c
             /\ c.name = n => W(c).def = IF c.notnull THEN NoDefault ELSE Null
  BY Zenon DEF WithoutDefault, Columns, Defaults
<1> HIDE DEF W
<1>6. \A i \in 1 .. Len(M) : N[i] = W(M[i])
  BY Zenon
<1>7. N \in Seq(Columns) /\ Len(N) = Len(M) /\ DOMAIN N = 1 .. Len(M)
  <2> N \in [1 .. Len(M) -> Columns]
    BY <1>3, <1>5, Zenon
  <2> HIDE DEF N
  <2> QED
    BY <1>3
<1> HIDE DEF N
<1>a. ASSUME NEW i \in 1 .. Len(M)
      PROVE  /\ N[i].name = M[i].name /\ N[i].type = M[i].type
             /\ N[i].notnull = M[i].notnull /\ N[i].auto = M[i].auto
             /\ M[i].name # n => N[i] = M[i]
             /\ M[i].name = n => N[i].def = IF M[i].notnull THEN NoDefault ELSE Null
  <2> DEFINE c == M[i]
  <2>1. c \in Columns /\ N[i] = W(c)
    BY <1>3, <1>6, Zenon
  <2> HIDE DEF c
  <2>2. /\ W(c).name = c.name /\ W(c).type = c.type /\ W(c).notnull = c.notnull
        /\ W(c).auto = c.auto
        /\ c.name # n => W(c) = c
        /\ c.name = n => W(c).def = IF c.notnull THEN NoDefault ELSE Null
    BY <2>1, <1>5, Zenon
  <2> QED
    BY <2>1, <2>2, Zenon DEF c
<1>8. WellFormed(mdb')
  <2>1. \A i \in 1 .. Len(M) : N[i].name = M[i].name
    BY <1>a, Zenon
  <2>2. N # <<>>
    <3> M # <<>>
      BY <1>2, Zenon DEF WellFormed
    <3> QED
      BY <1>2, <1>7
  <2>3. Names(N) = Names(M)
    BY <1>3, <1>7, <2>1, Zenon DEF Names
  <2>4. ASSUME NEW i \in 1 .. Len(M)
        PROVE  /\ N[i].def # IF N[i].notnull THEN Null ELSE NoDefault
               /\ N[i].auto => N[i].def = NoDefault /\ N[i].name \in mdb.pk
    <3>1. /\ M[i].def # IF M[i].notnull THEN Null ELSE NoDefault
          /\ M[i].auto => M[i].def = NoDefault /\ M[i].name \in mdb.pk
      BY <1>2, <1>3, Zenon DEF WellFormed
    <3>2. NoDefault # Null
      BY DefaultsAssumption, Zenon
    <3>3. /\ N[i].name = M[i].name /\ N[i].notnull = M[i].notnull /\ N[i].auto = M[i].auto
          /\ M[i].name # n => N[i].def = M[i].def
          /\ M[i].name = n => N[i].def = IF M[i].notnull THEN NoDefault ELSE Null
      BY <1>a, Zenon
    <3> QED
      BY <3>1, <3>2, <3>3, Zenon
  <2>5. \A i, j \in 1 .. Len(M) : N[i].name = N[j].name => i = j
    BY <1>2, <1>3, <2>1, Zenon DEF WellFormed
  <2>6. mdb.pk \subseteq Names(N)
    BY <1>2, <2>3, Zenon DEF WellFormed
  <2> QED
    BY <1>4, <1>7, <2>2, <2>4, <2>5, <2>6, Zenon DEF WellFormed
<1>9. ASSUME NEW i \in 1 .. Len(duck)
      PROVE  /\ duck[i].name = N[i].name
             /\ duck[i].notnull = N[i].notnull
             /\ duck[i].name \notin retyped => duck[i].type = N[i].type
             /\ duck[i].name \notin frozen \cup {n} =>
                   SameDefault(duck[i].def, FieldTranslate(N[i]).def)
  <2>1. i \in 1 .. Len(M) /\ Agree(duck[i], M[i])
    BY <1>2, Zenon
  <2>2. /\ N[i].name = M[i].name /\ N[i].type = M[i].type /\ N[i].notnull = M[i].notnull
        /\ M[i].name # n => N[i] = M[i]
    BY <1>a, <2>1, Zenon
  <2> QED
    BY <2>1, <2>2, Zenon DEF Agree
<1>10. Fits(mdb)'
  <2> /\ Len(duck') = Len(mdb'.columns)
      /\ \A i \in 1 .. Len(duck') :
            /\ duck'[i].name = mdb'.columns[i].name
            /\ duck'[i].notnull = mdb'.columns[i].notnull
            /\ duck'[i].name \notin retyped' => duck'[i].type = mdb'.columns[i].type
            /\ duck'[i].name \notin frozen' =>
                  SameDefault(duck'[i].def, FieldTranslate(mdb'.columns[i]).def)
    BY <1>1, <1>2, <1>4, <1>7, <1>9, Zenon
  <2> mdb'.columns \in Seq(Columns)
    BY <1>4, <1>7, Zenon
  <2> QED
    BY <1>8, Zenon DEF Fits, Agree
<1> QED
  BY <1>1, <1>10, Zenon DEF AlterInv

LEMMA NextInv ==
    AlterInv /\ [Next]_vars => AlterInv'
<1> SUFFICES ASSUME AlterInv, [Next]_vars PROVE AlterInv'
  BY Zenon
<1>1. ASSUME NEW a \in Alters, NEW drop_list \in BOOLEAN, AlterInplace(a, drop_list)
      PROVE  AlterInv'
  BY <1>1, InplaceInv, Zenon
<1>2. CASE UNCHANGED vars
  <2> /\ UNCHANGED <<duck, history>>
      /\ mdb' = mdb /\ pending' = pending /\ torn' = torn /\ duck' = duck
    BY <1>2, Zenon DEF vars
  <2> (Fits(mdb) => Fits(mdb)') /\ (Fits(pending) => Fits(pending)')
    BY FitsUnchanged, Zenon
  <2> QED
    BY Zenon DEF AlterInv, Idle
<1>3. ASSUME NEW a \in Alters, NEW drop_list \in BOOLEAN,
             AlterInplaceFails(a, drop_list) \/ AlterRefused(a, drop_list)
      PROVE  AlterInv'
  BY <1>2, <1>3, Zenon DEF AlterInplaceFails, AlterRefused
<1>4. ASSUME NEW a \in Alters, AlterCopy(a) PROVE AlterInv'
  BY <1>4, CopyInv, Zenon
<1>5. ASSUME NEW n, InsertNull(n) PROVE AlterInv'
  <2> /\ UNCHANGED <<duck, history>>
      /\ mdb' = mdb /\ pending' = pending /\ torn' = torn /\ duck' = duck
    BY <1>5, Zenon DEF InsertNull
  <2> (Fits(mdb) => Fits(mdb)') /\ (Fits(pending) => Fits(pending)')
    BY FitsUnchanged, Zenon
  <2> QED
    BY Zenon DEF AlterInv, Idle
<1>6. CASE InstallDefinition
  <2> /\ UNCHANGED <<duck, history>>
      /\ mdb' = pending /\ pending' = NoTable /\ duck' = duck /\ Fits(pending)
    BY <1>6, Zenon DEF InstallDefinition, AlterInv
  <2> Fits(mdb)'
    BY FitsUnchanged, Zenon
  <2> QED
    BY Zenon DEF AlterInv
<1>7. CASE Crash
  <2> /\ UNCHANGED <<duck, history>>
      /\ torn' = (mdb' # pending) /\ pending' = NoTable /\ duck' = duck /\ Fits(pending)
    BY <1>7, Zenon DEF Crash, AlterInv
  <2> ASSUME ~torn' PROVE Fits(mdb)'
    <3> mdb' = pending
      BY Zenon
    <3> QED
      BY FitsUnchanged, Zenon
  <2> QED
    BY Zenon DEF AlterInv, Idle
<1>8. ASSUME NEW n, DropDefaultUnseen(n) PROVE AlterInv'
  BY <1>8, UnseenInv, Zenon
<1> QED
  BY <1>1, <1>2, <1>3, <1>4, <1>5, <1>6, <1>7, <1>8, Zenon DEF Next

LEMMA AlterInvariant ==
    Spec => []AlterInv
BY InitInv, NextInv, PTL DEF Spec

(* ColumnsAgree for any definition, any set of ALTER statements and any number
   of them: after every ALTER that succeeds in place or by copying, and after a
   crash that did not tear it, DuckDB has the columns of MariaDB's definition
   at the same positions, with their nullability and, unless an in-place ALTER
   changed it, their type. *)
THEOREM ColumnsAlwaysAgree ==
    Spec => []ColumnsAgree
<1> AlterInv => ColumnsAgree
  <2> SUFFICES ASSUME AlterInv, Idle PROVE
        /\ Len(duck) = Len(mdb.columns)
        /\ \A i \in DOMAIN duck :
              /\ duck[i].name = mdb.columns[i].name
              /\ duck[i].notnull = mdb.columns[i].notnull
              /\ duck[i].name \notin retyped => duck[i].type = mdb.columns[i].type
    BY Zenon DEF ColumnsAgree
  <2> /\ duck \in Seq(DuckColumns) /\ Len(duck) = Len(mdb.columns)
      /\ \A i \in 1 .. Len(duck) : Agree(duck[i], mdb.columns[i])
    BY Zenon DEF AlterInv, Fits
  <2> DOMAIN duck = 1 .. Len(duck)
    BY SMTT(30)
  <2> QED
    BY Zenon DEF Agree
<1> QED
  BY AlterInvariant, PTL

(* DefaultsAgree likewise: the default of a column in DuckDB is the one
   CREATE TABLE would give it, up to what sortcmp does not tell apart,
   whichever convertors sent, dropped or left it, except where ADD COLUMN
   froze a computed one or the server dropped it without the handler. *)
THEOREM DefaultsAlwaysAgree ==
    Spec => []DefaultsAgree
<1> AlterInv => DefaultsAgree
  <2> SUFFICES ASSUME AlterInv, Idle, NEW i \in DOMAIN duck,
                      Column(mdb.columns, duck[i].name).name \notin frozen
               PROVE  SameDefault(duck[i].def,
                                  FieldTranslate(Column(mdb.columns, duck[i].name)).def)
    BY Zenon DEF DefaultsAgree
  <2> /\ duck \in Seq(DuckColumns) /\ Len(duck) = Len(mdb.columns)
      /\ mdb.columns \in Seq(Columns) /\ WellFormed(mdb)
      /\ \A j \in 1 .. Len(duck) : Agree(duck[j], mdb.columns[j])
    BY Zenon DEF AlterInv, Fits
  <2>2. DOMAIN duck = 1 .. Len(duck) /\ DOMAIN mdb.columns = 1 .. Len(mdb.columns)
    OBVIOUS
  <2>3. Distinct(mdb.columns)
    BY <2>2, Zenon DEF WellFormed, Distinct
  <2> i \in 1 .. Len(mdb.columns) /\ Agree(duck[i], mdb.columns[i])
    BY <2>2, Zenon
  <2> Column(mdb.columns, mdb.columns[i].name) = mdb.columns[i]
    BY <2>3, ColumnAt, Zenon
  <2> duck[i].name = mdb.columns[i].name
    BY Zenon DEF Agree
  <2> QED
    BY Zenon DEF Agree
<1> QED
  BY AlterInvariant, PTL

=============================================================================

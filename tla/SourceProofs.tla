------------------------------ MODULE SourceProofs ------------------------------
(***************************************************************************)
(* Proofs about the sources of entries.  First the comparator of two of    *)
(* them, for any set of entries, any channel capacities and any size of    *)
(* the writer's groups; then the ShredStream source, for any FEC sets and  *)
(* any channel capacity, with any number of copies of each shred in        *)
(* flight.  The two share no variable.                                     *)
(***************************************************************************)
EXTENDS EntryComparator, ShredSource, FiniteSetTheorems, TLAPS

-----------------------------------------------------------------------------
(* Rows of a key in a sequence.                                            *)

Places(k, rows) == {i \in DOMAIN rows : rows[i].key = k}

LEMMA OfType ==
  ASSUME NEW rows \in Seq(DiffRecord), NEW k
  PROVE  IsFiniteSet(Places(k, rows)) /\ Of(k, rows) = Cardinality(Places(k, rows))
         /\ Of(k, rows) \in Nat
<1>1. IsFiniteSet(1 .. Len(rows))
  BY FS_Interval
<1>2. Places(k, rows) \in SUBSET (1 .. Len(rows))
  BY DEF Places
<1>3. IsFiniteSet(Places(k, rows))
  BY <1>1, <1>2, FS_Subset
<1>4. Of(k, rows) = Cardinality(Places(k, rows))
  BY DEF Of, Places
<1> QED BY <1>3, <1>4, FS_CardinalityType

LEMMA OfEmpty == ASSUME NEW k PROVE Of(k, <<>>) = 0
<1>1. {i \in DOMAIN <<>> : <<>>[i].key = k} = {}
  OBVIOUS
<1> QED BY <1>1, FS_EmptySet DEF Of

(* Shifting positions changes no count. *)
LEMMA Shifted ==
  ASSUME NEW S \in SUBSET Nat, IsFiniteSet(S), NEW m \in Nat
  PROVE  LET T == {i + m : i \in S}
         IN IsFiniteSet(T) /\ Cardinality(T) = Cardinality(S)
<1> DEFINE T == {i + m : i \in S}
           f == [i \in S |-> i + m]
<1>1. f \in Bijection(S, T)
  <2>1. f \in [S -> T] /\ \A i \in S : f[i] = i + m
    OBVIOUS
  <2> HIDE DEF f
  <2>2. f \in Injection(S, T)
    BY <2>1 DEF Injection, IsInjective
  <2>3. f \in Surjection(S, T)
    BY <2>1 DEF Surjection
  <2> QED BY <2>2, <2>3 DEF Bijection
<1>2. ExistsBijection(S, T)
  BY <1>1 DEF ExistsBijection
<1> QED BY <1>2, FS_Bijection

LEMMA OfConcat ==
  ASSUME NEW a \in Seq(DiffRecord), NEW b \in Seq(DiffRecord), NEW k
  PROVE  Of(k, a \o b) = Of(k, a) + Of(k, b)
<1> DEFINE m == Len(a)
           A == Places(k, a)
           B == Places(k, b)
           T == {i + m : i \in B}
           c == a \o b
<1>1. m \in Nat /\ c \in Seq(DiffRecord) /\ Len(c) = m + Len(b) /\ Len(b) \in Nat
  OBVIOUS
<1>2. A \subseteq 1 .. m /\ B \subseteq 1 .. Len(b)
  BY DEF Places
<1>3. /\ \A i \in 1 .. m : c[i] = a[i]
      /\ \A i \in 1 .. Len(b) : c[i + m] = b[i]
  OBVIOUS
<1> HIDE DEF c, m
<1>4. Places(k, c) = A \cup T
  <2>1. ASSUME NEW i \in Places(k, c) PROVE i \in A \cup T
    <3>1. i \in 1 .. m + Len(b) /\ c[i].key = k
      BY <1>1 DEF Places
    <3>2. CASE i \in 1 .. m
      BY <1>3, <3>1, <3>2 DEF Places, m
    <3>3. CASE i \notin 1 .. m
      <4>1. i - m \in 1 .. Len(b) /\ (i - m) + m = i
        BY <1>1, <3>1, <3>3
      <4>2. i - m \in B
        BY <1>3, <3>1, <4>1 DEF Places
      <4> QED BY <4>1, <4>2
    <3> QED BY <3>2, <3>3
  <2>2. ASSUME NEW i \in A PROVE i \in Places(k, c)
    <3>1. i \in 1 .. m /\ a[i].key = k
      BY DEF Places, m
    <3>2. i \in 1 .. Len(c)
      BY <1>1, <3>1
    <3> QED BY <1>1, <1>3, <3>1, <3>2 DEF Places
  <2>3. ASSUME NEW i \in B PROVE i + m \in Places(k, c)
    <3>1. i \in 1 .. Len(b) /\ b[i].key = k
      BY DEF Places
    <3>2. i + m \in 1 .. Len(c)
      BY <1>1, <3>1
    <3> QED BY <1>1, <1>3, <3>1, <3>2 DEF Places
  <2> QED BY <2>1, <2>2, <2>3
<1>5. A \cap T = {}
  <2>1. \A i \in B : i + m > m
    BY <1>1, <1>2
  <2> QED BY <1>1, <1>2, <2>1
<1>6. /\ IsFiniteSet(A) /\ IsFiniteSet(B) /\ Cardinality(A) = Of(k, a) /\ Cardinality(B) = Of(k, b)
      /\ Of(k, a) \in Nat /\ Of(k, b) \in Nat /\ Cardinality(Places(k, c)) = Of(k, c)
  BY <1>1, OfType
<1>7. B \in SUBSET Nat
  BY <1>1, <1>2
<1> HIDE DEF A, B
<1>8. IsFiniteSet(T) /\ Cardinality(T) = Cardinality(B)
  BY <1>1, <1>6, <1>7, Shifted
<1> HIDE DEF T
<1>9. Cardinality(A \cup T) = Cardinality(A) + Cardinality(T) - Cardinality(A \cap T)
  BY <1>6, <1>8, FS_Union
<1>10. Cardinality(A \cap T) = 0
  BY <1>5, FS_EmptySet
<1>11. Of(k, c) = Of(k, a) + Of(k, b) - 0
  BY <1>4, <1>6, <1>8, <1>9, <1>10, Zenon
<1> QED BY <1>6, <1>11 DEF c

LEMMA OfOne ==
  ASSUME NEW r \in DiffRecord, NEW k
  PROVE  Of(k, <<r>>) = IF r.key = k THEN 1 ELSE 0
<1> DEFINE P == {i \in DOMAIN <<r>> : <<r>>[i].key = k}
<1>1. P = IF r.key = k THEN {1} ELSE {}
  OBVIOUS
<1>2. Cardinality({1}) = 1 /\ Cardinality({}) = 0
  BY FS_Singleton, FS_EmptySet
<1> QED BY <1>1, <1>2 DEF Of

LEMMA OfAppend ==
  ASSUME NEW rows \in Seq(DiffRecord), NEW r \in DiffRecord, NEW k
  PROVE  Of(k, Append(rows, r)) = Of(k, rows) + (IF r.key = k THEN 1 ELSE 0)
<1>1. Append(rows, r) = rows \o <<r>>
  OBVIOUS
<1>2. <<r>> \in Seq(DiffRecord)
  OBVIOUS
<1>3. Of(k, rows \o <<r>>) = Of(k, rows) + Of(k, <<r>>)
  BY <1>2, OfConcat
<1> QED BY <1>1, <1>3, OfOne

LEMMA OfTail ==
  ASSUME NEW rows \in Seq(DiffRecord), rows # <<>>, NEW k
  PROVE  /\ Head(rows) \in DiffRecord /\ Tail(rows) \in Seq(DiffRecord)
         /\ Of(k, rows) = Of(k, Tail(rows)) + (IF Head(rows).key = k THEN 1 ELSE 0)
<1>1. Head(rows) \in DiffRecord /\ Tail(rows) \in Seq(DiffRecord)
  OBVIOUS
<1>2. <<Head(rows)>> \in Seq(DiffRecord) /\ rows = <<Head(rows)>> \o Tail(rows)
  BY <1>1
<1>3. Of(k, rows) = Of(k, <<Head(rows)>>) + Of(k, Tail(rows))
  <2> DEFINE first == <<Head(rows)>>
             rest == Tail(rows)
  <2>1. first \in Seq(DiffRecord) /\ rest \in Seq(DiffRecord) /\ rows = first \o rest
    BY <1>1, <1>2
  <2> HIDE DEF first, rest
  <2>2. Of(k, first \o rest) = Of(k, first) + Of(k, rest)
    BY <2>1, OfConcat
  <2> QED BY <2>1, <2>2 DEF first, rest
<1>4. Of(k, <<Head(rows)>>) = IF Head(rows).key = k THEN 1 ELSE 0
  BY <1>1, OfOne
<1>5. Of(k, Tail(rows)) \in Nat
  BY <1>1, OfType
<1> DEFINE one == IF Head(rows).key = k THEN 1 ELSE 0
<1>6. one \in Nat /\ Of(k, rows) = one + Of(k, Tail(rows))
  BY <1>3, <1>4
<1>7. Of(k, rows) = Of(k, Tail(rows)) + one
  <2> HIDE DEF one
  <2> QED BY <1>5, <1>6
<1> QED BY <1>1, <1>7

-----------------------------------------------------------------------------
(* What emit and flush do with rows.                                       *)

LEMMA RowType ==
  ASSUME NEW k \in Key, NEW sources \in SUBSET Source
  PROVE  /\ Row(k, sources) \in DiffRecord /\ Row(k, sources).key = k
         /\ sources = Source => Row(k, sources).source = "BOTH"
BY DEF Row, DiffRecord

LEMMA RangeAppend ==
  ASSUME NEW rows \in Seq(DiffRecord), NEW r \in DiffRecord
  PROVE  Range(Append(rows, r)) = Range(rows) \cup {r}
<1>1. /\ Len(Append(rows, r)) = Len(rows) + 1 /\ Append(rows, r)[Len(rows) + 1] = r
      /\ \A i \in 1 .. Len(rows) : Append(rows, r)[i] = rows[i]
      /\ Append(rows, r) \in Seq(DiffRecord) /\ Len(rows) \in Nat
  OBVIOUS
<1> DEFINE c == Append(rows, r)
<1>2. \A i \in 1 .. Len(rows) + 1 : i \in 1 .. Len(rows) \/ i = Len(rows) + 1
  BY <1>1
<1>3. DOMAIN c = 1 .. Len(rows) + 1 /\ DOMAIN rows = 1 .. Len(rows)
  BY <1>1
<1> HIDE DEF c
<1>4. \A i \in 1 .. Len(rows) + 1 : c[i] \in Range(rows) \cup {r}
  BY <1>1, <1>2, <1>3 DEF Range, c
<1>5. \A i \in 1 .. Len(rows) : rows[i] \in Range(c)
  <2>1. \A i \in 1 .. Len(rows) : i \in 1 .. Len(rows) + 1 /\ c[i] = rows[i]
    BY <1>1 DEF c
  <2> QED BY <1>3, <2>1 DEF Range
<1>6. r \in Range(c)
  <2>1. Len(rows) + 1 \in DOMAIN c /\ c[Len(rows) + 1] = r
    BY <1>1, <1>3 DEF c
  <2> QED BY <2>1 DEF Range
<1> QED BY <1>3, <1>4, <1>5, <1>6 DEF Range, c

LEMMA RangeConcat ==
  ASSUME NEW a \in Seq(DiffRecord), NEW b \in Seq(DiffRecord)
  PROVE  Range(a \o b) \subseteq Range(a) \cup Range(b)
<1> DEFINE c == a \o b
<1>1. /\ Len(c) = Len(a) + Len(b) /\ c \in Seq(DiffRecord) /\ Len(a) \in Nat /\ Len(b) \in Nat
      /\ \A i \in 1 .. Len(a) : c[i] = a[i]
      /\ \A i \in Len(a) + 1 .. Len(a) + Len(b) : c[i] = b[i - Len(a)]
  OBVIOUS
<1>2. DOMAIN c = 1 .. Len(a) + Len(b) /\ DOMAIN a = 1 .. Len(a) /\ DOMAIN b = 1 .. Len(b)
  BY <1>1
<1> HIDE DEF c
<1>3. ASSUME NEW i \in 1 .. Len(a) + Len(b) PROVE c[i] \in Range(a) \cup Range(b)
  <2>1. CASE i \in 1 .. Len(a)
    BY <1>1, <1>2, <2>1 DEF Range
  <2>2. CASE i \notin 1 .. Len(a)
    <3>1. i \in Len(a) + 1 .. Len(a) + Len(b) /\ i - Len(a) \in 1 .. Len(b)
      BY <1>1, <2>2
    <3> QED BY <1>1, <1>2, <3>1 DEF Range
  <2> QED BY <2>1, <2>2
<1> QED BY <1>2, <1>3 DEF Range, c

LEMMA RangeTail ==
  ASSUME NEW rows \in Seq(DiffRecord), rows # <<>>
  PROVE  Range(Tail(rows)) \subseteq Range(rows) /\ Head(rows) \in Range(rows)
<1>1. /\ Tail(rows) \in Seq(DiffRecord) /\ Len(Tail(rows)) = Len(rows) - 1
      /\ Len(rows) \in Nat /\ 1 \in 1 .. Len(rows) /\ Head(rows) = rows[1]
      /\ \A i \in 1 .. Len(rows) - 1 : Tail(rows)[i] = rows[i + 1] /\ i + 1 \in 1 .. Len(rows)
      /\ DOMAIN rows = 1 .. Len(rows) /\ DOMAIN Tail(rows) = 1 .. Len(rows) - 1
  OBVIOUS
<1> QED BY <1>1 DEF Range

(* Rows on their way, in a group or in the file. *)
Made == Range(diff) \cup Range(builders) \cup Range(file)

LEMMA EmitStep ==
  ASSUME diff \in Seq(DiffRecord), Len(diff) <= DiffCapacity, lost \in [Key -> Nat],
         NEW k \in Key, NEW sources \in SUBSET Source, emit(k, sources)
  PROVE  /\ diff' \in Seq(DiffRecord) /\ Len(diff') <= DiffCapacity /\ lost' \in [Key -> Nat]
         /\ \A j \in Key : Of(j, diff') + lost'[j]
                             = (Of(j, diff) + lost[j]) + (IF j = k THEN 1 ELSE 0)
         /\ Range(diff') \subseteq Range(diff) \cup {Row(k, sources)}
<1> DEFINE row == Row(k, sources)
<1>1.   IF Len(diff) < DiffCapacity
        THEN diff' = Append(diff, row) /\ UNCHANGED lost
        ELSE lost' = [lost EXCEPT ![k] = @ + 1] /\ UNCHANGED diff
  BY DEF emit
<1>2. row \in DiffRecord /\ row.key = k
  BY RowType
<1>3. Len(diff) \in Nat /\ DiffCapacity \in Nat
  BY ComparatorAssumption
<1>4. CASE Len(diff) < DiffCapacity
  <2>1. diff' = Append(diff, row) /\ lost' = lost
    BY <1>1, <1>4
  <2>2. diff' \in Seq(DiffRecord) /\ Len(diff') <= DiffCapacity
    BY <1>2, <1>3, <1>4, <2>1
  <2>3. ASSUME NEW j \in Key
        PROVE  Of(j, diff') + lost'[j] = (Of(j, diff) + lost[j]) + (IF j = k THEN 1 ELSE 0)
    <3>1. Of(j, diff') = Of(j, diff) + (IF k = j THEN 1 ELSE 0)
      BY <1>2, <2>1, OfAppend
    <3>2. Of(j, diff) \in Nat /\ lost[j] \in Nat /\ lost'[j] = lost[j]
      BY <2>1, OfType
    <3> QED BY <3>1, <3>2
  <2>4. Range(diff') \subseteq Range(diff) \cup {Row(k, sources)}
    BY <1>2, <2>1, RangeAppend
  <2> QED BY <2>1, <2>2, <2>3, <2>4
<1>5. CASE ~(Len(diff) < DiffCapacity)
  <2>1. diff' = diff /\ lost' = [lost EXCEPT ![k] = @ + 1]
    BY <1>1, <1>5
  <2>2. ASSUME NEW j \in Key
        PROVE  Of(j, diff') + lost'[j] = (Of(j, diff) + lost[j]) + (IF j = k THEN 1 ELSE 0)
    <3>1. Of(j, diff) \in Nat /\ lost[j] \in Nat /\ Of(j, diff') = Of(j, diff)
      BY <2>1, OfType
    <3>2. lost'[j] = lost[j] + (IF j = k THEN 1 ELSE 0)
      BY <2>1, <3>1
    <3> QED BY <3>1, <3>2
  <2> QED BY <2>1, <2>2
<1> QED BY <1>4, <1>5

LEMMA FlushStep ==
  ASSUME file \in Seq(DiffRecord), lost \in [Key -> Nat], NEW rows \in Seq(DiffRecord), Flush(rows)
  PROVE  /\ builders' = <<>> /\ file' \in Seq(DiffRecord) /\ lost' \in [Key -> Nat]
         /\ \A j \in Key : Of(j, file') + lost'[j] = (Of(j, file) + lost[j]) + Of(j, rows)
         /\ Range(file') \subseteq Range(file) \cup Range(rows)
<1>1. builders' = <<>>
  BY DEF Flush
<1>2. \A j \in Key : Of(j, file) \in Nat /\ Of(j, rows) \in Nat /\ lost[j] \in Nat
  BY OfType
<1>3. CASE file' = file \o rows /\ lost' = lost
  <2>1. \A j \in Key : Of(j, file') = Of(j, file) + Of(j, rows)
    BY <1>3, OfConcat
  <2>2. Range(file') \subseteq Range(file) \cup Range(rows)
    BY <1>3, RangeConcat
  <2>3. \A j \in Key : Of(j, file') + lost'[j] = (Of(j, file) + lost[j]) + Of(j, rows)
    BY <1>2, <1>3, <2>1
  <2>4. file' \in Seq(DiffRecord)
    BY <1>3
  <2> QED BY <1>1, <1>3, <2>2, <2>3, <2>4
<1>4. CASE file' = file /\ lost' = [k \in Key |->
             lost[k] + Cardinality({i \in DOMAIN rows : rows[i].key = k})]
  <2>1. \A j \in Key : lost'[j] = lost[j] + Of(j, rows)
    BY <1>4 DEF Of
  <2>2. lost' \in [Key -> Nat]
    <3>1. lost' = [k \in Key |-> lost'[k]]
      BY <1>4
    <3>2. \A j \in Key : lost'[j] \in Nat
      BY <1>2, <2>1
    <3> QED BY <3>1, <3>2
  <2>3. \A j \in Key : Of(j, file') + lost'[j] = (Of(j, file) + lost[j]) + Of(j, rows)
    <3> SUFFICES ASSUME NEW j \in Key
                 PROVE  Of(j, file') + lost'[j] = (Of(j, file) + lost[j]) + Of(j, rows)
      OBVIOUS
    <3>1. Of(j, file') = Of(j, file)
      BY <1>4
    <3>2. Of(j, file) \in Nat /\ Of(j, rows) \in Nat /\ lost[j] \in Nat
      BY <1>2
    <3> QED BY <2>1, <3>1, <3>2
  <2> QED BY <1>1, <1>4, <2>2, <2>3
<1> QED BY <1>3, <1>4 DEF Flush

-----------------------------------------------------------------------------
(* Types, and what the phases of the correlator's loop keep in scratch.    *)

Typed ==
  /\ TypeOK
  /\ phase \in {"Check", "Select"} => scratch = {}
  /\ phase = "Flush" => scratch = {k \in Key : map[k] # {}}

LEMMA InitTyped == Init => Typed
<1> SUFFICES ASSUME Init PROVE Typed
  OBVIOUS
<1>1. /\ rx \in [Source -> Seq(Key)] /\ \A s \in Source : Len(rx[s]) = 0
      /\ handled \in [Source \X Key -> Nat] /\ opened \in [Key -> Nat] /\ lost \in [Key -> Nat]
      /\ map \in [Key -> SUBSET Source] /\ \A k \in Key : map[k] = {}
  BY DEF Init
<1>2. Len(diff) = 0 /\ Len(builders) = 0 /\ diff \in Seq(DiffRecord)
      /\ builders \in Seq(DiffRecord) /\ file \in Seq(DiffRecord)
  BY DEF Init
<1>3. /\ \A s \in Source : Len(rx[s]) <= SourceCapacity
      /\ Len(diff) <= DiffCapacity /\ Len(builders) < row_group_size
  BY <1>1, <1>2, ComparatorAssumption
<1>4. /\ overdue = {} /\ scratch = {} /\ phase = "Check" /\ writer = "Running"
      /\ shutdown = FALSE /\ expired = {}
  BY DEF Init
<1>5. TypeOK
  BY <1>1, <1>2, <1>3, <1>4 DEF TypeOK
<1> QED BY <1>4, <1>5 DEF Typed

(* The rest of the state, when only the writer's part changes. *)
LEMMA WriterTyped ==
  ASSUME Typed, UNCHANGED <<rx, map, overdue, phase, scratch, shutdown, handled, expired, opened>>,
         diff' \in Seq(DiffRecord), Len(diff') <= DiffCapacity,
         builders' \in Seq(DiffRecord), Len(builders') < row_group_size,
         file' \in Seq(DiffRecord), writer' \in {"Running", "Closed"}, lost' \in [Key -> Nat]
  PROVE  Typed'
BY DEF Typed, TypeOK

LEMMA FlushTyped ==
  ASSUME Typed, NEW rows \in Seq(DiffRecord), Flush(rows)
  PROVE  /\ builders' = <<>> /\ Len(builders') < row_group_size /\ builders' \in Seq(DiffRecord)
         /\ file' \in Seq(DiffRecord) /\ lost' \in [Key -> Nat]
<1>1. file \in Seq(DiffRecord) /\ lost \in [Key -> Nat]
  BY DEF Typed, TypeOK
<1>2. builders' = <<>> /\ file' \in Seq(DiffRecord) /\ lost' \in [Key -> Nat]
  BY <1>1, FlushStep
<1>3. Len(builders') = 0 /\ builders' \in Seq(DiffRecord)
  BY <1>2
<1> QED BY <1>2, <1>3, ComparatorAssumption

LEMMA StepTyped == Typed /\ [Next]_vars => Typed'
<1> SUFFICES ASSUME Typed, [Next]_vars PROVE Typed'
  OBVIOUS
<1>0. TypeOK
  BY DEF Typed
<1>1. CASE UNCHANGED vars
  BY <1>1 DEF vars, Typed, TypeOK
<1>2. ASSUME NEW s \in Source, NEW k \in Key, Deliver(s, k) PROVE Typed'
  <2>1. /\ rx' = [rx EXCEPT ![s] = Append(@, k)] /\ Len(rx[s]) < SourceCapacity
        /\ UNCHANGED <<map, overdue, phase, scratch, diff, shutdown, writerVars, historyVars>>
    BY <1>2 DEF Deliver
  <2>2. rx \in [Source -> Seq(Key)] /\ \A t \in Source : Len(rx[t]) <= SourceCapacity
    BY <1>0 DEF TypeOK
  <2>3. rx' \in [Source -> Seq(Key)]
    BY <2>1, <2>2
  <2>4. \A t \in Source : Len(rx'[t]) <= SourceCapacity
    <3> SUFFICES ASSUME NEW t \in Source PROVE Len(rx'[t]) <= SourceCapacity
      OBVIOUS
    <3>1. t # s => rx'[t] = rx[t]
      BY <2>1, <2>2
    <3>2. rx'[s] = Append(rx[s], k) /\ rx[s] \in Seq(Key)
      BY <2>1, <2>2
    <3>3. Len(rx'[s]) = Len(rx[s]) + 1 /\ Len(rx[s]) \in Nat
      BY <3>2
    <3> QED BY <2>1, <2>2, <3>1, <3>3, ComparatorAssumption
  <2> QED BY <1>0, <2>1, <2>3, <2>4 DEF Typed, TypeOK, writerVars, historyVars
<1>3. ASSUME NEW k \in Key, DeadlinePasses(k) PROVE Typed'
  BY <1>3 DEF DeadlinePasses, Typed, TypeOK, writerVars, historyVars
<1>4. CASE Check
  BY <1>4 DEF Check, Typed, TypeOK, writerVars, historyVars
<1>5. CASE Idle
  <2>1. \/ phase' = "Sweep" /\ scratch' = {k \in overdue : map[k] # {}}
        \/ phase' = "Check" /\ scratch' = scratch
    BY <1>5 DEF Idle, ThenSweep
  <2>2. phase = "Select" /\ UNCHANGED <<rx, map, overdue, diff, shutdown, writerVars, historyVars>>
    BY <1>5 DEF Idle
  <2> QED BY <1>0, <2>1, <2>2 DEF Typed, TypeOK, writerVars, historyVars
<1>6. CASE SweepDone
  <2>1. /\ phase \in {"Sweep", "Flush"} /\ scratch = {}
        /\ phase' = IF phase = "Sweep" THEN "Check" ELSE "Done"
        /\ UNCHANGED <<rx, map, overdue, scratch, diff, shutdown, writerVars, historyVars>>
    BY <1>6 DEF SweepDone
  <2>2. phase' = "Done" => \A k \in Key : map'[k] = {}
    BY <2>1 DEF Typed
  <2>3. phase' \in {"Check", "Done"}
    BY <2>1
  <2> QED BY <1>0, <2>1, <2>2, <2>3 DEF Typed, TypeOK, writerVars, historyVars
<1>7. ASSUME NEW s \in Source, Handle(s) PROVE Typed'
  <2> DEFINE k == Head(rx[s])
             sources == map[k] \cup {s}
             held == [map EXCEPT ![k] = Paired(sources)]
             late == {j \in overdue : held[j] # {}}
  <2>1. /\ phase = "Select" /\ rx[s] # <<>>
        /\ rx' = [rx EXCEPT ![s] = Tail(@)] /\ map' = held /\ overdue' = late
        /\ handled' = [handled EXCEPT ![<<s, k>>] = @ + 1]
        /\ opened' = [opened EXCEPT ![k] = IF map[k] = {} THEN @ + 1 ELSE @]
        /\ sources = Source => emit(k, sources)
        /\ sources # Source => UNCHANGED <<diff, lost>>
        /\ ThenSweep(held, late)
        /\ UNCHANGED <<shutdown, writerVars, expired>>
    BY <1>7 DEF Handle
  <2>2. rx \in [Source -> Seq(Key)] /\ \A t \in Source : Len(rx[t]) <= SourceCapacity
    BY <1>0 DEF TypeOK
  <2>3. k \in Key
    BY <2>1, <2>2
  <2>4. map[k] \in SUBSET Source /\ sources \in SUBSET Source /\ map \in [Key -> SUBSET Source]
    BY <1>0, <2>3 DEF TypeOK
  <2> HIDE DEF k
  <2>5. map' \in [Key -> SUBSET Source]
    BY <2>1, <2>4 DEF Paired
  <2>6. rx' \in [Source -> Seq(Key)] /\ \A t \in Source : Len(rx'[t]) <= SourceCapacity
    <3>1. rx[s] \in Seq(Key) /\ Len(rx[s]) \in Nat /\ Len(Tail(rx[s])) = Len(rx[s]) - 1
          /\ Tail(rx[s]) \in Seq(Key)
      BY <2>1, <2>2
    <3>2. rx' \in [Source -> Seq(Key)] /\ rx'[s] = Tail(rx[s])
          /\ \A t \in Source : t # s => rx'[t] = rx[t]
      BY <2>1, <2>2, <3>1
    <3>3. Len(rx'[s]) <= SourceCapacity
      BY <2>2, <3>1, <3>2, ComparatorAssumption
    <3> QED BY <2>2, <3>2, <3>3
  <2>7. diff' \in Seq(DiffRecord) /\ Len(diff') <= DiffCapacity /\ lost' \in [Key -> Nat]
    <3>1. CASE sources = Source
      <4>1. emit(k, sources)
        BY <2>1, <3>1
      <4> HIDE DEF sources
      <4> QED BY <1>0, <2>3, <2>4, <4>1, EmitStep DEF TypeOK
    <3>2. CASE sources # Source
      BY <1>0, <2>1, <3>2 DEF TypeOK
    <3> QED BY <3>1, <3>2
  <2>8. handled' \in [Source \X Key -> Nat] /\ opened' \in [Key -> Nat]
    <3>1. handled \in [Source \X Key -> Nat] /\ opened \in [Key -> Nat] /\ <<s, k>> \in Source \X Key
      BY <1>0, <2>3 DEF TypeOK
    <3>2. handled' \in [Source \X Key -> Nat]
      BY <2>1, <3>1
    <3>3. opened' \in [Key -> Nat]
      BY <2>1, <2>3, <3>1
    <3> QED BY <3>2, <3>3
  <2>9. scratch = {} /\ overdue \subseteq Key
    BY <1>0, <2>1 DEF Typed, TypeOK
  <2>10. overdue' \subseteq {j \in Key : map'[j] # {}}
    BY <2>1, <2>9
  <2>11. /\ phase' \in {"Sweep", "Check"} /\ scratch' \subseteq {j \in Key : map'[j] # {}}
         /\ phase' = "Check" => scratch' = {}
    <3> HIDE DEF held, late
    <3>1. \/ phase' = "Sweep" /\ scratch' = {j \in late : held[j] # {}}
          \/ phase' = "Check" /\ scratch' = scratch
      BY <2>1 DEF ThenSweep
    <3>2. late \subseteq Key
      BY <2>1, <2>10
    <3> QED BY <2>1, <2>9, <3>1, <3>2
  <2>12. /\ UNCHANGED <<shutdown, writerVars, expired>>
    BY <2>1
  <2> HIDE DEF sources, held, late
  <2> QED BY <1>0, <2>5, <2>6, <2>7, <2>8, <2>10, <2>11, <2>12 DEF Typed, TypeOK, writerVars
<1>8. ASSUME NEW k \in Key, SweepOne(k) PROVE Typed'
  <2>1. /\ phase \in {"Sweep", "Flush"} /\ k \in scratch /\ emit(k, map[k])
        /\ map' = [map EXCEPT ![k] = {}]
        /\ overdue' = overdue \ {k} /\ scratch' = scratch \ {k}
        /\ expired' = IF phase = "Sweep" THEN expired \cup {k} ELSE expired
        /\ UNCHANGED <<rx, phase, shutdown, writerVars, handled, opened>>
    BY <1>8 DEF SweepOne
  <2>2. map \in [Key -> SUBSET Source] /\ map[k] \in SUBSET Source
    BY <1>0 DEF TypeOK
  <2>3. diff' \in Seq(DiffRecord) /\ Len(diff') <= DiffCapacity /\ lost' \in [Key -> Nat]
    BY <1>0, <2>1, <2>2, EmitStep DEF TypeOK
  <2>4. map' \in [Key -> SUBSET Source] /\ map'[k] = {} /\ \A j \in Key : j # k => map'[j] = map[j]
    BY <2>1, <2>2
  <2>5. /\ overdue' \subseteq {j \in Key : map'[j] # {}}
        /\ scratch' \subseteq {j \in Key : map'[j] # {}}
        /\ phase = "Flush" => scratch' = {j \in Key : map'[j] # {}}
    BY <1>0, <2>1, <2>4 DEF Typed, TypeOK
  <2>6. expired' \subseteq Key
    BY <1>0, <2>1 DEF TypeOK
  <2> QED BY <1>0, <2>1, <2>3, <2>4, <2>5, <2>6 DEF Typed, TypeOK, writerVars
<1>9. CASE WriterAppend
  <2> DEFINE rows == Append(builders, Head(diff))
  <2>1. /\ diff # <<>> /\ diff' = Tail(diff)
        /\ \/ Flush(rows)
           \/ Len(rows) < row_group_size /\ builders' = rows /\ UNCHANGED <<file, lost>>
        /\ UNCHANGED <<rx, map, overdue, phase, scratch, writer, shutdown, handled, expired, opened>>
    BY <1>9 DEF WriterAppend
  <2>2. /\ diff \in Seq(DiffRecord) /\ builders \in Seq(DiffRecord) /\ Len(diff) <= DiffCapacity
        /\ file \in Seq(DiffRecord) /\ lost \in [Key -> Nat] /\ writer \in {"Running", "Closed"}
    BY <1>0 DEF TypeOK
  <2>3. Head(diff) \in DiffRecord /\ Tail(diff) \in Seq(DiffRecord)
        /\ Len(Tail(diff)) = Len(diff) - 1 /\ Len(diff) \in Nat
    BY <2>1, <2>2
  <2>4. rows \in Seq(DiffRecord)
    BY <2>2, <2>3
  <2>5. diff' \in Seq(DiffRecord) /\ Len(diff') <= DiffCapacity
    BY <2>1, <2>2, <2>3, ComparatorAssumption
  <2> HIDE DEF rows
  <2>6. CASE Flush(rows)
    BY <2>1, <2>2, <2>4, <2>5, <2>6, FlushTyped, WriterTyped
  <2>7. CASE Len(rows) < row_group_size /\ builders' = rows /\ UNCHANGED <<file, lost>>
    BY <2>1, <2>2, <2>4, <2>5, <2>7, WriterTyped
  <2> QED BY <2>1, <2>6, <2>7
<1>10. CASE WriterTimeout
  <2>1. builders \in Seq(DiffRecord) /\ diff \in Seq(DiffRecord) /\ Len(diff) <= DiffCapacity
        /\ writer \in {"Running", "Closed"}
    BY <1>0 DEF TypeOK
  <2> QED BY <1>10, <2>1, FlushTyped, WriterTyped DEF WriterTimeout
<1>11. CASE WriterClose
  <2>1. builders \in Seq(DiffRecord) /\ diff \in Seq(DiffRecord) /\ Len(diff) <= DiffCapacity
    BY <1>0 DEF TypeOK
  <2> QED BY <1>11, <2>1, FlushTyped, WriterTyped DEF WriterClose
<1>12. CASE Shutdown
  BY <1>12 DEF Shutdown, Typed, TypeOK, writerVars, historyVars
<1> QED BY <1>1, <1>2, <1>3, <1>4, <1>5, <1>6, <1>7, <1>8, <1>9, <1>10, <1>11, <1>12
        DEF Next, Correlate, Write

-----------------------------------------------------------------------------
(* Conservation of rows.                                                   *)

(* A key's MatchState, if it has one, and its rows wherever they are. *)
Balance(k) ==
  opened[k] = (IF map[k] # {} THEN 1 ELSE 0) + Of(k, diff) + Of(k, builders)
                + Of(k, file) + lost[k]

LEMMA CountsAreNat ==
  ASSUME TypeOK, NEW k \in Key
  PROVE  /\ opened[k] \in Nat /\ lost[k] \in Nat
         /\ Of(k, diff) \in Nat /\ Of(k, builders) \in Nat /\ Of(k, file) \in Nat
BY OfType DEF TypeOK

(* The same sum, by where a step may change it. *)
Held(k) == IF map[k] # {} THEN 1 ELSE 0
Waiting(k) == Of(k, diff) + Of(k, builders)
Written(k) == Of(k, file) + lost[k]

Shape(k) ==
  /\ Held(k) \in Nat /\ Waiting(k) \in Nat /\ Written(k) \in Nat /\ opened[k] \in Nat
  /\ Balance(k) <=> opened[k] = (Held(k) + Waiting(k)) + Written(k)

LEMMA BalanceShape == TypeOK => \A k \in Key : Shape(k)
<1> SUFFICES ASSUME TypeOK, NEW k \in Key PROVE Shape(k)
  OBVIOUS
<1> DEFINE a == Of(k, diff)
           b == Of(k, builders)
           f == Of(k, file)
           l == lost[k]
           h == Held(k)
<1>1. a \in Nat /\ b \in Nat /\ f \in Nat /\ l \in Nat /\ opened[k] \in Nat
  BY CountsAreNat
<1>2. h \in Nat
  BY DEF Held
<1>3. Balance(k) <=> opened[k] = h + a + b + f + l
  BY DEF Balance, Held
<1>4. Waiting(k) = a + b /\ Written(k) = f + l
  BY DEF Waiting, Written
<1> HIDE DEF a, b, f, l, h
<1>5. h + a + b + f + l = (h + (a + b)) + (f + l)
  BY <1>1, <1>2
<1>6. a + b \in Nat /\ f + l \in Nat
  BY <1>1
<1> QED BY <1>1, <1>2, <1>3, <1>4, <1>5, <1>6 DEF h, Shape

LEMMA BalanceShapeNext == TypeOK' => (\A k \in Key : Shape(k))'
BY BalanceShape, PTL

LEMMA FlushBalances ==
  ASSUME Typed, Typed', NEW rows \in Seq(DiffRecord), Flush(rows), UNCHANGED <<map, opened>>,
         NEW k \in Key, Balance(k), Of(k, diff') + Of(k, rows) = Of(k, diff) + Of(k, builders)
  PROVE  Balance(k)'
<1>1. /\ Held(k) \in Nat /\ Waiting(k) \in Nat /\ Written(k) \in Nat
      /\ opened[k] = (Held(k) + Waiting(k)) + Written(k)
  BY BalanceShape DEF Typed, Shape
<1>2. Held(k)' = Held(k) /\ opened'[k] = opened[k]
  BY DEF Held
<1>3. builders' = <<>> /\ Of(k, file') + lost'[k] = (Of(k, file) + lost[k]) + Of(k, rows)
  BY FlushStep DEF Typed, TypeOK
<1>4. Of(k, builders') = 0 /\ Of(k, rows) \in Nat /\ Of(k, diff') \in Nat
  BY <1>3, OfEmpty, OfType DEF Typed, TypeOK
<1>5. Waiting(k)' = Of(k, diff')
  BY <1>4 DEF Waiting
<1>6. Waiting(k)' + Of(k, rows) = Waiting(k) /\ Waiting(k)' \in Nat
  BY <1>4, <1>5 DEF Waiting
<1>7. Written(k)' = Written(k) + Of(k, rows)
  BY <1>3 DEF Written
<1>8. opened'[k] = (Held(k)' + Waiting(k)') + Written(k)'
  <2> DEFINE r == Of(k, rows)
             w == Waiting(k)'
  <2>1. r \in Nat /\ w \in Nat /\ Waiting(k) = w + r
    BY <1>4, <1>6
  <2> HIDE DEF r, w
  <2>2. (Held(k) + (w + r)) + Written(k) = (Held(k) + w) + (Written(k) + r)
    BY <1>1, <2>1
  <2> QED BY <1>1, <1>2, <1>7, <2>1, <2>2 DEF r, w
<1>9. TypeOK' /\ (Balance(k)' <=> opened'[k] = (Held(k)' + Waiting(k)') + Written(k)')
  <2>1. TypeOK' => (Balance(k)' <=> opened'[k] = (Held(k)' + Waiting(k)') + Written(k)')
    BY BalanceShapeNext DEF Shape
  <2> QED BY <2>1 DEF Typed
<1> QED BY <1>8, <1>9

LEMMA EmitBalances ==
  ASSUME Typed, NEW k \in Key, NEW sources \in SUBSET Source, emit(k, sources),
         UNCHANGED <<builders, file>>, Typed', NEW j \in Key, Balance(j),
         opened'[j] + Held(j) = (opened[j] + Held(j)') + (IF j = k THEN 1 ELSE 0)
  PROVE  Balance(j)'
<1> DEFINE one == IF j = k THEN 1 ELSE 0
<1>1. /\ Held(j) \in Nat /\ Waiting(j) \in Nat /\ Written(j) \in Nat /\ opened[j] \in Nat
      /\ opened[j] = (Held(j) + Waiting(j)) + Written(j)
  BY BalanceShape DEF Typed, Shape
<1>2. TypeOK'
  BY DEF Typed
<1>3. /\ Held(j)' \in Nat /\ Waiting(j)' \in Nat /\ Written(j)' \in Nat /\ opened'[j] \in Nat
      /\ Balance(j)' <=> opened'[j] = (Held(j)' + Waiting(j)') + Written(j)'
  <2>1. TypeOK' => /\ Held(j)' \in Nat /\ Waiting(j)' \in Nat /\ Written(j)' \in Nat
                   /\ opened'[j] \in Nat
                   /\ Balance(j)' <=> opened'[j] = (Held(j)' + Waiting(j)') + Written(j)'
    BY BalanceShapeNext DEF Shape
  <2> QED BY <1>2, <2>1
<1>4. Of(j, diff') + lost'[j] = (Of(j, diff) + lost[j]) + one
  <2>1. diff \in Seq(DiffRecord) /\ Len(diff) <= DiffCapacity /\ lost \in [Key -> Nat]
    BY DEF Typed, TypeOK
  <2>2. \A i \in Key : Of(i, diff') + lost'[i]
                         = (Of(i, diff) + lost[i]) + (IF i = k THEN 1 ELSE 0)
    BY <2>1, EmitStep
  <2> QED BY <2>2
<1>5. Waiting(j)' + Written(j)' = (Waiting(j) + Written(j)) + one
  <2> DEFINE a == Of(j, diff)
             a2 == Of(j, diff')
             l == lost[j]
             l2 == lost'[j]
             b == Of(j, builders)
             f == Of(j, file)
  <2>1. a \in Nat /\ l \in Nat /\ b \in Nat /\ f \in Nat
    BY CountsAreNat DEF Typed
  <2>2. a2 \in Nat /\ l2 \in Nat
    BY <1>2, OfType DEF TypeOK
  <2>3. Waiting(j)' = a2 + b /\ Written(j)' = f + l2 /\ Waiting(j) = a + b /\ Written(j) = f + l
    BY DEF Waiting, Written
  <2>4. a2 + l2 = (a + l) + one /\ one \in Nat
    BY <1>4
  <2> HIDE DEF a, a2, l, l2, b, f, one
  <2>5. (a2 + b) + (f + l2) = ((a + b) + (f + l)) + one
    BY <2>1, <2>2, <2>4
  <2> QED BY <2>3, <2>5
<1>6. opened'[j] + Held(j) = (opened[j] + Held(j)') + one /\ one \in Nat
  OBVIOUS
<1> DEFINE h2 == Held(j)'
           w2 == Waiting(j)'
           x2 == Written(j)'
           o2 == opened'[j]
<1>7. /\ h2 \in Nat /\ w2 \in Nat /\ x2 \in Nat /\ o2 \in Nat
      /\ w2 + x2 = (Waiting(j) + Written(j)) + one
      /\ o2 + Held(j) = (opened[j] + h2) + one
  BY <1>3, <1>5, <1>6
<1> HIDE DEF one, h2, w2, x2, o2
<1>8. o2 = (h2 + w2) + x2
  BY <1>1, <1>6, <1>7
<1> QED BY <1>3, <1>8 DEF h2, w2, x2, o2

LEMMA StepBalances ==
  ASSUME Typed, Typed', [Next]_vars, NEW j \in Key, Balance(j)
  PROVE  Balance(j)'
<1>1. ASSUME UNCHANGED <<map, diff, builders, file, lost, opened>> PROVE Balance(j)'
  BY <1>1 DEF Balance
<1>2. ASSUME NEW s \in Source, NEW k \in Key, Deliver(s, k) PROVE Balance(j)'
  BY <1>1, <1>2 DEF Deliver, writerVars, historyVars
<1>3. ASSUME NEW k \in Key, DeadlinePasses(k) PROVE Balance(j)'
  BY <1>1, <1>3 DEF DeadlinePasses, writerVars, historyVars
<1>4. CASE Check \/ Idle \/ SweepDone \/ Shutdown \/ UNCHANGED vars
  BY <1>1, <1>4 DEF Check, Idle, SweepDone, Shutdown, vars, writerVars, historyVars
<1>shape. /\ Held(j) \in Nat /\ Waiting(j) \in Nat /\ Written(j) \in Nat /\ opened[j] \in Nat
          /\ opened[j] = (Held(j) + Waiting(j)) + Written(j)
  BY BalanceShape DEF Typed, Shape
<1>shape2. /\ Held(j)' \in Nat
           /\ Balance(j)' <=> opened'[j] = (Held(j)' + Waiting(j)') + Written(j)'
  <2>1. TypeOK' => /\ Held(j)' \in Nat
                   /\ Balance(j)' <=> opened'[j] = (Held(j)' + Waiting(j)') + Written(j)'
    BY BalanceShapeNext DEF Shape
  <2> QED BY <2>1 DEF Typed
<1>5. ASSUME NEW s \in Source, Handle(s) PROVE Balance(j)'
  <2> DEFINE k == Head(rx[s])
             sources == map[k] \cup {s}
  <2>1. /\ rx[s] # <<>> /\ map' = [map EXCEPT ![k] = Paired(sources)]
        /\ opened' = [opened EXCEPT ![k] = IF map[k] = {} THEN @ + 1 ELSE @]
        /\ sources = Source => emit(k, sources)
        /\ sources # Source => UNCHANGED <<diff, lost>>
        /\ UNCHANGED <<builders, file>>
    BY <1>5 DEF Handle, writerVars
  <2>2. /\ rx \in [Source -> Seq(Key)] /\ opened \in [Key -> Nat] /\ map \in [Key -> SUBSET Source]
    BY DEF Typed, TypeOK
  <2>3. k \in Key
    BY <2>1, <2>2
  <2> HIDE DEF k
  <2>4. map[k] \in SUBSET Source /\ sources \in SUBSET Source /\ sources # {}
    BY <2>2, <2>3
  <2>5. map'[k] = Paired(sources) /\ opened'[k] = (IF map[k] = {} THEN opened[k] + 1 ELSE opened[k])
        /\ (j # k => map'[j] = map[j] /\ opened'[j] = opened[j])
    BY <2>1, <2>2, <2>3
  <2>6. opened[j] \in Nat /\ opened[k] \in Nat
    BY <2>2, <2>3
  <2>7. CASE sources = Source
    <3>1. map'[k] = {} /\ emit(k, sources)
      BY <2>1, <2>5, <2>7 DEF Paired
    <3>2. opened'[j] + Held(j) = (opened[j] + Held(j)') + (IF j = k THEN 1 ELSE 0)
      BY <2>5, <2>6, <3>1 DEF Held
    <3>3. UNCHANGED <<builders, file>> /\ sources \in SUBSET Source
      BY <2>1, <2>4
    <3> HIDE DEF sources
    <3> QED BY <2>3, <3>1, <3>2, <3>3, EmitBalances
  <2>8. CASE sources # Source
    <3>1. map'[k] # {} /\ UNCHANGED <<diff, lost, builders, file>>
      BY <2>1, <2>4, <2>5, <2>8 DEF Paired
    <3>2. opened'[j] + Held(j) = opened[j] + Held(j)' /\ opened'[j] \in Nat
      <4>1. CASE j # k
        <5>1. opened'[j] = opened[j] /\ Held(j)' = Held(j)
          BY <2>5, <4>1 DEF Held
        <5> QED BY <2>6, <5>1
      <4>2. CASE j = k
        <5>1. Held(j)' = 1
          BY <3>1, <4>2 DEF Held
        <5>2. opened'[j] + Held(j) = opened[j] + 1 /\ opened'[j] \in Nat
          BY <2>5, <2>6, <4>2 DEF Held
        <5> QED BY <5>1, <5>2
      <4> QED BY <4>1, <4>2
    <3>3. Waiting(j)' = Waiting(j) /\ Written(j)' = Written(j)
      BY <3>1 DEF Waiting, Written
    <3> DEFINE h2 == Held(j)'
               o2 == opened'[j]
    <3>4. o2 + Held(j) = opened[j] + h2 /\ h2 \in Nat /\ o2 \in Nat
      BY <1>shape2, <3>2
    <3> HIDE DEF h2, o2
    <3>5. o2 = (h2 + Waiting(j)) + Written(j)
      BY <1>shape, <3>4
    <3> QED BY <1>shape2, <3>3, <3>5 DEF h2, o2
  <2> QED BY <2>7, <2>8
<1>6. ASSUME NEW k \in Key, SweepOne(k) PROVE Balance(j)'
  <2>1. /\ k \in scratch /\ emit(k, map[k]) /\ map' = [map EXCEPT ![k] = {}]
        /\ UNCHANGED <<builders, file, opened>>
    BY <1>6 DEF SweepOne, writerVars
  <2>2. map[k] # {} /\ map[k] \in SUBSET Source /\ map \in [Key -> SUBSET Source]
        /\ opened[j] \in Nat
    BY <2>1 DEF Typed, TypeOK
  <2>3. opened'[j] + Held(j) = (opened[j] + Held(j)') + (IF j = k THEN 1 ELSE 0)
    BY <2>1, <2>2 DEF Held
  <2>4. UNCHANGED <<builders, file>> /\ map[k] \in SUBSET Source /\ emit(k, map[k])
    BY <2>1, <2>2
  <2> QED BY <2>3, <2>4, EmitBalances
<1>7. CASE WriterAppend
  <2> DEFINE rows == Append(builders, Head(diff))
             one == IF Head(diff).key = j THEN 1 ELSE 0
  <2>1. /\ diff # <<>> /\ diff' = Tail(diff) /\ UNCHANGED <<map, opened>>
        /\ \/ Flush(rows)
           \/ builders' = rows /\ UNCHANGED <<file, lost>>
    BY <1>7 DEF WriterAppend
  <2>2. diff \in Seq(DiffRecord) /\ builders \in Seq(DiffRecord) /\ TypeOK
    BY DEF Typed, TypeOK
  <2>3. /\ Head(diff) \in DiffRecord /\ Tail(diff) \in Seq(DiffRecord)
        /\ Of(j, diff) = Of(j, Tail(diff)) + one
    BY <2>1, <2>2, OfTail
  <2>4. rows \in Seq(DiffRecord) /\ Of(j, rows) = Of(j, builders) + one
    BY <2>2, <2>3, OfAppend
  <2>5. Of(j, diff') \in Nat /\ Of(j, builders) \in Nat /\ Of(j, diff) \in Nat /\ one \in Nat
    BY <2>1, <2>2, <2>3, OfType
  <2> HIDE DEF rows, one
  <2>6. Of(j, diff') + Of(j, rows) = Of(j, diff) + Of(j, builders)
    BY <2>1, <2>3, <2>4, <2>5
  <2>7. CASE Flush(rows)
    BY <2>1, <2>4, <2>6, <2>7, FlushBalances
  <2>8. CASE builders' = rows /\ UNCHANGED <<file, lost>>
    <3>1. Waiting(j)' = Waiting(j)
      BY <2>6, <2>8 DEF Waiting
    <3>2. Written(j)' = Written(j) /\ Held(j)' = Held(j) /\ opened'[j] = opened[j]
      BY <2>1, <2>8 DEF Written, Held
    <3> QED BY <1>shape, <1>shape2, <3>1, <3>2
  <2> QED BY <2>1, <2>7, <2>8
<1>8. ASSUME Flush(builders), UNCHANGED <<map, diff, opened>> PROVE Balance(j)'
  <2>1. builders \in Seq(DiffRecord)
    BY DEF Typed, TypeOK
  <2>2. Of(j, diff') + Of(j, builders) = Of(j, diff) + Of(j, builders)
    BY <1>8
  <2> QED BY <1>8, <2>1, <2>2, FlushBalances
<1>9. CASE WriterTimeout \/ WriterClose
  BY <1>8, <1>9 DEF WriterTimeout, WriterClose
<1> QED BY <1>2, <1>3, <1>4, <1>5, <1>6, <1>7, <1>9 DEF Next, Correlate, Write

LEMMA TypeInvariant == Spec => []Typed
BY InitTyped, StepTyped, PTL DEF Spec

(* Channels and groups stay within their capacities, and an ended          *)
(* correlator has emptied its map.                                         *)
THEOREM TypeCorrect == Spec => []TypeOK
<1>1. Typed => TypeOK
  BY DEF Typed
<1> QED BY <1>1, TypeInvariant, PTL

(* Pairing, sweeps, the final flush and group flushes neither forget a     *)
(* MatchState nor make two rows of it, for any number of entries and any   *)
(* capacities.                                                             *)
THEOREM Conserved == Spec => []RowsConserved
<1>1. RowsConserved <=> \A k \in Key : Balance(k)
  BY DEF RowsConserved, Balance
<1>2. Init => RowsConserved
  <2> SUFFICES ASSUME Init, NEW k \in Key PROVE Balance(k)
    BY <1>1
  <2>1. opened[k] = 0 /\ map[k] = {} /\ lost[k] = 0 /\ diff = <<>> /\ builders = <<>> /\ file = <<>>
    BY DEF Init
  <2>2. Of(k, diff) = 0 /\ Of(k, builders) = 0 /\ Of(k, file) = 0
    BY <2>1, OfEmpty
  <2> QED BY <2>1, <2>2 DEF Balance
<1>3. Typed /\ Typed' /\ RowsConserved /\ [Next]_vars => RowsConserved'
  <2> SUFFICES ASSUME Typed, Typed', RowsConserved, [Next]_vars, NEW k \in Key PROVE Balance(k)'
    BY DEF RowsConserved, Balance
  <2> QED BY <1>1, StepBalances
<1> QED BY <1>2, <1>3, TypeInvariant, PTL DEF Spec

-----------------------------------------------------------------------------
(* What rows there are.                                                    *)

LEMMA MadeFlush ==
  ASSUME Typed, NEW rows \in Seq(DiffRecord), Flush(rows),
         Range(diff') \subseteq Range(diff), Range(rows) \subseteq Range(diff) \cup Range(builders)
  PROVE  Made' \subseteq Made
<1>1. builders' = <<>> /\ Range(file') \subseteq Range(file) \cup Range(rows)
  BY FlushStep DEF Typed, TypeOK
<1>2. Range(builders') = {}
  BY <1>1 DEF Range
<1> QED BY <1>1, <1>2 DEF Made

(* Only emit makes new rows. *)
LEMMA MadeSame ==
  ASSUME Typed, [Next]_vars, \A s \in Source : ~Handle(s), \A k \in Key : ~SweepOne(k)
  PROVE  Made' \subseteq Made
<1>1. ASSUME UNCHANGED <<diff, builders, file>> PROVE Made' \subseteq Made
  BY <1>1 DEF Made
<1>2. CASE \/ \E s \in Source, k \in Key : Deliver(s, k)
           \/ \E k \in Key : DeadlinePasses(k)
           \/ Check \/ Idle \/ SweepDone \/ Shutdown \/ UNCHANGED vars
  BY <1>1, <1>2 DEF Deliver, DeadlinePasses, Check, Idle, SweepDone, Shutdown, vars,
                    writerVars, historyVars
<1>3. diff \in Seq(DiffRecord) /\ builders \in Seq(DiffRecord)
  BY DEF Typed, TypeOK
<1>4. CASE WriterAppend
  <2> DEFINE rows == Append(builders, Head(diff))
  <2>1. /\ diff # <<>> /\ diff' = Tail(diff)
        /\ Flush(rows) \/ (builders' = rows /\ UNCHANGED <<file, lost>>)
    BY <1>4 DEF WriterAppend
  <2>2. Range(diff') \subseteq Range(diff) /\ Head(diff) \in Range(diff) /\ Head(diff) \in DiffRecord
    BY <1>3, <2>1, RangeTail, OfTail
  <2>3. rows \in Seq(DiffRecord) /\ Range(rows) \subseteq Range(diff) \cup Range(builders)
    BY <1>3, <2>2, RangeAppend
  <2> HIDE DEF rows
  <2>4. CASE Flush(rows)
    BY <2>2, <2>3, <2>4, MadeFlush
  <2>5. CASE builders' = rows /\ UNCHANGED <<file, lost>>
    BY <2>2, <2>3, <2>5 DEF Made
  <2> QED BY <2>1, <2>4, <2>5
<1>5. CASE WriterTimeout \/ WriterClose
  <2>1. Flush(builders) /\ diff' = diff
    BY <1>5 DEF WriterTimeout, WriterClose
  <2> QED BY <1>3, <2>1, MadeFlush
<1> QED BY <1>2, <1>4, <1>5 DEF Next, Correlate, Write

LEMMA MadeEmit ==
  ASSUME Typed, NEW k \in Key, NEW sources \in SUBSET Source, emit(k, sources),
         UNCHANGED <<builders, file>>
  PROVE  Made' \subseteq Made \cup {Row(k, sources)}
<1>1. Range(diff') \subseteq Range(diff) \cup {Row(k, sources)}
  BY EmitStep DEF Typed, TypeOK
<1> QED BY <1>1 DEF Made

(* What a step of the correlator does to its key's MatchState and rows. *)
LEMMA HandleMakes ==
  ASSUME Typed, NEW s \in Source, Handle(s)
  PROVE  \E k \in Key :
           /\ phase = "Select" /\ phase' \in {"Sweep", "Check"} /\ UNCHANGED expired
           /\ handled' = [handled EXCEPT ![<<s, k>>] = @ + 1]
           /\ map' = [map EXCEPT ![k] = Paired(map[k] \cup {s})]
           /\ opened' = [opened EXCEPT ![k] = IF map[k] = {} THEN @ + 1 ELSE @]
           /\ map[k] \cup {s} = Source => Made' \subseteq Made \cup {Row(k, Source)}
           /\ map[k] \cup {s} # Source => Made' = Made
<1> DEFINE k == Head(rx[s])
           sources == map[k] \cup {s}
<1>1. /\ phase = "Select" /\ phase' \in {"Sweep", "Check"} /\ UNCHANGED <<expired, builders, file>>
      /\ handled' = [handled EXCEPT ![<<s, k>>] = @ + 1]
      /\ map' = [map EXCEPT ![k] = Paired(sources)]
      /\ opened' = [opened EXCEPT ![k] = IF map[k] = {} THEN @ + 1 ELSE @]
      /\ sources = Source => emit(k, sources)
      /\ sources # Source => UNCHANGED <<diff, lost>>
      /\ rx[s] # <<>>
  BY DEF Handle, ThenSweep, writerVars
<1>2. k \in Key /\ map[k] \in SUBSET Source
  BY <1>1 DEF Typed, TypeOK
<1>3. sources # Source => Made' = Made
  BY <1>1 DEF Made
<1> HIDE DEF k
<1>4. sources = Source => Made' \subseteq Made \cup {Row(k, Source)}
  <2>1. sources \in SUBSET Source
    BY <1>2
  <2>2. sources = Source => emit(k, Source) /\ UNCHANGED <<builders, file>>
    BY <1>1
  <2> HIDE DEF sources
  <2>3. Source \in SUBSET Source
    OBVIOUS
  <2> QED BY <1>2, <2>2, <2>3, MadeEmit
<1> QED BY <1>1, <1>2, <1>3, <1>4

LEMMA SweepMakes ==
  ASSUME Typed, NEW k \in Key, SweepOne(k)
  PROVE  /\ phase \in {"Sweep", "Flush"} /\ phase' = phase /\ map[k] # {}
         /\ UNCHANGED <<handled, opened>> /\ map' = [map EXCEPT ![k] = {}]
         /\ expired' = IF phase = "Sweep" THEN expired \cup {k} ELSE expired
         /\ Made' \subseteq Made \cup {Row(k, map[k])} /\ map[k] \in SUBSET Source
<1>1. /\ phase \in {"Sweep", "Flush"} /\ k \in scratch /\ emit(k, map[k])
      /\ map' = [map EXCEPT ![k] = {}]
      /\ expired' = IF phase = "Sweep" THEN expired \cup {k} ELSE expired
      /\ UNCHANGED <<phase, handled, opened, builders, file>>
  BY DEF SweepOne, writerVars
<1>2. map[k] # {} /\ map[k] \in SUBSET Source
  BY <1>1 DEF Typed, TypeOK
<1>3. Made' \subseteq Made \cup {Row(k, map[k])}
  BY <1>1, <1>2, MadeEmit
<1> QED BY <1>1, <1>2, <1>3

-----------------------------------------------------------------------------
(* Pairing on time.                                                        *)

Ending == {"Flush", "Done"}
NoRows(k) == \A r \in Made : r.key # k
AllBoth(k) == \A r \in Made : r.key = k => r.source = "BOTH"
Heard(s, k) == handled[<<s, k>>]
Y == "Yellowstone"
S == "ShredStream"

(* An entry not swept at its deadline, by how often it was told of. *)
OnTime(k) ==
  k \notin expired =>
    /\ Heard(Y, k) = 0 /\ Heard(S, k) = 0 => opened[k] = 0 /\ map[k] = {} /\ NoRows(k)
    /\ Heard(Y, k) = 1 /\ Heard(S, k) = 0 =>
         opened[k] = 1 /\ (phase \in Ending \/ (map[k] = {Y} /\ NoRows(k)))
    /\ Heard(Y, k) = 0 /\ Heard(S, k) = 1 =>
         opened[k] = 1 /\ (phase \in Ending \/ (map[k] = {S} /\ NoRows(k)))
    /\ Heard(Y, k) = 1 /\ Heard(S, k) = 1 => opened[k] = 1 /\ map[k] = {} /\ AllBoth(k)

(* A key that a step leaves alone. *)
LEMMA OtherOnTime ==
  ASSUME NEW j \in Key, OnTime(j), expired \subseteq expired', map'[j] = map[j], opened'[j] = opened[j],
         Heard(Y, j)' = Heard(Y, j), Heard(S, j)' = Heard(S, j), phase \in Ending => phase' \in Ending,
         \A r \in Made' : r \in Made \/ r.key # j
  PROVE  OnTime(j)'
<1>1. /\ NoRows(j) => NoRows(j)'
      /\ AllBoth(j) => AllBoth(j)'
  BY DEF NoRows, AllBoth
<1> QED BY <1>1 DEF OnTime

LEMMA StepOnTime ==
  ASSUME Typed, [Next]_vars, NEW j \in Key, OnTime(j)
  PROVE  OnTime(j)'
<1>1. /\ Source = {Y, S} /\ Y # S /\ handled \in [Source \X Key -> Nat]
      /\ map \in [Key -> SUBSET Source] /\ opened \in [Key -> Nat]
  BY DEF Source, Y, S, Typed, TypeOK
<1>2. Heard(Y, j) \in Nat /\ Heard(S, j) \in Nat
  BY <1>1 DEF Heard
<1>3. ASSUME NEW s \in Source, Handle(s) PROVE OnTime(j)'
  <2>1. PICK k \in Key :
           /\ phase = "Select" /\ phase' \in {"Sweep", "Check"} /\ UNCHANGED expired
           /\ handled' = [handled EXCEPT ![<<s, k>>] = @ + 1]
           /\ map' = [map EXCEPT ![k] = Paired(map[k] \cup {s})]
           /\ opened' = [opened EXCEPT ![k] = IF map[k] = {} THEN @ + 1 ELSE @]
           /\ map[k] \cup {s} = Source => Made' \subseteq Made \cup {Row(k, Source)}
           /\ map[k] \cup {s} # Source => Made' = Made
    BY <1>3, HandleMakes
  <2>2. \A r \in Made' : r \in Made \/ (map[k] \cup {s} = Source /\ r.key = k /\ r.source = "BOTH")
    BY <2>1, RowType
  <2>3. phase \notin Ending
    BY <2>1 DEF Ending
  <2>4. CASE j # k
    <3>1. Heard(Y, j)' = Heard(Y, j) /\ Heard(S, j)' = Heard(S, j)
      BY <1>1, <2>1, <2>4 DEF Heard
    <3>2. map'[j] = map[j] /\ opened'[j] = opened[j]
      BY <1>1, <2>1, <2>4
    <3>3. \A r \in Made' : r \in Made \/ r.key # j
      BY <2>2, <2>4
    <3> QED BY <2>1, <2>3, <3>1, <3>2, <3>3, OtherOnTime
  <2>5. CASE j = k
    <3>1. Heard(s, j)' = Heard(s, j) + 1 /\ \A t \in Source : t # s => Heard(t, j)' = Heard(t, j)
      BY <1>1, <2>1, <2>5 DEF Heard
    <3>2. /\ map'[j] = Paired(map[j] \cup {s})
          /\ opened'[j] = (IF map[j] = {} THEN opened[j] + 1 ELSE opened[j])
      BY <1>1, <2>1, <2>5
    <3>3. SUFFICES ASSUME j \notin expired PROVE OnTime(j)'
      BY <2>1 DEF OnTime
    <3> DEFINE t == IF s = Y THEN S ELSE Y
    <3>4. t \in Source /\ t # s /\ {t} \cup {s} = Source /\ {} \cup {s} # Source
      BY <1>1
    <3>5. Heard(s, j) \in Nat /\ Heard(t, j) \in Nat
      BY <1>1, <1>2
    <3>6. /\ Heard(s, j) = 0 /\ Heard(t, j) = 0 => opened[j] = 0 /\ map[j] = {} /\ NoRows(j)
          /\ Heard(s, j) = 0 /\ Heard(t, j) = 1 => opened[j] = 1 /\ map[j] = {t} /\ NoRows(j)
      BY <1>1, <2>3, <3>3 DEF OnTime
    <3>7. ASSUME Heard(s, j)' = 1, Heard(t, j)' = 0
          PROVE  opened'[j] = 1 /\ map'[j] = {s} /\ NoRows(j)'
      <4>1. opened[j] = 0 /\ map[j] = {} /\ NoRows(j)
        BY <3>1, <3>4, <3>5, <3>6, <3>7
      <4>2. Made' = Made
        BY <2>1, <2>5, <3>4, <4>1
      <4> QED BY <3>2, <3>4, <4>1, <4>2 DEF NoRows, Paired
    <3>8. ASSUME Heard(s, j)' = 1, Heard(t, j)' = 1
          PROVE  opened'[j] = 1 /\ map'[j] = {} /\ AllBoth(j)'
      <4>1. opened[j] = 1 /\ map[j] = {t} /\ NoRows(j)
        BY <3>1, <3>4, <3>5, <3>6, <3>8
      <4> QED BY <2>2, <3>2, <3>4, <4>1 DEF NoRows, AllBoth, Paired
    <3>9. Heard(s, j)' # 0
      BY <3>1, <3>5
    <3>10. CASE s = Y
      <4>1. t = S
        BY <3>10
      <4> QED BY <3>7, <3>8, <3>9, <3>10, <4>1 DEF OnTime
    <3>11. CASE s = S
      <4>1. t = Y
        BY <1>1, <3>11
      <4> QED BY <3>7, <3>8, <3>9, <3>11, <4>1 DEF OnTime
    <3> QED BY <1>1, <3>10, <3>11
  <2> QED BY <2>4, <2>5
<1>4. ASSUME NEW k \in Key, SweepOne(k) PROVE OnTime(j)'
  <2>1. /\ phase \in {"Sweep", "Flush"} /\ phase' = phase /\ map[k] # {}
        /\ UNCHANGED <<handled, opened>> /\ map' = [map EXCEPT ![k] = {}]
        /\ expired' = IF phase = "Sweep" THEN expired \cup {k} ELSE expired
        /\ Made' \subseteq Made \cup {Row(k, map[k])} /\ map[k] \in SUBSET Source
    BY <1>4, SweepMakes
  <2>2. \A r \in Made' : r \in Made \/ r.key = k
    BY <2>1, RowType
  <2>3. /\ Heard(Y, j)' = Heard(Y, j) /\ Heard(S, j)' = Heard(S, j) /\ opened'[j] = opened[j]
        /\ expired \subseteq expired'
    BY <2>1 DEF Heard
  <2>4. CASE j # k
    <3>1. map'[j] = map[j]
      BY <1>1, <2>1, <2>4
    <3>2. \A r \in Made' : r \in Made \/ r.key # j
      BY <2>2, <2>4
    <3> QED BY <2>1, <2>3, <3>1, <3>2, OtherOnTime
  <2>5. CASE j = k /\ phase = "Sweep"
    BY <2>1, <2>5 DEF OnTime
  <2>6. CASE j = k /\ phase = "Flush"
    <3>1. phase' \in Ending /\ map[j] # {} /\ expired' = expired
      BY <2>1, <2>6 DEF Ending
    <3> QED BY <2>3, <3>1 DEF OnTime
  <2> QED BY <2>1, <2>4, <2>5, <2>6
<1>5. CASE (\A s \in Source : ~Handle(s)) /\ \A k \in Key : ~SweepOne(k)
  <2>1. Made' \subseteq Made
    BY <1>5, MadeSame
  <2>2. UNCHANGED <<map, handled, opened, expired>>
    BY <1>5 DEF Next, Correlate, Write, Deliver, DeadlinePasses, Check, Idle, SweepDone,
                WriterAppend, WriterTimeout, WriterClose, Shutdown, vars, writerVars, historyVars
  <2>3. phase \in Ending => phase' \in Ending
    BY <1>5 DEF Next, Correlate, Write, Deliver, DeadlinePasses, Check, Idle, SweepDone, Ending,
                WriterAppend, WriterTimeout, WriterClose, Shutdown, vars, writerVars, historyVars
  <2> QED BY <2>1, <2>2, <2>3, OtherOnTime DEF Heard
<1> QED BY <1>3, <1>4, <1>5

(* Two sources that tell of an entry once each, the second in time, give   *)
(* one row, and it says BOTH, for any capacities and whenever the sweeps   *)
(* and the shutdown come.                                                  *)
THEOREM PairedOnTime == Spec => []OnTimeMeansBoth
<1> DEFINE Inv == \A k \in Key : OnTime(k)
<1>1. Init => Inv
  <2> SUFFICES ASSUME Init, NEW k \in Key PROVE OnTime(k)
    OBVIOUS
  <2>1. Made = {}
    BY DEF Init, Made, Range
  <2>2. Heard(Y, k) = 0 /\ Heard(S, k) = 0 /\ opened[k] = 0 /\ map[k] = {}
    BY DEF Init, Heard, Y, S, Source
  <2> QED BY <2>1, <2>2 DEF OnTime, NoRows
<1>2. Typed /\ Inv /\ [Next]_vars => Inv'
  BY StepOnTime
<1>3. Inv => OnTimeMeansBoth
  <2> SUFFICES ASSUME Inv, NEW k \in Key, \A s \in Source : handled[<<s, k>>] = 1, k \notin expired
               PROVE  /\ opened[k] = 1 /\ map[k] = {}
                      /\ \A i \in DOMAIN file : file[i].key = k => file[i].source = "BOTH"
    BY DEF OnTimeMeansBoth
  <2>1. Heard(Y, k) = 1 /\ Heard(S, k) = 1
    BY DEF Heard, Y, S, Source
  <2>2. opened[k] = 1 /\ map[k] = {} /\ AllBoth(k)
    BY <2>1 DEF OnTime
  <2>3. \A i \in DOMAIN file : file[i] \in Made
    BY DEF Made, Range
  <2> QED BY <2>2, <2>3 DEF AllBoth
<1> HIDE DEF Inv
<1> QED BY <1>1, <1>2, <1>3, TypeInvariant, PTL DEF Spec

-----------------------------------------------------------------------------
(***************************************************************************)
(* The ShredStream source.                                                 *)
(***************************************************************************)

(* A set's state in use: a terminator, when one came, tells DataPerSet.    *)
SetTyped(st) ==
  /\ st \in [data : SUBSET Data, coding : BOOLEAN, expected : Nat, old : BOOLEAN]
  /\ st.expected \in {0, DataPerSet}

OffsetsTyped(offsets) ==
  /\ DOMAIN offsets \subseteq Slot
  /\ offsets \in [DOMAIN offsets -> Nat]

ShredTyped ==
  /\ raw \in Seq(Shred \cup {Garbage})
  /\ sets \in [FecSets -> [data : SUBSET Data, coding : BOOLEAN, expected : Nat,
                           old : BOOLEAN]]
  /\ \A k \in FecSets : SetTyped(sets[k])
  /\ OffsetsTyped(slot_entry_offset)
  /\ highest_slot \in Nat
  /\ arrived \in [FecSets \X Data -> Nat]
  /\ emissions \in [FecSets -> Nat]
  /\ uses \in [Slot \X Index -> Nat]

LEMMA CodeNotData == DataPerSet \in Nat \ {0} /\ Code \notin Data
BY ShredAssumption DEF Code, Data

LEMMA SlotsAreNat == Slot \subseteq Nat /\ \A k \in FecSets : k[1] \in Slot /\ k[1] \in Nat
BY ShredAssumption DEF Slot

LEMMA CompleteIsAll ==
  ASSUME NEW st, SetTyped(st), Complete(st)
  PROVE  st.data = Data
<1>1. IsFiniteSet(Data) /\ Cardinality(Data) = DataPerSet
  BY CodeNotData, FS_Interval, 1 \in Int, DataPerSet \in Int DEF Data
<1>2. st.data \in SUBSET Data /\ st.expected = DataPerSet
  BY DEF SetTyped, Complete
<1>3. Cardinality(st.data) >= Cardinality(Data)
  BY <1>1, <1>2 DEF Complete
<1>4. IsFiniteSet(st.data) /\ Cardinality(st.data) <= Cardinality(Data)
  BY <1>1, <1>2, FS_Subset
<1>5. Cardinality(st.data) \in Nat /\ Cardinality(Data) \in Nat
  BY <1>1, <1>4, FS_CardinalityType
<1>6. Cardinality(Data) = Cardinality(st.data)
  BY <1>3, <1>4, <1>5
<1> QED BY <1>1, <1>2, <1>6, FS_Subset

LEMMA WithShredTyped ==
  ASSUME ShredTyped, NEW k \in FecSets, NEW i \in Data \cup {Code}
  PROVE  /\ SetTyped(WithShred(k, i))
         /\ WithShred(k, i).data = IF i = Code THEN sets[k].data ELSE sets[k].data \cup {i}
<1>1. SetTyped(sets[k])
  BY DEF ShredTyped
<1>2. CASE i = Code
  BY <1>1, <1>2 DEF WithShred, SetTyped
<1>3. CASE i # Code
  <2>1. i \in Data /\ WithShred(k, i) = [sets[k] EXCEPT !.data = @ \cup {i},
           !.expected = IF IsTerminator(k, i) THEN i ELSE @]
    BY <1>3 DEF WithShred
  <2>2. IsTerminator(k, i) => i = DataPerSet
    BY DEF IsTerminator
  <2> DEFINE w == WithShred(k, i)
  <2>3. /\ sets[k].data \in SUBSET Data /\ sets[k].expected \in {0, DataPerSet}
        /\ DataPerSet \in Nat
    BY <1>1, CodeNotData DEF SetTyped
  <2>4. w.data = sets[k].data \cup {i}
    BY <1>1, <2>1 DEF SetTyped
  <2>5. w.expected \in {0, DataPerSet}
    BY <1>1, <2>1, <2>2, <2>3 DEF SetTyped
  <2>6. w \in [data : SUBSET Data, coding : BOOLEAN, expected : Nat, old : BOOLEAN]
    <3>1. (IF IsTerminator(k, i) THEN i ELSE sets[k].expected) \in Nat
      BY <2>2, <2>3
    <3>2. sets[k].data \cup {i} \in SUBSET Data
      BY <2>1, <2>3
    <3> QED BY <1>1, <2>1, <3>1, <3>2 DEF SetTyped
  <2> QED BY <1>3, <2>4, <2>5, <2>6 DEF SetTyped
<1> QED BY <1>2, <1>3

MapTyped(fecs) ==
  /\ fecs \in [FecSets -> [data : SUBSET Data, coding : BOOLEAN, expected : Nat,
                          old : BOOLEAN]]
  /\ \A k \in FecSets : SetTyped(fecs[k])

LEMMA VacantTyped == SetTyped(Vacant) /\ Vacant.data = {}
BY DEF SetTyped, Vacant

LEMMA EvictTyped ==
  ASSUME NEW fecs, MapTyped(fecs)
  PROVE  MapTyped(EvictOld(fecs)) /\ \A k \in FecSets : EvictOld(fecs)[k].data \subseteq fecs[k].data
<1>1. \A k \in FecSets : EvictOld(fecs)[k] \in {Vacant, fecs[k]}
  BY DEF EvictOld
<1>2. EvictOld(fecs) \in [FecSets -> [data : SUBSET Data, coding : BOOLEAN, expected : Nat,
                          old : BOOLEAN]]
  BY VacantTyped DEF EvictOld, MapTyped, SetTyped
<1>3. \A k \in FecSets : SetTyped(EvictOld(fecs)[k])
  BY <1>1, VacantTyped DEF MapTyped
<1>4. \A k \in FecSets : EvictOld(fecs)[k].data \subseteq fecs[k].data
  BY <1>1, VacantTyped
<1> QED BY <1>2, <1>3, <1>4 DEF MapTyped

LEMMA IngestTyped ==
  ASSUME ShredTyped, NEW k \in FecSets, NEW i \in Data \cup {Code}
  PROVE  /\ MapTyped(Ingest(k, i))
         /\ \A j \in FecSets \ {k} : Ingest(k, i)[j] = sets[j]
         /\ Ingest(k, i)[k] = IF Complete(WithShred(k, i)) THEN Vacant ELSE WithShred(k, i)
<1> DEFINE new == IF Complete(WithShred(k, i)) THEN Vacant ELSE WithShred(k, i)
<1>1. SetTyped(new)
  BY WithShredTyped, VacantTyped
<1> HIDE DEF new
<1>2. Ingest(k, i) = [sets EXCEPT ![k] = new]
  BY DEF Ingest, new
<1>3. /\ \A j \in FecSets \ {k} : Ingest(k, i)[j] = sets[j]
      /\ Ingest(k, i)[k] = new
  BY <1>2 DEF ShredTyped
<1>4. MapTyped(Ingest(k, i))
  BY <1>1, <1>2, <1>3 DEF MapTyped, ShredTyped, SetTyped
<1> QED BY <1>3, <1>4 DEF new

LEMMA BaseType == ASSUME ShredTyped, NEW s PROVE Base(s) \in Nat
BY DEF Base, ShredTyped, OffsetsTyped

LEMMA OffsetsAfterTyped ==
  ASSUME ShredTyped, NEW k \in FecSets
  PROVE  OffsetsTyped(OffsetsAfter(k))
<1>1. CASE k \in Undecodable
  BY <1>1 DEF OffsetsAfter, ShredTyped
<1>2. CASE k \notin Undecodable
  <2> DEFINE D == DOMAIN slot_entry_offset \cup {k[1]}
  <2>1. OffsetsAfter(k) = [s \in D |-> IF s = k[1] THEN Base(s) + EntriesPerSet
                                       ELSE slot_entry_offset[s]]
    BY <1>2 DEF OffsetsAfter
  <2>2. D \subseteq Slot
    BY SlotsAreNat DEF ShredTyped, OffsetsTyped
  <2>3. \A s \in D : (IF s = k[1] THEN Base(s) + EntriesPerSet
                      ELSE slot_entry_offset[s]) \in Nat
    <3>1. \A s \in D : Base(s) + EntriesPerSet \in Nat
      BY BaseType, ShredAssumption
    <3>2. \A s \in DOMAIN slot_entry_offset : slot_entry_offset[s] \in Nat
      BY DEF ShredTyped, OffsetsTyped
    <3> QED BY <3>1, <3>2
  <2> HIDE DEF D
  <2> QED BY <2>1, <2>2, <2>3 DEF OffsetsTyped
<1> QED BY <1>1, <1>2

LEMMA PruneTyped ==
  ASSUME NEW offsets, OffsetsTyped(offsets), NEW highest \in Nat
  PROVE  /\ OffsetsTyped(Prune(offsets, highest))
         /\ \A s \in DOMAIN Prune(offsets, highest) : s \in DOMAIN offsets
                /\ Prune(offsets, highest)[s] = offsets[s]
         /\ \A s \in DOMAIN offsets : s + KeepSlots >= highest =>
              s \in DOMAIN Prune(offsets, highest)
BY DEF Prune, OffsetsTyped

(* What one turn of the worker's loop does with a shred or with garbage. *)
LEMMA WorkTyped == ASSUME ShredTyped, Work PROVE ShredTyped'
<1>1. raw' \in Seq(Shred \cup {Garbage}) /\ Head(raw) \in Shred \cup {Garbage}
  BY DEF Work, ShredTyped
<1>2. MapTyped(sets)
  BY DEF ShredTyped, MapTyped
<1>3. ASSUME NEW fecs, MapTyped(fecs), NEW offsets, OffsetsTyped(offsets),
             NEW highest \in Nat, Housekeeping(fecs, offsets, highest)
      PROVE  /\ (sets \in [FecSets -> [data : SUBSET Data, coding : BOOLEAN, expected : Nat,
                           old : BOOLEAN]])'
             /\ (\A k \in FecSets : SetTyped(sets[k]))'
             /\ OffsetsTyped(slot_entry_offset)'
  <2>1. MapTyped(sets')
    BY <1>3, EvictTyped DEF Housekeeping
  <2>2. OffsetsTyped(slot_entry_offset')
    BY <1>3, PruneTyped DEF Housekeeping
  <2> QED BY <2>1, <2>2 DEF MapTyped, OffsetsTyped, SetTyped
<1>4. CASE Head(raw) = Garbage
  <2>1. Housekeeping(sets, slot_entry_offset, highest_slot)
        /\ UNCHANGED <<highest_slot, arrived, emissions, uses>>
    BY <1>4 DEF Work
  <2>2. OffsetsTyped(slot_entry_offset) /\ highest_slot \in Nat
    BY DEF ShredTyped
  <2> QED BY <1>1, <1>2, <1>3, <2>1, <2>2 DEF ShredTyped
<1>5. CASE Head(raw) # Garbage
  <2> DEFINE k == Head(raw)[1]
             i == Head(raw)[2]
             highest == IF k[1] > highest_slot THEN k[1] ELSE highest_slot
  <2>1. k \in FecSets /\ i \in Data \cup {Code}
    BY <1>1, <1>5 DEF Shred
  <2>2. highest \in Nat
    BY <2>1, SlotsAreNat DEF ShredTyped
  <2>3. arrived' \in [FecSets \X Data -> Nat]
    <3>1. arrived' = [d \in DOMAIN arrived |->
                       arrived[d] + IF d = Head(raw) THEN 1 ELSE 0]
      BY <1>5 DEF Work
    <3>2. DOMAIN arrived = FecSets \X Data /\ \A d \in FecSets \X Data : arrived[d] \in Nat
      BY DEF ShredTyped
    <3> QED BY <3>1, <3>2
  <2>4. CASE Complete(WithShred(k, i))
    <3>1. highest_slot' = highest /\ EmitEntries(k)
          /\ Housekeeping(Ingest(k, i), OffsetsAfter(k), highest)
      BY <1>5, <2>4 DEF Work
    <3>2. emissions' \in [FecSets -> Nat] /\ uses' \in [Slot \X Index -> Nat]
      <4>1. emissions \in [FecSets -> Nat] /\ uses \in [Slot \X Index -> Nat]
        BY DEF ShredTyped
      <4>2. CASE k \in Undecodable
        BY <3>1, <4>1, <4>2 DEF EmitEntries
      <4>3. CASE k \notin Undecodable
        <5>1. emissions' = [emissions EXCEPT ![k] = @ + 1]
          BY <3>1, <4>3 DEF EmitEntries
        <5> DEFINE N == Base(k[1]) .. (Base(k[1]) + EntriesPerSet - 1)
        <5>2. uses' = [u \in Slot \X Index |->
                        IF u[1] = k[1] /\ u[2] \in N THEN uses[u] + 1 ELSE uses[u]]
          BY <3>1, <4>3 DEF EmitEntries
        <5> HIDE DEF N
        <5>3. emissions' \in [FecSets -> Nat]
          <6>1. emissions \in [FecSets -> Nat] /\ emissions[k] + 1 \in Nat
            BY <2>1, <4>1
          <6> QED BY <5>1, <6>1
        <5>4. uses' \in [Slot \X Index -> Nat]
          <6>1. \A u \in Slot \X Index : uses[u] \in Nat /\ uses[u] + 1 \in Nat
            BY <4>1
          <6> QED BY <5>2, <6>1
        <5> QED BY <5>3, <5>4
      <4> QED BY <4>2, <4>3
    <3>3. MapTyped(Ingest(k, i)) /\ OffsetsTyped(OffsetsAfter(k))
      BY <2>1, IngestTyped, OffsetsAfterTyped
    <3> HIDE DEF highest
    <3> QED BY <1>1, <1>3, <2>2, <2>3, <3>1, <3>2, <3>3 DEF ShredTyped
  <2>5. CASE ~Complete(WithShred(k, i))
    <3>1. UNCHANGED <<highest_slot, emissions, uses>>
          /\ Housekeeping(Ingest(k, i), slot_entry_offset, highest_slot)
      BY <1>5, <2>5 DEF Work
    <3>3. MapTyped(Ingest(k, i)) /\ OffsetsTyped(slot_entry_offset) /\ highest_slot \in Nat
      BY <2>1, IngestTyped DEF ShredTyped
    <3> QED BY <1>1, <1>3, <2>3, <3>1, <3>3 DEF ShredTyped
  <2> QED BY <2>4, <2>5
<1> QED BY <1>4, <1>5

LEMMA ShredInitTyped == ShredInit => ShredTyped
<1> SUFFICES ASSUME ShredInit PROVE ShredTyped
  OBVIOUS
<1>1. OffsetsTyped(slot_entry_offset)
  <2>1. slot_entry_offset = <<>>
    BY DEF ShredInit
  <2>2. DOMAIN <<>> = {}
    OBVIOUS
  <2>3. \A s \in DOMAIN slot_entry_offset : FALSE
    BY <2>1, <2>2
  <2>4. slot_entry_offset \in [DOMAIN slot_entry_offset -> Nat]
    BY <2>1
  <2> QED BY <2>3, <2>4 DEF OffsetsTyped
<1>2. \A k \in FecSets : SetTyped(sets[k])
  BY VacantTyped DEF ShredInit
<1>3. sets \in [FecSets -> [data : SUBSET Data, coding : BOOLEAN, expected : Nat, old : BOOLEAN]]
  BY VacantTyped DEF ShredInit, SetTyped
<1>4. raw \in Seq(Shred \cup {Garbage})
  BY DEF ShredInit
<1> QED BY <1>1, <1>2, <1>3, <1>4 DEF ShredInit, ShredTyped

LEMMA AgeTyped ==
  ASSUME ShredTyped, SetsAge
  PROVE  /\ ShredTyped'
         /\ \A k \in FecSets : sets'[k].data = sets[k].data
<1>1. \A k \in FecSets : /\ SetTyped(sets'[k])
                         /\ sets'[k].data = sets[k].data
  BY VacantTyped DEF SetsAge, ShredTyped, SetTyped
<1>2. sets' \in [FecSets -> [data : SUBSET Data, coding : BOOLEAN, expected : Nat, old : BOOLEAN]]
  BY VacantTyped DEF SetsAge, ShredTyped, SetTyped
<1>3. UNCHANGED <<raw, slot_entry_offset, highest_slot, arrived, emissions, uses>>
  BY DEF SetsAge
<1>4. (\A k \in FecSets : SetTyped(sets[k]))'
  BY <1>1 DEF SetTyped
<1>5. OffsetsTyped(slot_entry_offset)'
  BY <1>3 DEF OffsetsTyped, ShredTyped
<1> QED BY <1>1, <1>2, <1>3, <1>4, <1>5 DEF ShredTyped

(* What the steps outside the worker leave alone.                          *)
LEMMA ShredElsewhere ==
  ASSUME ShredTyped,
         (\E packet \in Shred \cup {Garbage} : UdpReceive(packet)) \/ EvictionDue
           \/ UNCHANGED shredVars
  PROVE  /\ UNCHANGED <<sets, slot_entry_offset, highest_slot, arrived, emissions, uses>>
         /\ raw' \in Seq(Shred \cup {Garbage})
<1>1. raw \in Seq(Shred \cup {Garbage})
  BY DEF ShredTyped
<1>2. ASSUME NEW packet \in Shred \cup {Garbage}, UdpReceive(packet)
      PROVE  /\ UNCHANGED <<sets, slot_entry_offset, highest_slot, arrived, emissions, uses>>
             /\ raw' \in Seq(Shred \cup {Garbage})
  <2> DEFINE P == Shred \cup {Garbage}
  <2>1. raw \in Seq(P) /\ packet \in P /\ raw' = Append(raw, packet)
    BY <1>1, <1>2 DEF UdpReceive
  <2> HIDE DEF P
  <2>2. raw' \in Seq(P)
    BY <2>1
  <2> QED BY <1>2, <2>2 DEF UdpReceive, P
<1>3. CASE EvictionDue \/ UNCHANGED shredVars
  BY <1>1, <1>3 DEF EvictionDue, shredVars
<1> QED BY <1>2, <1>3

LEMMA ShredStepTyped == ShredTyped /\ [ShredNext]_shredVars => ShredTyped'
<1> SUFFICES ASSUME ShredTyped, [ShredNext]_shredVars PROVE ShredTyped'
  OBVIOUS
<1>1. CASE Work
  BY <1>1, WorkTyped
<1>2. CASE SetsAge
  BY <1>2, AgeTyped
<1>3. CASE (\E packet \in Shred \cup {Garbage} : UdpReceive(packet)) \/ EvictionDue
           \/ UNCHANGED shredVars
  <2>1. UNCHANGED <<sets, slot_entry_offset, highest_slot, arrived, emissions, uses>>
         /\ raw' \in Seq(Shred \cup {Garbage})
    BY <1>3, ShredElsewhere
  <2> QED BY <2>1 DEF ShredTyped, SetTyped, OffsetsTyped
<1> QED BY <1>1, <1>2, <1>3 DEF ShredNext

-----------------------------------------------------------------------------
(* What was emitted of a set and what it has collected is paid for by      *)
(* copies that arrived.                                                    *)
PaidFor ==
  \A k \in FecSets : \A i \in Data :
    emissions[k] + (IF i \in sets[k].data THEN 1 ELSE 0) <= arrived[<<k, i>>]

LEMMA WorkPaid == ASSUME ShredTyped, PaidFor, Work PROVE PaidFor'
<1>1. Head(raw) \in Shred \cup {Garbage}
  BY DEF Work, ShredTyped
<1>2. ASSUME NEW fecs, MapTyped(fecs), NEW offsets, NEW highest,
             Housekeeping(fecs, offsets, highest)
      PROVE  \A k \in FecSets : sets'[k].data \subseteq fecs[k].data
  BY <1>2, EvictTyped DEF Housekeeping
<1>3. CASE Head(raw) = Garbage
  <2>1. Housekeeping(sets, slot_entry_offset, highest_slot)
        /\ UNCHANGED <<arrived, emissions>>
    BY <1>3 DEF Work
  <2>2. \A k \in FecSets : sets'[k].data \subseteq sets[k].data
    BY <1>2, <2>1 DEF ShredTyped, MapTyped
  <2>3. ASSUME NEW k \in FecSets, NEW i \in Data
        PROVE  emissions[k] + (IF i \in sets'[k].data THEN 1 ELSE 0) <= arrived[<<k, i>>]
    <3>1. emissions[k] + (IF i \in sets[k].data THEN 1 ELSE 0) <= arrived[<<k, i>>]
      BY DEF PaidFor
    <3>2. emissions[k] \in Nat /\ arrived[<<k, i>>] \in Nat
      BY DEF ShredTyped
    <3> QED BY <2>2, <3>1, <3>2
  <2> QED BY <2>1, <2>3 DEF PaidFor
<1>4. CASE Head(raw) # Garbage
  <2>1. PICK k \in FecSets, i \in Data \cup {Code} : Head(raw) = <<k, i>>
    BY <1>1, <1>4 DEF Shred
  <2> DEFINE w == WithShred(k, i)
  <2>2. \A j \in FecSets, m \in Data :
          arrived'[<<j, m>>] = arrived[<<j, m>>] + IF j = k /\ m = i THEN 1 ELSE 0
    <3>1. arrived' = [d \in DOMAIN arrived |->
                       arrived[d] + IF d = Head(raw) THEN 1 ELSE 0]
      BY <1>4 DEF Work
    <3>2. DOMAIN arrived = FecSets \X Data
      BY DEF ShredTyped
    <3> QED BY <2>1, <3>1, <3>2
  <2>3. w.data = IF i = Code THEN sets[k].data ELSE sets[k].data \cup {i}
    BY <2>1, WithShredTyped
  <2>4. /\ MapTyped(Ingest(k, i))
        /\ \A j \in FecSets \ {k} : Ingest(k, i)[j] = sets[j]
        /\ Complete(w) => Ingest(k, i)[k] = Vacant
        /\ ~Complete(w) => Ingest(k, i)[k] = w
    BY <2>1, IngestTyped
  <2>5. CASE Complete(w)
    <3>1. EmitEntries(k) /\ \E offsets, highest : Housekeeping(Ingest(k, i), offsets, highest)
      <4>1. Head(raw)[1] = k /\ Head(raw)[2] = i
        BY <2>1
      <4> QED BY <1>4, <2>5, <4>1 DEF Work
    <3>2. \A j \in FecSets : sets'[j].data \subseteq Ingest(k, i)[j].data
      <4>1. MapTyped(Ingest(k, i))
        BY <2>4
      <4>2. PICK offsets, highest : Housekeeping(Ingest(k, i), offsets, highest)
        BY <3>1
      <4> QED BY <1>2, <4>1, <4>2
    <3>3. sets'[k].data = {}
      <4>1. Ingest(k, i)[k] = Vacant
        BY <2>4, <2>5
      <4>2. sets'[k].data \subseteq Ingest(k, i)[k].data
        BY <2>1, <3>2
      <4>3. Ingest(k, i)[k].data = {}
        BY <4>1, VacantTyped
      <4> QED BY <4>2, <4>3
    <3>4. w.data = Data
      BY <2>1, <2>5, WithShredTyped, CompleteIsAll
    <3>5. /\ emissions'[k] \in {emissions[k], emissions[k] + 1}
          /\ \A j \in FecSets \ {k} : emissions'[j] = emissions[j]
      BY <2>1, <3>1 DEF EmitEntries, ShredTyped
    <3>6. ASSUME NEW m \in Data
          PROVE  emissions'[k] + (IF m \in sets'[k].data THEN 1 ELSE 0) <= arrived'[<<k, m>>]
      <4>1. emissions[k] + (IF m \in sets[k].data THEN 1 ELSE 0) <= arrived[<<k, m>>]
        BY <2>1 DEF PaidFor
      <4>2. emissions[k] \in Nat /\ arrived[<<k, m>>] \in Nat
        BY <2>1 DEF ShredTyped
      <4>3. m \in sets[k].data \/ m = i
        BY <2>3, <3>4
      <4>4. arrived'[<<k, m>>] >= emissions[k] + 1
        BY <2>1, <2>2, <4>1, <4>2, <4>3
      <4> QED BY <2>1, <2>2, <3>3, <3>5, <4>2, <4>4
    <3>7. ASSUME NEW j \in FecSets \ {k}, NEW m \in Data
          PROVE  emissions'[j] + (IF m \in sets'[j].data THEN 1 ELSE 0) <= arrived'[<<j, m>>]
      <4>1. emissions[j] + (IF m \in sets[j].data THEN 1 ELSE 0) <= arrived[<<j, m>>]
        BY DEF PaidFor
      <4>2. emissions[j] \in Nat /\ arrived[<<j, m>>] \in Nat
        BY DEF ShredTyped
      <4>3. sets'[j].data \subseteq sets[j].data
        BY <2>4, <3>2
      <4>4. emissions'[j] = emissions[j] /\ arrived'[<<j, m>>] = arrived[<<j, m>>]
        <5>1. j # k /\ emissions'[j] = emissions[j]
          BY <3>5
        <5>2. arrived'[<<j, m>>] = arrived[<<j, m>>]
          BY <2>2, <4>2, <5>1
        <5> QED BY <5>1, <5>2
      <4> QED BY <4>1, <4>2, <4>3, <4>4
    <3> QED BY <2>1, <3>6, <3>7 DEF PaidFor
  <2>6. CASE ~Complete(w)
    <3>1. UNCHANGED emissions /\ \E offsets, highest : Housekeeping(Ingest(k, i), offsets, highest)
      <4>1. Head(raw)[1] = k /\ Head(raw)[2] = i
        BY <2>1
      <4> QED BY <1>4, <2>6, <4>1 DEF Work
    <3>2. \A j \in FecSets : sets'[j].data \subseteq Ingest(k, i)[j].data
      <4>1. MapTyped(Ingest(k, i))
        BY <2>4
      <4>2. PICK offsets, highest : Housekeeping(Ingest(k, i), offsets, highest)
        BY <3>1
      <4> QED BY <1>2, <4>1, <4>2
    <3>3. \A j \in FecSets : sets'[j].data \subseteq
            sets[j].data \cup (IF j = k /\ i \in Data THEN {i} ELSE {})
      <4>1. Ingest(k, i)[k] = w
        BY <2>4, <2>6
      <4>2. w.data \subseteq sets[k].data \cup (IF i \in Data THEN {i} ELSE {})
        BY <2>1, <2>3
      <4> DEFINE new == Ingest(k, i)
      <4>3. new[k].data \subseteq sets[k].data \cup (IF i \in Data THEN {i} ELSE {})
        BY <4>1, <4>2
      <4>4. \A j \in FecSets \ {k} : new[j].data = sets[j].data
        BY <2>4
      <4>5. \A j \in FecSets : sets'[j].data \subseteq new[j].data
        BY <3>2
      <4> HIDE DEF w, new
      <4>6. ASSUME NEW j \in FecSets
            PROVE  sets'[j].data \subseteq
                     sets[j].data \cup (IF j = k /\ i \in Data THEN {i} ELSE {})
        <5>1. CASE j = k
          BY <4>3, <4>5, <5>1
        <5>2. CASE j # k
          BY <4>4, <4>5, <5>2
        <5> QED BY <5>1, <5>2
      <4> QED BY <4>6
    <3>4. ASSUME NEW j \in FecSets, NEW m \in Data
          PROVE  emissions'[j] + (IF m \in sets'[j].data THEN 1 ELSE 0) <= arrived'[<<j, m>>]
      <4>1. emissions[j] + (IF m \in sets[j].data THEN 1 ELSE 0) <= arrived[<<j, m>>]
        BY DEF PaidFor
      <4>2. emissions[j] \in Nat /\ arrived[<<j, m>>] \in Nat
        BY DEF ShredTyped
      <4>3. m \in sets'[j].data => m \in sets[j].data \/ (j = k /\ m = i)
        BY <3>3
      <4> QED BY <2>2, <3>1, <4>1, <4>2, <4>3
    <3> QED BY <3>4 DEF PaidFor
  <2> QED BY <2>5, <2>6
<1> QED BY <1>3, <1>4

LEMMA ShredStepPaid == ShredTyped /\ PaidFor /\ [ShredNext]_shredVars => PaidFor'
<1> SUFFICES ASSUME ShredTyped, PaidFor, [ShredNext]_shredVars PROVE PaidFor'
  OBVIOUS
<1>1. CASE Work
  BY <1>1, WorkPaid
<1>2. CASE SetsAge
  <2>1. \A k \in FecSets : sets'[k].data = sets[k].data
    BY <1>2, AgeTyped
  <2>2. UNCHANGED <<arrived, emissions>>
    BY <1>2 DEF SetsAge
  <2> QED BY <2>1, <2>2 DEF PaidFor
<1>3. CASE (\E packet \in Shred \cup {Garbage} : UdpReceive(packet)) \/ EvictionDue
           \/ UNCHANGED shredVars
  BY <1>3, ShredElsewhere DEF PaidFor
<1> QED BY <1>1, <1>2, <1>3 DEF ShredNext

(* Whatever the network loses, repeats or delays: a FEC set's entries are  *)
(* emitted at most as often as each of its data shreds has arrived.        *)
THEOREM EmittedOncePerCopy == ShredSpec => []EmittedPerFullCopy
<1>1. ShredInit => ShredTyped
  BY ShredInitTyped
<1>2. ShredInit => PaidFor
  BY VacantTyped DEF ShredInit, PaidFor
<1>3. ShredTyped /\ PaidFor /\ [ShredNext]_shredVars => ShredTyped' /\ PaidFor'
  BY ShredStepTyped, ShredStepPaid
<1>4. ShredTyped /\ PaidFor => EmittedPerFullCopy
  <2> SUFFICES ASSUME ShredTyped, PaidFor, NEW k \in FecSets, NEW i \in Data
               PROVE  emissions[k] <= arrived[<<k, i>>]
    BY DEF EmittedPerFullCopy
  <2>1. emissions[k] + (IF i \in sets[k].data THEN 1 ELSE 0) <= arrived[<<k, i>>]
    BY DEF PaidFor
  <2>2. emissions[k] \in Nat /\ arrived[<<k, i>>] \in Nat
    BY DEF ShredTyped
  <2> QED BY <2>1, <2>2
<1> QED BY <1>1, <1>2, <1>3, <1>4, PTL DEF ShredSpec

-----------------------------------------------------------------------------
(* In the slots that pruning keeps an index is given once and is below the *)
(* next one.                                                               *)
Numbered ==
  \A u \in Slot \X Index : u[1] + KeepSlots >= highest_slot =>
    /\ uses[u] <= 1
    /\ uses[u] > 0 => u[2] \in Nat /\ u[2] < Base(u[1])

BaseIn(offsets, s) == IF s \in DOMAIN offsets THEN offsets[s] ELSE 0

(* Housekeeping forgets no slot within the kept window. *)
LEMMA HousekeepingKeeps ==
  ASSUME NEW fecs, NEW offsets, OffsetsTyped(offsets), NEW highest \in Nat,
         Housekeeping(fecs, offsets, highest), NEW s \in Slot, s + KeepSlots >= highest
  PROVE  Base(s)' = BaseIn(offsets, s)
BY PruneTyped DEF Housekeeping, Base, BaseIn

LEMMA WorkNumbered == ASSUME ShredTyped, Numbered, Work PROVE Numbered'
<1>1. Head(raw) \in Shred \cup {Garbage}
  BY DEF Work, ShredTyped
<1>2. OffsetsTyped(slot_entry_offset) /\ highest_slot \in Nat
  BY DEF ShredTyped
<1>3. \A s : BaseIn(slot_entry_offset, s) = Base(s)
  BY DEF Base, BaseIn
<1>4. ASSUME \E fecs : Housekeeping(fecs, slot_entry_offset, highest_slot),
             UNCHANGED <<highest_slot, uses>>
      PROVE  Numbered'
  <2>1. ASSUME NEW u \in Slot \X Index, u[1] + KeepSlots >= highest_slot
        PROVE  Base(u[1])' = Base(u[1])
    BY <1>2, <1>3, <1>4, <2>1, HousekeepingKeeps
  <2> QED BY <1>4, <2>1 DEF Numbered
<1>5. CASE Head(raw) = Garbage
  BY <1>4, <1>5 DEF Work
<1>6. CASE Head(raw) # Garbage
  <2> DEFINE k == Head(raw)[1]
             i == Head(raw)[2]
             highest == IF k[1] > highest_slot THEN k[1] ELSE highest_slot
  <2>1. k \in FecSets /\ i \in Data \cup {Code} /\ k[1] \in Slot /\ k[1] \in Nat
    BY <1>1, <1>6, SlotsAreNat DEF Shred
  <2>2. CASE ~Complete(WithShred(k, i))
    BY <1>4, <1>6, <2>2 DEF Work
  <2>3. CASE Complete(WithShred(k, i))
    <3>1. highest_slot' = highest /\ EmitEntries(k)
          /\ Housekeeping(Ingest(k, i), OffsetsAfter(k), highest)
      BY <1>6, <2>3 DEF Work
    <3>2. highest \in Nat /\ highest >= highest_slot
      BY <1>2, <2>1
    <3> HIDE DEF highest, i
    <3>3. ASSUME NEW s \in Slot, s + KeepSlots >= highest
          PROVE  Base(s)' = BaseIn(OffsetsAfter(k), s)
      BY <2>1, <3>1, <3>2, <3>3, OffsetsAfterTyped, HousekeepingKeeps
    <3> HIDE DEF k
    <3>4. SUFFICES ASSUME NEW u \in Slot \X Index, u[1] + KeepSlots >= highest
                   PROVE  /\ uses'[u] <= 1
                          /\ uses'[u] > 0 => u[2] \in Nat /\ u[2] < Base(u[1])'
      BY <3>1 DEF Numbered
    <3>5. u[1] \in Slot /\ u[1] \in Nat /\ KeepSlots \in Nat
      BY SlotsAreNat, ShredAssumption
    <3>6. /\ uses[u] \in Nat /\ uses[u] <= 1
          /\ uses[u] > 0 => u[2] \in Nat /\ u[2] < Base(u[1])
      BY <1>2, <3>2, <3>4, <3>5 DEF Numbered, ShredTyped
    <3>7. Base(u[1])' = BaseIn(OffsetsAfter(k), u[1])
      BY <3>3, <3>4, <3>5
    <3>8. Base(u[1]) \in Nat /\ EntriesPerSet \in Nat
      BY BaseType, ShredAssumption
    <3>9. CASE k \in Undecodable \/ u[1] # k[1]
      <4>1. uses'[u] = uses[u]
        BY <3>1, <3>9 DEF EmitEntries
      <4>2. BaseIn(OffsetsAfter(k), u[1]) = Base(u[1])
        BY <3>9 DEF OffsetsAfter, BaseIn, Base
      <4> QED BY <3>6, <3>7, <4>1, <4>2
    <3>10. CASE k \notin Undecodable /\ u[1] = k[1]
      <4>1. uses'[u] = IF u[2] \in Base(u[1]) .. (Base(u[1]) + EntriesPerSet - 1)
                       THEN uses[u] + 1 ELSE uses[u]
        BY <3>1, <3>10 DEF EmitEntries
      <4>2. BaseIn(OffsetsAfter(k), u[1]) = Base(u[1]) + EntriesPerSet
        BY <3>10 DEF OffsetsAfter, BaseIn
      <4>3. CASE u[2] \in Base(u[1]) .. (Base(u[1]) + EntriesPerSet - 1)
        <5>1. uses[u] = 0 /\ u[2] \in Nat /\ u[2] < Base(u[1]) + EntriesPerSet
          BY <3>6, <3>8, <4>3
        <5> QED BY <3>7, <4>1, <4>2, <4>3, <5>1
      <4>4. CASE u[2] \notin Base(u[1]) .. (Base(u[1]) + EntriesPerSet - 1)
        BY <3>6, <3>7, <3>8, <4>1, <4>2, <4>4
      <4> QED BY <4>3, <4>4
    <3> QED BY <3>9, <3>10
  <2> QED BY <2>2, <2>3
<1> QED BY <1>5, <1>6

LEMMA ShredStepNumbered == ShredTyped /\ Numbered /\ [ShredNext]_shredVars => Numbered'
<1> SUFFICES ASSUME ShredTyped, Numbered, [ShredNext]_shredVars PROVE Numbered'
  OBVIOUS
<1>1. CASE Work
  BY <1>1, WorkNumbered
<1>2. CASE SetsAge
  BY <1>2 DEF SetsAge, Numbered, Base
<1>3. CASE (\E packet \in Shred \cup {Garbage} : UdpReceive(packet)) \/ EvictionDue
           \/ UNCHANGED shredVars
  BY <1>3, ShredElsewhere DEF Numbered, Base
<1> QED BY <1>1, <1>2, <1>3 DEF ShredNext

(* A slot gives an index to two entries only once the source is more than  *)
(* the kept window past it, in whatever order sets complete and whenever   *)
(* offsets are pruned.                                                     *)
THEOREM IndicesGivenOnce == ShredSpec => []IndexGivenOnce
<1>1. ShredInit => ShredTyped
  BY ShredInitTyped
<1>2. ShredInit => Numbered
  BY DEF ShredInit, Numbered
<1>3. ShredTyped /\ Numbered /\ [ShredNext]_shredVars => ShredTyped' /\ Numbered'
  BY ShredStepTyped, ShredStepNumbered
<1>4. ShredTyped /\ Numbered => IndexGivenOnce
  <2> SUFFICES ASSUME ShredTyped, Numbered, NEW u \in Slot \X Index, uses[u] > 1
               PROVE  u[1] + KeepSlots < highest_slot
    BY DEF IndexGivenOnce
  <2>1. u[1] \in Nat /\ KeepSlots \in Nat /\ highest_slot \in Nat /\ uses[u] \in Nat
    BY SlotsAreNat, ShredAssumption DEF ShredTyped
  <2>2. u[1] + KeepSlots >= highest_slot => uses[u] <= 1
    BY DEF Numbered
  <2> QED BY <2>1, <2>2
<1> QED BY <1>1, <1>2, <1>3, <1>4, PTL DEF ShredSpec

=============================================================================

------------------------- MODULE PohSupervisorProofs -------------------------
(***************************************************************************)
(* Proofs about the PoH supervisor, for any number of slots, entries and   *)
(* arrivals, any lag and grace and any size of the reorder buffer.         *)
(***************************************************************************)
EXTENDS PohSupervisor, FiniteSetTheorems, WellFoundedInduction, TLAPS

-----------------------------------------------------------------------------
(* How far the loops emit.                                                 *)

(* Every non-empty set of indices has a highest one.                       *)
LEMMA HighestIndex ==
  ASSUME NEW S \in SUBSET Index, S # {}
  PROVE  \E m \in S : \A x \in S : x <= m
<1> DEFINE Less == {nn \in Nat \X Nat : nn[1] < nn[2]}
           Distances == {MaxIndex - x : x \in S}
<1>1. IsWellFoundedOn(Less, Nat)
  BY NatLessThanWellFounded DEF OpToRel
<1>2. Distances \subseteq Nat /\ Distances # {}
  <2>1. \A x \in S : MaxIndex - x \in Nat
    BY SupervisorAssumption DEF Index
  <2> QED BY <2>1
<1> HIDE DEF Less
<1>3. PICK d \in Distances : \A e \in Distances : <<e, d>> \notin Less
  BY <1>1, <1>2, WFMin
<1>4. PICK m \in S : d = MaxIndex - m
  BY <1>3
<1>5. ASSUME NEW x \in S PROVE x <= m
  <2>1. MaxIndex - x \in Distances
    OBVIOUS
  <2>2. ~(MaxIndex - x < MaxIndex - m)
    BY <1>2, <1>3, <1>4, <2>1 DEF Less
  <2> QED BY <2>2, SupervisorAssumption DEF Index
<1> QED BY <1>5

LEMMA LastOfIsHighest ==
  ASSUME NEW S \in SUBSET Index, NEW d
  PROVE  IF S = {} THEN LastOf(S, d) = d
         ELSE LastOf(S, d) \in S /\ \A x \in S : x <= LastOf(S, d)
BY HighestIndex DEF LastOf

(* A slot state with nothing buffered that was emitted already. *)
Ordered(st) == st \in PohSlot /\ \A p \in st.pending : p >= st.next

(* Where a loop may stop: it has not gone back, and what is next is not    *)
(* buffered, so that the next entry in order is never taken for a second.  *)
StopsAt(st, last) == last \in st.next - 1 .. MaxIndex /\ last + 1 \notin st.pending

LEMMA SlotFields ==
  ASSUME NEW st \in PohSlot
  PROVE  /\ st.next \in 0 .. MaxIndex + 1 /\ st.pending \subseteq Index /\ st.ticks \subseteq Index
         /\ st.aged \subseteq Index /\ st.tick_idx \in 0 .. TICKS_PER_SLOT
         /\ st.has_missing \in BOOLEAN /\ st.sealed \in BOOLEAN
BY DEF PohSlot

LEMMA ConsecutiveStops == ASSUME NEW st, Ordered(st) PROVE StopsAt(st, Consecutive(st))
<1> DEFINE S == {p \in st.pending : st.next .. p \subseteq st.pending}
<1>1. st.next \in 0 .. MaxIndex + 1 /\ S \in SUBSET Index /\ st.pending \subseteq Index
  BY SlotFields DEF Ordered
<1>2. Consecutive(st) = LastOf(S, st.next - 1)
  BY DEF Consecutive
<1>3. CASE S = {}
  <2>1. Consecutive(st) = st.next - 1
    BY <1>1, <1>2, <1>3, LastOfIsHighest
  <2>2. st.next \notin st.pending
    <3>1. ASSUME st.next \in st.pending PROVE FALSE
      <4>1. st.next .. st.next \subseteq st.pending
        BY <1>1, <3>1
      <4> QED BY <1>3, <3>1, <4>1
    <3> QED BY <3>1
  <2> QED BY <1>1, <2>1, <2>2, SupervisorAssumption DEF StopsAt
<1>4. CASE S # {}
  <2> DEFINE last == LastOf(S, st.next - 1)
  <2>1. last \in S /\ \A x \in S : x <= last
    BY <1>1, <1>4, LastOfIsHighest
  <2> HIDE DEF last
  <2>2. last \in Index /\ last >= st.next /\ st.next .. last \subseteq st.pending
    BY <1>1, <2>1 DEF Ordered
  <2>3. last + 1 \notin st.pending
    <3>1. ASSUME last + 1 \in st.pending PROVE FALSE
      <4>1. st.next .. last + 1 \subseteq st.pending
        BY <1>1, <2>2, <3>1, SupervisorAssumption DEF Index
      <4>2. last + 1 \in S
        BY <3>1, <4>1
      <4> QED BY <2>1, <2>2, <4>2, SupervisorAssumption DEF Index
    <3> QED BY <3>1
  <2>4. last \in st.next - 1 .. MaxIndex
    BY <1>1, <2>2, SupervisorAssumption DEF Index
  <2> QED BY <1>2, <2>3, <2>4 DEF StopsAt, last
<1> QED BY <1>3, <1>4

(* Phase A stops at p: a gap before it that has not timed out. *)
Waits(st, p) == p \notin st.aged /\ p # st.next /\ p - 1 \notin st.pending

LEMMA OverdueStops == ASSUME NEW st, Ordered(st) PROVE StopsAt(st, Overdue(st))
<1> DEFINE S == {p \in st.pending : \A q \in st.pending : q <= p => ~Waits(st, q)}
<1>1. st.next \in 0 .. MaxIndex + 1 /\ S \in SUBSET Index /\ st.pending \subseteq Index
  BY SlotFields DEF Ordered
<1>2. Overdue(st) = LastOf(S, st.next - 1)
  BY DEF Overdue, Waits
<1>3. CASE S = {}
  <2>1. Overdue(st) = st.next - 1
    BY <1>1, <1>2, <1>3, LastOfIsHighest
  <2>2. st.next \notin st.pending
    <3>1. ASSUME st.next \in st.pending PROVE FALSE
      <4>1. \A q \in st.pending : q <= st.next => q = st.next
        BY <1>1 DEF Ordered, Index
      <4>2. st.next \in S
        BY <3>1, <4>1 DEF Waits
      <4> QED BY <1>3, <4>2
    <3> QED BY <3>1
  <2> QED BY <1>1, <2>1, <2>2, SupervisorAssumption DEF StopsAt
<1>4. CASE S # {}
  <2> DEFINE last == LastOf(S, st.next - 1)
  <2>1. last \in S /\ \A x \in S : x <= last
    BY <1>1, <1>4, LastOfIsHighest
  <2> HIDE DEF last
  <2>2. /\ last \in Index /\ last >= st.next /\ last \in st.pending
        /\ \A q \in st.pending : q <= last => ~Waits(st, q)
    BY <1>1, <2>1 DEF Ordered
  <2>3. last + 1 \notin st.pending
    <3>1. ASSUME last + 1 \in st.pending PROVE FALSE
      <4>1. (last + 1) - 1 = last
        BY <2>2, SupervisorAssumption DEF Index
      <4>2. ~Waits(st, last + 1)
        <5>1. last \in st.pending
          BY <2>2
        <5>2. (last + 1) - 1 \in st.pending
          BY <4>1, <5>1
        <5> QED BY <5>2 DEF Waits
      <4>3. \A q \in st.pending : q <= last + 1 => q <= last \/ q = last + 1
        BY <1>1, <2>2, SupervisorAssumption DEF Index
      <4>4. \A q \in st.pending : q <= last + 1 => ~Waits(st, q)
        BY <2>2, <4>2, <4>3
      <4>5. last + 1 \in S
        BY <3>1, <4>4
      <4> QED BY <2>1, <2>2, <4>5, SupervisorAssumption DEF Index
    <3> QED BY <3>1
  <2>4. last \in st.next - 1 .. MaxIndex
    BY <1>1, <2>2, SupervisorAssumption DEF Index
  <2> QED BY <1>2, <2>3, <2>4 DEF StopsAt, last
<1> QED BY <1>3, <1>4

LEMMA FlushStops ==
  ASSUME NEW st, Ordered(st)
  PROVE  StopsAt(st, Flush(st)) /\ \A p \in st.pending : p <= Flush(st)
<1>1. st.next \in 0 .. MaxIndex + 1 /\ st.pending \in SUBSET Index
  BY SlotFields DEF Ordered
<1>2. CASE st.pending = {}
  <2>1. Flush(st) = st.next - 1
    BY <1>1, <1>2, LastOfIsHighest DEF Flush
  <2> QED BY <1>1, <1>2, <2>1, SupervisorAssumption DEF StopsAt
<1>3. CASE st.pending # {}
  <2>1. Flush(st) \in st.pending /\ \A x \in st.pending : x <= Flush(st)
    BY <1>1, <1>3, LastOfIsHighest DEF Flush
  <2>2. Flush(st) \in Index /\ Flush(st) >= st.next
    BY <1>1, <2>1 DEF Ordered
  <2>3. Flush(st) + 1 \notin st.pending
    BY <2>1, <2>2, SupervisorAssumption DEF Index
  <2> QED BY <1>1, <2>1, <2>2, <2>3, SupervisorAssumption DEF StopsAt, Index
<1> QED BY <1>2, <1>3

-----------------------------------------------------------------------------
(* What they leave behind.                                                 *)

LEMMA SubsetOfIndex ==
  ASSUME NEW T \in SUBSET Index
  PROVE  IsFiniteSet(T) /\ Cardinality(T) \in Nat
<1>1. IsFiniteSet(Index)
  BY FS_Interval, SupervisorAssumption DEF Index
<1>2. IsFiniteSet(T)
  BY <1>1, FS_Subset
<1> QED BY <1>2, FS_CardinalityType

LEMMA TickCountType ==
  ASSUME NEW st \in PohSlot, NEW i
  PROVE  TickCount(st, i) \in 0 .. TICKS_PER_SLOT
<1> DEFINE T == {p \in st.ticks : p <= i}
<1>1. Cardinality(T) \in Nat
  BY SubsetOfIndex, SlotFields
<1>2. st.tick_idx \in 0 .. TICKS_PER_SLOT
  BY SlotFields
<1> HIDE DEF T
<1>3. TickCount(st, i) = IF st.tick_idx + Cardinality(T) < TICKS_PER_SLOT
                         THEN st.tick_idx + Cardinality(T) ELSE TICKS_PER_SLOT
  BY DEF TickCount, T
<1> QED BY <1>1, <1>2, <1>3, SupervisorAssumption

LEMMA EmitThroughFields ==
  ASSUME NEW st \in PohSlot, NEW last
  PROVE  /\ EmitThrough(st, last).next = last + 1
         /\ EmitThrough(st, last).pending = {p \in st.pending : p > last}
         /\ EmitThrough(st, last).ticks = {p \in st.ticks : p > last}
         /\ EmitThrough(st, last).aged = {p \in st.aged : p > last}
         /\ EmitThrough(st, last).tick_idx = TickCount(st, last)
         /\ EmitThrough(st, last).has_missing = Gap(st, last + 1)
         /\ EmitThrough(st, last).sealed = st.sealed
BY DEF EmitThrough, PohSlot

LEMMA EmitThroughType ==
  ASSUME NEW st, Ordered(st), NEW last, StopsAt(st, last)
  PROVE  /\ EmitThrough(st, last) \in PohSlot
         /\ \A p \in EmitThrough(st, last).pending : p > EmitThrough(st, last).next
<1> DEFINE P == {p \in st.pending : p > last}
           T == {p \in st.ticks : p > last}
           A == {p \in st.aged : p > last}
           n == TickCount(st, last)
           g == Gap(st, last + 1)
<1>1. /\ st.next \in 0 .. MaxIndex + 1 /\ st.pending \subseteq Index /\ st.ticks \subseteq Index
      /\ st.aged \subseteq Index /\ st \in PohSlot /\ st.has_missing \in BOOLEAN
  BY SlotFields DEF Ordered
<1>2. last + 1 \in 0 .. MaxIndex + 1
  BY <1>1, SupervisorAssumption DEF StopsAt
<1>3. P \in SUBSET Index /\ T \in SUBSET Index /\ A \in SUBSET Index
  BY <1>1
<1>4. n \in 0 .. TICKS_PER_SLOT
  BY <1>1, TickCountType
<1>5. g \in BOOLEAN
  BY <1>1 DEF Gap
<1>6. EmitThrough(st, last) = [st EXCEPT !.next = last + 1, !.pending = P, !.ticks = T,
                                        !.aged = A, !.tick_idx = n, !.has_missing = g]
  BY DEF EmitThrough
<1>7. \A p \in P : p > last + 1
  <2>1. \A p \in st.pending : p > last => p > last + 1 \/ p = last + 1
    BY <1>1, SupervisorAssumption DEF StopsAt, Index
  <2> QED BY <2>1 DEF StopsAt
<1>8. EmitThrough(st, last).pending = P /\ EmitThrough(st, last).next = last + 1
  BY <1>1, EmitThroughFields
<1> HIDE DEF P, T, A, n, g
<1>9. EmitThrough(st, last) \in PohSlot
  BY <1>1, <1>2, <1>3, <1>4, <1>5, <1>6 DEF PohSlot
<1> QED BY <1>7, <1>8, <1>9

-----------------------------------------------------------------------------
(* What they add to the stream.                                            *)

(* An index was reported missing. *)
Reported(l) == \E j \in 1 .. Len(l) : l[j].kind = "Missing"

(* An open slot and the events of its lifetime belong together. *)
Kept(st, l) ==
  /\ l \in Seq(Event)
  /\ Len(l) = st.next
  /\ Stream!InOrder(l)
  /\ st.has_missing <=> Reported(l)

LEMMA EmitType ==
  ASSUME NEW st \in PohSlot, NEW i \in Index
  PROVE  /\ Emit(st, i) \in Event
         /\ Emit(st, i).index = i
         /\ Emit(st, i).kind \in {"Entry", "Missing"}
         /\ Emit(st, i).kind = "Missing" <=> i \notin st.pending
         /\ Emit(st, i).kind = "Entry" => (Emit(st, i).uncertain <=> Gap(st, i))
<1>1. TickCount(st, i) \in 0 .. TICKS_PER_SLOT /\ 0 \in 0 .. TICKS_PER_SLOT
  BY TickCountType, SupervisorAssumption
<1>2. Gap(st, i) \in BOOLEAN
  BY SlotFields DEF Gap
<1> DEFINE n == TickCount(st, i)
           g == Gap(st, i)
<1>3. Emit(st, i) = IF i \in st.pending
                    THEN [kind |-> "Entry", index |-> i, ticks |-> n, uncertain |-> g]
                    ELSE [kind |-> "Missing", index |-> i, ticks |-> 0, uncertain |-> FALSE]
  BY DEF Emit
<1> HIDE DEF n, g
<1>4. n \in 0 .. TICKS_PER_SLOT /\ 0 \in 0 .. TICKS_PER_SLOT /\ g \in BOOLEAN
  BY <1>1, <1>2 DEF n, g
<1>5. Emit(st, i) \in Event
  BY <1>3, <1>4 DEF Event
<1>6. Emit(st, i).kind = "Entry" => (Emit(st, i).uncertain <=> Gap(st, i))
  BY <1>3 DEF g
<1> QED BY <1>3, <1>5, <1>6

LEMMA EventsType ==
  ASSUME NEW st, Ordered(st), NEW last, StopsAt(st, last)
  PROVE  /\ Events(st, last) \in Seq(Event)
         /\ Len(Events(st, last)) = last + 1 - st.next
         /\ \A k \in 1 .. last + 1 - st.next : Events(st, last)[k] = Emit(st, st.next + k - 1)
<1>1. st.next \in 0 .. MaxIndex + 1 /\ st \in PohSlot
  BY SlotFields DEF Ordered
<1>2. last + 1 - st.next \in Nat
  BY <1>1, SupervisorAssumption DEF StopsAt
<1>3. \A k \in 1 .. last + 1 - st.next : st.next + k - 1 \in Index
  BY <1>1, SupervisorAssumption DEF StopsAt, Index
<1>4. \A k \in 1 .. last + 1 - st.next : Emit(st, st.next + k - 1) \in Event
  BY <1>1, <1>3, EmitType
<1> DEFINE n == last + 1 - st.next
           e(k) == Emit(st, st.next + k - 1)
<1>5. Events(st, last) = [k \in 1 .. n |-> e(k)]
  BY DEF Events
<1>6. n \in Nat /\ \A k \in 1 .. n : e(k) \in Event
  BY <1>2, <1>4
<1> HIDE DEF n, e
<1>7. Events(st, last) \in Seq(Event) /\ Len(Events(st, last)) = n
  BY <1>5, <1>6
<1>8. \A k \in 1 .. n : Events(st, last)[k] = e(k)
  BY <1>5
<1> QED BY <1>7, <1>8 DEF n, e

LEMMA EmitKeeps ==
  ASSUME NEW st, Ordered(st), NEW last, StopsAt(st, last), NEW l, Kept(st, l)
  PROVE  /\ Kept(EmitThrough(st, last), l \o Events(st, last))
         /\ Stream!Appended(l, l \o Events(st, last))
<1> DEFINE E == Events(st, last)
           m == l \o E
           n == st.next
<1>1. n \in 0 .. MaxIndex + 1 /\ st \in PohSlot /\ last \in n - 1 .. MaxIndex
  BY SlotFields DEF Ordered, StopsAt
<1>2. l \in Seq(Event) /\ Len(l) = n
  BY DEF Kept
<1>3. E \in Seq(Event) /\ Len(E) = last + 1 - n
  BY EventsType
<1>4. m \in Seq(Event) /\ Len(m) = last + 1
  <2> HIDE DEF E, n
  <2>1. m \in Seq(Event) /\ Len(m) = Len(l) + Len(E)
    BY <1>2, <1>3
  <2> QED BY <1>1, <1>2, <1>3, <2>1, SupervisorAssumption
<1>5. \A k \in 1 .. n : m[k] = l[k]
  <2> HIDE DEF E, n
  <2> QED BY <1>1, <1>2, <1>3, SupervisorAssumption
<1>6. ASSUME NEW k \in n + 1 .. last + 1 PROVE m[k] = Emit(st, k - 1)
  <2>1. k - n \in 1 .. last + 1 - n /\ n + (k - n) - 1 = k - 1
    BY <1>1, SupervisorAssumption
  <2>2. E[k - n] = Emit(st, n + (k - n) - 1)
    BY <2>1, EventsType
  <2>3. m[k] = E[k - n]
    <3> HIDE DEF E, n
    <3>1. k \in Len(l) + 1 .. Len(l) + Len(E)
      BY <1>1, <1>2, <1>3, SupervisorAssumption
    <3> QED BY <1>1, <1>2, <1>3, <3>1
  <2> QED BY <2>1, <2>2, <2>3
<1>7. ASSUME NEW k \in n + 1 .. last + 1
      PROVE  /\ m[k].index = k - 1
             /\ m[k].kind \in {"Entry", "Missing"}
             /\ m[k].kind = "Missing" <=> k - 1 \notin st.pending
             /\ m[k].kind = "Entry" => (m[k].uncertain <=> Gap(st, k - 1))
  <2>1. k - 1 \in Index
    BY <1>1, SupervisorAssumption DEF Index
  <2> HIDE DEF m
  <2> QED BY <1>1, <1>6, <2>1, EmitType
<1> HIDE DEF m, E
<1>8. ASSUME NEW i \in n .. last + 1
      PROVE  Gap(st, i) <=> \E j \in 1 .. i : m[j].kind = "Missing"
  <2>1. (\E j \in 1 .. n : m[j].kind = "Missing") <=> st.has_missing
    BY <1>2, <1>5 DEF Kept, Reported
  <2>2. (\E j \in n .. i - 1 : j \notin st.pending)
          <=> \E j \in n + 1 .. i : m[j].kind = "Missing"
    <3>1. ASSUME NEW j \in n .. i - 1, j \notin st.pending
          PROVE  \E h \in n + 1 .. i : m[h].kind = "Missing"
      <4>1. j + 1 \in n + 1 .. i /\ j + 1 \in n + 1 .. last + 1 /\ (j + 1) - 1 = j
        BY <1>1, SupervisorAssumption
      <4>2. m[j + 1].kind = "Missing"
        BY <1>7, <3>1, <4>1
      <4> QED BY <4>1, <4>2
    <3>2. ASSUME NEW j \in n + 1 .. i, m[j].kind = "Missing"
          PROVE  \E h \in n .. i - 1 : h \notin st.pending
      <4>1. j - 1 \in n .. i - 1 /\ j \in n + 1 .. last + 1
        BY <1>1, SupervisorAssumption
      <4>2. j - 1 \notin st.pending
        BY <1>7, <3>2, <4>1
      <4> QED BY <4>1, <4>2
    <3> QED BY <3>1, <3>2
  <2>3. \A j : j \in 1 .. i <=> j \in 1 .. n \/ j \in n + 1 .. i
    BY <1>1, SupervisorAssumption
  <2>4. (\E j \in 1 .. i : m[j].kind = "Missing")
          <=> (\E j \in 1 .. n : m[j].kind = "Missing") \/ \E j \in n + 1 .. i : m[j].kind = "Missing"
    BY <2>3
  <2>5. Gap(st, i) <=> st.has_missing \/ \E j \in n .. i - 1 : j \notin st.pending
    BY DEF Gap
  <2> QED BY <2>1, <2>2, <2>4, <2>5
<1>9. Stream!InOrder(m)
  <2>1. ASSUME NEW k \in 1 .. Len(m)
        PROVE  /\ m[k].kind \notin Stream!EndKind
               /\ m[k].index = k - 1
               /\ m[k].kind = "Entry" =>
                    (m[k].uncertain <=> \E j \in 1 .. k - 1 : m[j].kind = "Missing")
    <3>1. CASE k \in 1 .. n
      <4>1. /\ l[k].kind \notin Stream!EndKind
            /\ l[k].index = k - 1
            /\ l[k].kind = "Entry" =>
                 (l[k].uncertain <=> \E j \in 1 .. k - 1 : l[j].kind = "Missing")
        BY <1>2, <3>1 DEF Kept, Stream!InOrder
      <4>2. \A j \in 1 .. k - 1 : j \in 1 .. n
        BY <1>1, <3>1, SupervisorAssumption
      <4> QED BY <1>5, <3>1, <4>1, <4>2
    <3>2. CASE k \in n + 1 .. last + 1
      <4>1. k - 1 \in n .. last + 1
        BY <1>1, <3>2, SupervisorAssumption
      <4>2. Gap(st, k - 1) <=> \E j \in 1 .. k - 1 : m[j].kind = "Missing"
        BY <1>8, <4>1
      <4> QED BY <1>7, <3>2, <4>2 DEF Stream!EndKind
    <3>3. k \in 1 .. n \/ k \in n + 1 .. last + 1
      BY <1>1, <1>4, SupervisorAssumption
    <3> QED BY <3>1, <3>2, <3>3
  <2> QED BY <2>1 DEF Stream!InOrder
<1>10. EmitThrough(st, last).has_missing <=> Reported(m)
  <2>1. last + 1 \in n .. last + 1
    BY <1>1, SupervisorAssumption
  <2>2. EmitThrough(st, last).has_missing <=> Gap(st, last + 1)
    BY <1>1, EmitThroughFields
  <2> QED BY <1>4, <1>8, <2>1, <2>2 DEF Reported
<1>11. EmitThrough(st, last).next = last + 1
  BY <1>1, EmitThroughFields
<1>12. Stream!Appended(l, m)
  <2>1. Len(l) <= Len(m)
    BY <1>1, <1>2, <1>4, SupervisorAssumption
  <2> QED BY <1>2, <1>5, <2>1 DEF Stream!Appended
<1>13. Kept(EmitThrough(st, last), m)
  BY <1>4, <1>9, <1>10, <1>11 DEF Kept
<1> QED BY <1>12, <1>13 DEF m, E

-----------------------------------------------------------------------------
(* What they count.                                                        *)

(* The state of a slot between two steps: nothing buffered is due at once. *)
Steady(st) ==
  /\ st \in PohSlot
  /\ \A p \in st.pending : p > st.next
  /\ st.ticks \subseteq st.pending
  /\ Cardinality(st.pending) <= MaxPending

(* Emitted and buffered ticks account for the received ones, up to the     *)
(* entries the buffer refused; above TICKS_PER_SLOT nothing is counted.    *)
Counted(st, sn) ==
  /\ sn \in [ticks : Nat, lost : Nat]
  /\ st.tick_idx + Cardinality(st.ticks) <= sn.ticks
  /\ st.tick_idx < TICKS_PER_SLOT =>
       sn.ticks - sn.lost <= st.tick_idx + Cardinality(st.ticks)

LEMMA EmitCounts ==
  ASSUME NEW st \in PohSlot, NEW last \in Int, NEW sn, Counted(st, sn)
  PROVE  Counted(EmitThrough(st, last), sn)
<1> DEFINE lo == {p \in st.ticks : p <= last}
           hi == {p \in st.ticks : p > last}
           n == TickCount(st, last)
<1>1. st.ticks \in SUBSET Index /\ st.tick_idx \in 0 .. TICKS_PER_SLOT
  BY SlotFields
<1>2. lo \in SUBSET Index /\ hi \in SUBSET Index
  BY <1>1
<1>3. lo \cup hi = st.ticks /\ lo \cap hi = {}
  BY <1>1, SupervisorAssumption DEF Index
<1>4. n = IF st.tick_idx + Cardinality(lo) < TICKS_PER_SLOT
          THEN st.tick_idx + Cardinality(lo) ELSE TICKS_PER_SLOT
  BY DEF TickCount
<1>5. EmitThrough(st, last).tick_idx = n /\ EmitThrough(st, last).ticks = hi
  BY EmitThroughFields
<1> HIDE DEF lo, hi, n
<1>6. /\ IsFiniteSet(lo) /\ Cardinality(lo) \in Nat
      /\ IsFiniteSet(hi) /\ Cardinality(hi) \in Nat
  BY <1>2, SubsetOfIndex
<1>7. Cardinality(st.ticks) = Cardinality(lo) + Cardinality(hi)
  <2>1. Cardinality(lo \cup hi) = Cardinality(lo) + Cardinality(hi) - Cardinality(lo \cap hi)
    BY <1>6, FS_Union
  <2>2. Cardinality(lo \cap hi) = 0
    BY <1>3, FS_EmptySet
  <2>3. Cardinality(st.ticks) = Cardinality(lo) + Cardinality(hi) - 0
    BY <1>3, <2>1, <2>2, Zenon
  <2> QED BY <1>6, <2>3
<1>8. sn.ticks \in Nat /\ sn.lost \in Nat
  BY DEF Counted
<1>9. n + Cardinality(hi) <= sn.ticks
  <2>1. st.tick_idx + (Cardinality(lo) + Cardinality(hi)) <= sn.ticks
    BY <1>7 DEF Counted
  <2> QED BY <1>1, <1>4, <1>6, <1>8, <2>1, SupervisorAssumption
<1>10. n < TICKS_PER_SLOT => sn.ticks - sn.lost <= n + Cardinality(hi)
  <2>1. st.tick_idx < TICKS_PER_SLOT =>
          sn.ticks - sn.lost <= st.tick_idx + (Cardinality(lo) + Cardinality(hi))
    BY <1>7 DEF Counted
  <2> QED BY <1>1, <1>4, <1>6, <1>8, <2>1, SupervisorAssumption
<1> QED BY <1>5, <1>9, <1>10 DEF Counted

(* Every loop leaves a steady slot that stays with its events and counts.  *)
LEMMA EmitSteady ==
  ASSUME NEW st, Ordered(st), NEW last, StopsAt(st, last), st.ticks \subseteq st.pending,
         Cardinality({p \in st.pending : p > last}) <= MaxPending
  PROVE  Steady(EmitThrough(st, last))
<1>1. st \in PohSlot
  BY DEF Ordered
<1>2. /\ EmitThrough(st, last).pending = {p \in st.pending : p > last}
      /\ EmitThrough(st, last).ticks = {p \in st.ticks : p > last}
  BY <1>1, EmitThroughFields
<1> QED BY <1>2, EmitThroughType DEF Steady

LEMMA SteadyOrdered == ASSUME NEW st, Steady(st) PROVE Ordered(st)
<1>1. st.next \in 0 .. MaxIndex + 1 /\ st.pending \subseteq Index
  BY SlotFields DEF Steady
<1> QED BY <1>1, SupervisorAssumption DEF Steady, Ordered, Index

LEMMA FewerPending ==
  ASSUME NEW st, Steady(st), NEW T \in SUBSET st.pending
  PROVE  Cardinality(T) <= MaxPending
<1>1. st.pending \in SUBSET Index
  BY SlotFields DEF Steady
<1>2. T \in SUBSET Index
  BY <1>1
<1>3. Cardinality(T) <= Cardinality(st.pending)
  BY <1>1, SubsetOfIndex, FS_Subset
<1> QED BY <1>1, <1>2, <1>3, SubsetOfIndex, SupervisorAssumption DEF Steady

(* Phase A, or seal_slot, on one slot. *)
LEMMA SweptSlot ==
  ASSUME NEW st, Steady(st), NEW last, StopsAt(st, last),
         NEW l, Kept(st, l), NEW sn, Counted(st, sn)
  PROVE  /\ Steady(EmitThrough(st, last))
         /\ Kept(EmitThrough(st, last), l \o Events(st, last))
         /\ Stream!Appended(l, l \o Events(st, last))
         /\ Counted(EmitThrough(st, last), sn)
<1>1. Ordered(st)
  BY SteadyOrdered
<1>2. Steady(EmitThrough(st, last))
  <2>1. Cardinality({p \in st.pending : p > last}) <= MaxPending
    BY FewerPending
  <2> QED BY <1>1, <2>1, EmitSteady DEF Steady
<1>3. Counted(EmitThrough(st, last), sn)
  <2>1. st \in PohSlot /\ st.next \in 0 .. MaxIndex + 1
    BY SlotFields DEF Steady
  <2>2. last \in Int
    BY <2>1, SupervisorAssumption DEF StopsAt
  <2> QED BY <2>1, <2>2, EmitCounts
<1> QED BY <1>1, <1>2, <1>3, EmitKeeps

-----------------------------------------------------------------------------
(* The three ways process takes an entry.                                  *)

(* What Note leaves for a slot that had sn. *)
Noted(st, sn, idx, tick) ==
  LET refused == idx > st.next /\ (Cardinality(st.pending) >= MaxPending \/ idx \in st.pending)
  IN [ticks |-> sn.ticks + (IF tick THEN 1 ELSE 0),
      lost |-> sn.lost + (IF refused THEN 1 ELSE 0)]

TicksWith(T, idx, tick) == IF tick THEN T \cup {idx} ELSE T \ {idx}

LEMMA BufferedFields ==
  ASSUME NEW st \in PohSlot, NEW idx \in Index, NEW tick \in BOOLEAN
  PROVE  /\ Buffered(st, idx, tick) \in PohSlot
         /\ Buffered(st, idx, tick).pending = st.pending \cup {idx}
         /\ Buffered(st, idx, tick).ticks = TicksWith(st.ticks, idx, tick)
         /\ Buffered(st, idx, tick).next = st.next
         /\ Buffered(st, idx, tick).tick_idx = st.tick_idx
         /\ Buffered(st, idx, tick).has_missing = st.has_missing
         /\ Buffered(st, idx, tick).sealed = st.sealed
<1> DEFINE P == st.pending \cup {idx}
           T == TicksWith(st.ticks, idx, tick)
           A == st.aged \ {idx}
<1>1. P \in SUBSET Index /\ T \in SUBSET Index /\ A \in SUBSET Index
  BY SlotFields DEF TicksWith
<1>2. Buffered(st, idx, tick) = [st EXCEPT !.pending = P, !.ticks = T, !.aged = A]
  BY DEF Buffered, TicksWith
<1> HIDE DEF P, T, A
<1>3. Buffered(st, idx, tick) \in PohSlot
  BY <1>1, <1>2 DEF PohSlot
<1>4. /\ Buffered(st, idx, tick).pending = P /\ Buffered(st, idx, tick).ticks = T
      /\ Buffered(st, idx, tick).next = st.next
      /\ Buffered(st, idx, tick).tick_idx = st.tick_idx
      /\ Buffered(st, idx, tick).has_missing = st.has_missing
      /\ Buffered(st, idx, tick).sealed = st.sealed
  BY <1>2 DEF PohSlot
<1> QED BY <1>3, <1>4 DEF P, T

(* How the number of buffered ticks changes. *)
LEMMA BufferedTicks ==
  ASSUME NEW st, Steady(st), NEW idx \in Index, NEW tick \in BOOLEAN
  PROVE  LET c == Cardinality(st.ticks)
             d == Cardinality(Buffered(st, idx, tick).ticks)
         IN /\ c \in Nat /\ d \in Nat
            /\ idx \notin st.pending => d = c + (IF tick THEN 1 ELSE 0)
            /\ d <= c + (IF tick THEN 1 ELSE 0)
            /\ d >= c - (IF tick THEN 0 ELSE 1)
<1>1. st.ticks \in SUBSET Index /\ st \in PohSlot
  BY SlotFields DEF Steady
<1>2. IsFiniteSet(st.ticks) /\ Cardinality(st.ticks) \in Nat
  BY <1>1, SubsetOfIndex
<1>3. idx \notin st.pending => idx \notin st.ticks
  BY DEF Steady
<1> DEFINE c == Cardinality(st.ticks)
           up == Cardinality(st.ticks \cup {idx})
           down == Cardinality(st.ticks \ {idx})
           d == Cardinality(Buffered(st, idx, tick).ticks)
<1>4. up = IF idx \in st.ticks THEN c ELSE c + 1
  BY <1>2, FS_AddElement
<1>5. down = IF idx \in st.ticks THEN c - 1 ELSE c
  BY <1>2, FS_RemoveElement
<1>6. d = IF tick THEN up ELSE down
  <2>1. Buffered(st, idx, tick).ticks = TicksWith(st.ticks, idx, tick)
    BY <1>1, BufferedFields
  <2> QED BY <2>1 DEF TicksWith
<1>7. down \in Nat
  <2>1. st.ticks \ {idx} \in SUBSET Index
    BY <1>1
  <2> QED BY <2>1, SubsetOfIndex
<1>8. c \in Nat
  BY <1>2
<1> HIDE DEF c, up, down, d
<1>9. /\ c \in Nat /\ d \in Nat
      /\ idx \notin st.pending => d = c + (IF tick THEN 1 ELSE 0)
      /\ d <= c + (IF tick THEN 1 ELSE 0)
      /\ d >= c - (IF tick THEN 0 ELSE 1)
  BY <1>3, <1>4, <1>5, <1>6, <1>7, <1>8
<1> QED BY <1>9 DEF c, d

LEMMA CountedIntro ==
  ASSUME NEW st, NEW c, c = Cardinality(st.ticks), NEW a \in Nat, NEW b \in Nat,
         st.tick_idx + c <= a, st.tick_idx < TICKS_PER_SLOT => a - b <= st.tick_idx + c
  PROVE  Counted(st, [ticks |-> a, lost |-> b])
BY DEF Counted

LEMMA InOrderSlot ==
  ASSUME NEW st, Steady(st), NEW idx \in Index, idx = st.next, NEW tick \in BOOLEAN,
         NEW l, Kept(st, l), NEW sn, Counted(st, sn)
  PROVE  LET buf == Buffered(st, idx, tick)
             last == Consecutive(buf)
         IN /\ Steady(EmitThrough(buf, last))
            /\ Kept(EmitThrough(buf, last), l \o Events(buf, last))
            /\ Stream!Appended(l, l \o Events(buf, last))
            /\ Counted(EmitThrough(buf, last), Noted(st, sn, idx, tick))
            /\ EmitThrough(buf, last).sealed = st.sealed
<1> DEFINE buf == Buffered(st, idx, tick)
           last == Consecutive(buf)
<1>1. st \in PohSlot /\ st.next \in 0 .. MaxIndex + 1 /\ st.pending \subseteq Index
  BY SlotFields DEF Steady
<1>2. /\ buf \in PohSlot /\ buf.pending = st.pending \cup {idx} /\ buf.next = st.next
      /\ buf.ticks = TicksWith(st.ticks, idx, tick)
      /\ buf.tick_idx = st.tick_idx /\ buf.has_missing = st.has_missing
      /\ buf.sealed = st.sealed
  BY <1>1, BufferedFields
<1> HIDE DEF buf
<1>3. Ordered(buf)
  BY <1>1, <1>2, SteadyOrdered, SupervisorAssumption DEF Ordered, Index
<1>4. StopsAt(buf, last)
  BY <1>3, ConsecutiveStops
<1> HIDE DEF last
<1>5. buf.ticks \subseteq buf.pending
  BY <1>2 DEF Steady, TicksWith
<1>6. Cardinality({p \in buf.pending : p > last}) <= MaxPending
  <2>1. last >= st.next
    <3>1. last \in st.next - 1 .. MaxIndex /\ last + 1 # st.next
      BY <1>2, <1>4 DEF StopsAt
    <3> QED BY <1>1, <3>1, SupervisorAssumption
  <2>2. {p \in buf.pending : p > last} \subseteq st.pending
    BY <1>1, <1>2, <1>4, <2>1, SupervisorAssumption DEF StopsAt
  <2> QED BY <2>2, FewerPending
<1>7. Steady(EmitThrough(buf, last))
  BY <1>3, <1>4, <1>5, <1>6, EmitSteady
<1>8. Kept(buf, l)
  BY <1>2 DEF Kept
<1>9. Counted(buf, Noted(st, sn, idx, tick))
  <2> DEFINE c == Cardinality(st.ticks)
             d == Cardinality(buf.ticks)
             t == IF tick THEN 1 ELSE 0
  <2>1. idx \notin st.pending
    BY <1>1, SupervisorAssumption DEF Steady, Index
  <2>2. c \in Nat /\ d \in Nat /\ d = c + t
    BY <2>1, BufferedTicks DEF buf
  <2>3. Noted(st, sn, idx, tick) = [ticks |-> sn.ticks + t, lost |-> sn.lost + 0]
    <3>1. ~(idx > st.next)
      BY <1>1, SupervisorAssumption
    <3> QED BY <3>1 DEF Noted
  <2>4. sn.ticks \in Nat /\ sn.lost \in Nat /\ st.tick_idx \in Nat /\ t \in {0, 1}
    BY <1>1, SlotFields, SupervisorAssumption DEF Counted
  <2>5. /\ st.tick_idx + c <= sn.ticks
        /\ st.tick_idx < TICKS_PER_SLOT => sn.ticks - sn.lost <= st.tick_idx + c
    BY DEF Counted
  <2> HIDE DEF c, d, t
  <2>6. /\ st.tick_idx + d <= sn.ticks + t
        /\ st.tick_idx < TICKS_PER_SLOT => (sn.ticks + t) - (sn.lost + 0) <= st.tick_idx + d
        /\ sn.ticks + t \in Nat /\ sn.lost + 0 \in Nat
    BY <2>2, <2>4, <2>5, SupervisorAssumption
  <2> QED BY <1>2, <2>3, <2>6, CountedIntro DEF d
<1>10. Counted(EmitThrough(buf, last), Noted(st, sn, idx, tick))
  <2>1. last \in Int
    BY <1>1, <1>2, <1>4, SupervisorAssumption DEF StopsAt
  <2> QED BY <1>2, <1>9, <2>1, EmitCounts
<1>11. EmitThrough(buf, last).sealed = st.sealed
  BY <1>2, EmitThroughFields
<1>12. /\ Kept(EmitThrough(buf, last), l \o Events(buf, last))
       /\ Stream!Appended(l, l \o Events(buf, last))
  BY <1>3, <1>4, <1>8, EmitKeeps
<1> QED BY <1>7, <1>10, <1>11, <1>12 DEF buf, last

LEMMA AheadSlot ==
  ASSUME NEW st, Steady(st), NEW idx \in Index, idx > st.next, NEW tick \in BOOLEAN,
         NEW l, Kept(st, l), NEW sn, Counted(st, sn), NEW new,
         new = IF Cardinality(st.pending) >= MaxPending THEN st ELSE Buffered(st, idx, tick)
  PROVE  /\ Steady(new) /\ Kept(new, l) /\ new.sealed = st.sealed
         /\ Counted(new, Noted(st, sn, idx, tick))
<1> DEFINE buf == Buffered(st, idx, tick)
           full == Cardinality(st.pending) >= MaxPending
           c == Cardinality(st.ticks)
           d == Cardinality(buf.ticks)
           t == IF tick THEN 1 ELSE 0
           x == IF full \/ idx \in st.pending THEN 1 ELSE 0
<1>1. st \in PohSlot /\ st.next \in 0 .. MaxIndex + 1 /\ st.pending \in SUBSET Index
  BY SlotFields DEF Steady
<1>2. /\ buf \in PohSlot /\ buf.pending = st.pending \cup {idx} /\ buf.next = st.next
      /\ buf.ticks = TicksWith(st.ticks, idx, tick)
      /\ buf.tick_idx = st.tick_idx /\ buf.has_missing = st.has_missing
      /\ buf.sealed = st.sealed
  BY <1>1, BufferedFields
<1>3. /\ sn.ticks \in Nat /\ sn.lost \in Nat /\ st.tick_idx \in Nat
      /\ st.tick_idx + c <= sn.ticks
      /\ st.tick_idx < TICKS_PER_SLOT => sn.ticks - sn.lost <= st.tick_idx + c
  BY <1>1, SlotFields, SupervisorAssumption DEF Counted
<1>4. Noted(st, sn, idx, tick) = [ticks |-> sn.ticks + t, lost |-> sn.lost + x]
  BY DEF Noted
<1>5. /\ c \in Nat /\ d \in Nat /\ t \in {0, 1} /\ x \in {0, 1}
      /\ x = 0 => d = c + t
      /\ d <= c + t
      /\ d >= c - (1 - t)
  <2>1. /\ c \in Nat /\ d \in Nat
        /\ idx \notin st.pending => d = c + (IF tick THEN 1 ELSE 0)
        /\ d <= c + (IF tick THEN 1 ELSE 0)
        /\ d >= c - (IF tick THEN 0 ELSE 1)
    BY BufferedTicks
  <2> HIDE DEF c, d, full
  <2> QED BY <2>1
<1>6. full => x = 1
  OBVIOUS
<1>7. Steady(buf) \/ full
  <2>1. Cardinality(st.pending) \in Nat /\ IsFiniteSet(st.pending)
    BY <1>1, SubsetOfIndex
  <2>2. ~full => Cardinality(buf.pending) <= MaxPending
    <3>1. Cardinality(st.pending \cup {idx}) \in {Cardinality(st.pending), Cardinality(st.pending) + 1}
      BY <2>1, FS_AddElement
    <3> DEFINE n == Cardinality(st.pending)
    <3> HIDE DEF n, buf
    <3>2. ~(n >= MaxPending) => n + 1 <= MaxPending /\ n <= MaxPending
      BY <2>1, SupervisorAssumption DEF n
    <3> QED BY <1>2, <3>1, <3>2 DEF n
  <2>3. \A p \in buf.pending : p > buf.next
    BY <1>2 DEF Steady
  <2>4. buf.ticks \subseteq buf.pending
    BY <1>2 DEF Steady, TicksWith
  <2> HIDE DEF buf, full
  <2> QED BY <1>2, <2>2, <2>3, <2>4 DEF Steady
<1>8. Kept(buf, l)
  BY <1>2 DEF Kept
<1> HIDE DEF buf, c, d, t, x, full
<1>9. Counted(st, [ticks |-> sn.ticks + t, lost |-> sn.lost + x]) \/ ~full
  <2>1. full => /\ st.tick_idx + c <= sn.ticks + t
                /\ st.tick_idx < TICKS_PER_SLOT => (sn.ticks + t) - (sn.lost + x) <= st.tick_idx + c
                /\ sn.ticks + t \in Nat /\ sn.lost + x \in Nat
    BY <1>3, <1>5, <1>6, SupervisorAssumption
  <2> QED BY <2>1, CountedIntro DEF c
<1>10. Counted(buf, [ticks |-> sn.ticks + t, lost |-> sn.lost + x])
  <2>1. /\ st.tick_idx + d <= sn.ticks + t
        /\ st.tick_idx < TICKS_PER_SLOT => (sn.ticks + t) - (sn.lost + x) <= st.tick_idx + d
        /\ sn.ticks + t \in Nat /\ sn.lost + x \in Nat
    BY <1>3, <1>5, SupervisorAssumption
  <2> QED BY <1>2, <2>1, CountedIntro DEF d
<1>11. new = IF full THEN st ELSE buf
  BY DEF full, buf
<1> QED BY <1>2, <1>4, <1>7, <1>8, <1>9, <1>10, <1>11

LEMMA BehindSlot ==
  ASSUME NEW st, Steady(st), NEW idx \in Index, idx < st.next, NEW tick \in BOOLEAN,
         NEW l, Kept(st, l), NEW sn, Counted(st, sn), NEW new,
         new = [st EXCEPT !.tick_idx = IF tick /\ @ < TICKS_PER_SLOT THEN @ + 1 ELSE @]
  PROVE  /\ Steady(new) /\ Kept(new, l) /\ new.sealed = st.sealed
         /\ Counted(new, Noted(st, sn, idx, tick))
<1> DEFINE n == IF tick /\ st.tick_idx < TICKS_PER_SLOT THEN st.tick_idx + 1 ELSE st.tick_idx
           c == Cardinality(st.ticks)
           t == IF tick THEN 1 ELSE 0
<1>1. /\ st \in PohSlot /\ st.next \in 0 .. MaxIndex + 1 /\ st.ticks \in SUBSET Index
      /\ st.tick_idx \in 0 .. TICKS_PER_SLOT
  BY SlotFields DEF Steady
<1>2. n \in 0 .. TICKS_PER_SLOT
  BY <1>1, SupervisorAssumption
<1>3. new = [st EXCEPT !.tick_idx = n]
  OBVIOUS
<1>4. Noted(st, sn, idx, tick) = [ticks |-> sn.ticks + t, lost |-> sn.lost + 0]
  <2>1. ~(idx > st.next)
    BY <1>1, SupervisorAssumption DEF Index
  <2> QED BY <2>1 DEF Noted
<1>5. /\ n + c <= sn.ticks + t
      /\ n < TICKS_PER_SLOT => (sn.ticks + t) - (sn.lost + 0) <= n + c
      /\ sn.ticks + t \in Nat /\ sn.lost + 0 \in Nat
  <2>1. /\ sn.ticks \in Nat /\ sn.lost \in Nat
        /\ st.tick_idx + c <= sn.ticks
        /\ st.tick_idx < TICKS_PER_SLOT => sn.ticks - sn.lost <= st.tick_idx + c
    BY DEF Counted
  <2>2. c \in Nat
    BY <1>1, SubsetOfIndex
  <2> HIDE DEF c
  <2> QED BY <1>1, <2>1, <2>2, SupervisorAssumption
<1> HIDE DEF n, t
<1>6. /\ new \in PohSlot /\ new.pending = st.pending /\ new.ticks = st.ticks
      /\ new.next = st.next /\ new.tick_idx = n /\ new.has_missing = st.has_missing
      /\ new.sealed = st.sealed
  BY <1>1, <1>2, <1>3 DEF PohSlot
<1>7. Steady(new) /\ Kept(new, l)
  <2> HIDE DEF c
  <2>1. Steady(new)
    BY <1>6 DEF Steady
  <2>2. Kept(new, l)
    BY <1>6 DEF Kept
  <2> QED BY <2>1, <2>2
<1>8. Counted(new, [ticks |-> sn.ticks + t, lost |-> sn.lost + 0])
  BY <1>5, <1>6, CountedIntro
<1> QED BY <1>4, <1>6, <1>7, <1>8

-----------------------------------------------------------------------------
(* The seal.                                                               *)

(* An end event that tells no more and no less ticks than were received.   *)
Tells(l, sn) ==
  l # <<>> =>
    LET end == l[Len(l)] IN
    /\ end.kind = "Complete" => sn.ticks >= TICKS_PER_SLOT
    /\ end.kind = "Incomplete" => sn.ticks - sn.lost < TICKS_PER_SLOT

LEMMA MarkSealed ==
  ASSUME NEW st, Steady(st), NEW b \in BOOLEAN, NEW new, new = [st EXCEPT !.sealed = b]
  PROVE  /\ Steady(new) /\ new.sealed = b
         /\ \A l : Kept(st, l) => Kept(new, l)
         /\ \A sn : Counted(st, sn) => Counted(new, sn)
         /\ SlotEnd(new) = SlotEnd(st)
<1>1. st \in PohSlot
  BY DEF Steady
<1>2. /\ new \in PohSlot /\ new.sealed = b /\ new.next = st.next /\ new.pending = st.pending
      /\ new.ticks = st.ticks /\ new.tick_idx = st.tick_idx /\ new.has_missing = st.has_missing
  BY <1>1 DEF PohSlot
<1> QED BY <1>2 DEF Steady, Kept, Counted, SlotEnd

LEMMA SealCloses ==
  ASSUME NEW st, Steady(st), NEW l, Kept(st, l), NEW sn, Counted(st, sn), st.pending = {}
  PROVE  LET end == SlotEnd(st)
             m == l \o <<end>>
         IN /\ m \in Seq(Event) /\ Stream!Closed(m) /\ Stream!Appended(l, m)
            /\ Tells(m, sn) /\ end.kind \in EndKind
<1> DEFINE end == SlotEnd(st)
           m == l \o <<end>>
<1>1. st \in PohSlot /\ st.tick_idx \in 0 .. TICKS_PER_SLOT /\ st.has_missing \in BOOLEAN
  BY SlotFields DEF Steady
<1>2. /\ end.kind \in EndKind
      /\ end.kind = "Complete" => st.tick_idx >= TICKS_PER_SLOT
      /\ end.kind = "Incomplete" => ~(st.tick_idx >= TICKS_PER_SLOT)
  BY DEF SlotEnd, EndKind
<1>3. end \in Event
  <2>1. 0 \in Index
    BY SupervisorAssumption DEF Index
  <2> QED BY <1>1, <2>1 DEF SlotEnd, Event, EndKind
<1>4. l \in Seq(Event) /\ Len(l) \in Nat /\ Stream!InOrder(l)
  BY DEF Kept
<1> HIDE DEF end
<1>5. m \in Seq(Event) /\ Len(m) = Len(l) + 1 /\ m[Len(l) + 1] = end
      /\ \A k \in 1 .. Len(l) : m[k] = l[k]
  BY <1>3, <1>4
<1>6. m # <<>>
  BY <1>4, <1>5
<1> HIDE DEF m
<1>7. Stream!Appended(l, m)
  BY <1>4, <1>5 DEF Stream!Appended
<1>8. Stream!Closed(m)
  <2> DEFINE front == SubSeq(m, 1, Len(m) - 1)
  <2>1. Len(m) - 1 = Len(l)
    BY <1>4, <1>5
  <2>2. front \in Seq(Event) /\ Len(front) = Len(l) /\ \A k \in 1 .. Len(l) : front[k] = l[k]
    BY <1>4, <1>5, <2>1
  <2> HIDE DEF front
  <2>3. \A k \in 1 .. Len(l) : \A j \in 1 .. k - 1 : front[j] = l[j]
    BY <1>4, <2>2
  <2>4. Stream!InOrder(front)
    <3>1. ASSUME NEW k \in 1 .. Len(l)
          PROVE  /\ front[k].kind \notin Stream!EndKind
                 /\ front[k].index = k - 1
                 /\ front[k].kind = "Entry" =>
                      (front[k].uncertain <=> \E j \in 1 .. k - 1 : front[j].kind = "Missing")
      <4>1. /\ l[k].kind \notin Stream!EndKind
            /\ l[k].index = k - 1
            /\ l[k].kind = "Entry" =>
                 (l[k].uncertain <=> \E j \in 1 .. k - 1 : l[j].kind = "Missing")
        BY <1>4 DEF Stream!InOrder
      <4>2. front[k] = l[k] /\ \A j \in 1 .. k - 1 : front[j] = l[j]
        BY <2>2, <2>3
      <4> QED BY <4>1, <4>2
    <3> QED BY <2>2, <3>1 DEF Stream!InOrder
  <2>5. m[Len(m)].kind \in Stream!EndKind
    BY <1>2, <1>5 DEF EndKind, Stream!EndKind
  <2> QED BY <1>6, <2>4, <2>5 DEF Stream!Closed, front
<1>9. Tells(m, sn)
  <2>1. Cardinality(st.ticks) = 0
    <3>1. st.ticks = {}
      BY DEF Steady
    <3> QED BY <3>1, FS_EmptySet
  <2>2. /\ sn.ticks \in Nat /\ sn.lost \in Nat
        /\ st.tick_idx + 0 <= sn.ticks
        /\ st.tick_idx < TICKS_PER_SLOT => sn.ticks - sn.lost <= st.tick_idx + 0
    BY <2>1 DEF Counted
  <2>3. m[Len(m)] = end
    BY <1>4, <1>5
  <2> QED BY <1>1, <1>2, <2>2, <2>3, SupervisorAssumption DEF Tells
<1> QED BY <1>2, <1>5, <1>7, <1>8, <1>9 DEF m, end

(* An open slot has told no end. *)
LEMMA OpenTellsNothing ==
  ASSUME NEW st, NEW l, Kept(st, l), NEW sn
  PROVE  Tells(l, sn)
<1>1. l \in Seq(Event) /\ Stream!InOrder(l)
  BY DEF Kept
<1>2. ASSUME l # <<>> PROVE l[Len(l)].kind \notin EndKind
  <2>1. Len(l) \in 1 .. Len(l)
    BY <1>1, <1>2
  <2> QED BY <1>1, <2>1 DEF Stream!InOrder, Stream!EndKind, EndKind
<1> QED BY <1>2 DEF Tells, EndKind

LEMMA AppendedTwice ==
  ASSUME NEW a \in Seq(Event), NEW b \in Seq(Event), NEW c \in Seq(Event),
         Stream!Appended(a, b), Stream!Appended(b, c)
  PROVE  Stream!Appended(a, c)
<1>1. Len(a) \in Nat /\ Len(b) \in Nat /\ Len(c) \in Nat
  OBVIOUS
<1>2. Len(a) <= Len(b) /\ Len(b) <= Len(c)
  BY DEF Stream!Appended
<1>3. \A k \in 1 .. Len(a) : k \in 1 .. Len(b)
  BY <1>1, <1>2
<1>4. \A k \in 1 .. Len(a) : c[k] = a[k]
  BY <1>3 DEF Stream!Appended
<1>5. Len(a) <= Len(c)
  BY <1>1, <1>2
<1> QED BY <1>4, <1>5 DEF Stream!Appended

LEMMA SealedSlot ==
  ASSUME NEW st, Steady(st), NEW l, Kept(st, l), NEW sn, Counted(st, sn)
  PROVE  LET last == Flush(st)
             new == [EmitThrough(st, last) EXCEPT !.sealed = TRUE]
             m == (l \o Events(st, last)) \o <<SlotEnd(new)>>
         IN /\ Steady(new) /\ new.sealed
            /\ m \in Seq(Event) /\ Stream!Closed(m) /\ Stream!Appended(l, m)
            /\ Tells(m, sn) /\ SlotEnd(new).kind \in EndKind
<1> DEFINE last == Flush(st)
           mid == EmitThrough(st, last)
           new == [mid EXCEPT !.sealed = TRUE]
           e == l \o Events(st, last)
           m == e \o <<SlotEnd(new)>>
<1>1. Ordered(st) /\ st \in PohSlot
  BY SteadyOrdered DEF Steady
<1>2. StopsAt(st, last) /\ \A p \in st.pending : p <= last
  BY <1>1, FlushStops
<1>3. st.pending \subseteq Index /\ last \in Int
  BY <1>1, <1>2, SlotFields, SupervisorAssumption DEF StopsAt
<1> HIDE DEF last
<1>4. Steady(mid) /\ Kept(mid, e) /\ Stream!Appended(l, e) /\ Counted(mid, sn)
  BY <1>2, SweptSlot
<1>5. mid.pending = {}
  <2>1. mid.pending = {p \in st.pending : p > last}
    BY <1>1, EmitThroughFields
  <2>2. \A p \in st.pending : ~(p > last)
    BY <1>2, <1>3, SupervisorAssumption DEF Index
  <2> QED BY <2>1, <2>2
<1> HIDE DEF mid, e
<1>6. Steady(new) /\ new.sealed = TRUE /\ SlotEnd(new) = SlotEnd(mid)
  BY <1>4, MarkSealed
<1> HIDE DEF new
<1>7. /\ m \in Seq(Event) /\ Stream!Closed(m) /\ Stream!Appended(e, m)
      /\ Tells(m, sn) /\ SlotEnd(new).kind \in EndKind
  BY <1>4, <1>5, <1>6, SealCloses
<1>8. l \in Seq(Event) /\ e \in Seq(Event)
  BY <1>4 DEF Kept
<1>9. Stream!Appended(l, m)
  BY <1>4, <1>7, <1>8, AppendedTwice
<1> QED BY <1>6, <1>7, <1>9 DEF m, e, new, mid, last

-----------------------------------------------------------------------------
(* The inductive invariant.                                                *)

PohInv ==
  /\ TypeOK
  /\ \A s \in Slot : Steady(slots[s])
  /\ \A s \in Open : Kept(slots[s], log[s]) /\ Counted(slots[s], seen[s])
  /\ \A s \in Slot : Tells(log[s], seen[s])
  /\ ~running => Open = {}

LEMMA FreshSlot ==
  /\ Steady(Fresh) /\ Kept(Fresh, <<>>) /\ ~Fresh.sealed
  /\ Counted(Fresh, [ticks |-> 0, lost |-> 0])
<1>1. Cardinality({}) = 0
  BY FS_EmptySet
<1>2. Fresh \in PohSlot
  BY SupervisorAssumption DEF Fresh, PohSlot
<1>3. Steady(Fresh) /\ ~Fresh.sealed
  BY <1>1, <1>2, SupervisorAssumption DEF Fresh, Steady
<1>4. Kept(Fresh, <<>>)
  BY DEF Fresh, Kept, Stream!InOrder, Reported
<1>5. Counted(Fresh, [ticks |-> 0, lost |-> 0])
  BY <1>1, SupervisorAssumption DEF Fresh, Counted
<1> QED BY <1>3, <1>4, <1>5

LEMMA PohInit == Init => PohInv
<1> SUFFICES ASSUME Init PROVE PohInv
  OBVIOUS
<1>1. \A s \in Slot : slots[s] = Fresh /\ log[s] = <<>>
  BY DEF Init
<1>2. \A s \in Slot : Steady(slots[s])
  BY <1>1, FreshSlot
<1>3. TypeOK
  <2>1. slots \in [Slot -> PohSlot]
    BY <1>2 DEF Init, Steady
  <2>2. \A s \in Slot : Cardinality(slots[s].pending) <= MaxPending
    BY <1>2 DEF Steady
  <2>3. /\ log \in [Slot -> Seq(Event)] /\ ends \in [Slot -> SUBSET EndKind]
        /\ seen \in [Slot -> [ticks : Nat, lost : Nat]]
        /\ max_slot \in 0 .. MaxSlot /\ arrivals \in 0 .. MaxArrivals
    BY SupervisorAssumption DEF Init
  <2> QED BY <2>1, <2>2, <2>3 DEF TypeOK, Init
<1>4. Open = {}
  BY DEF Init, Open
<1>5. \A s \in Slot : Tells(log[s], seen[s])
  BY <1>1 DEF Tells
<1> QED BY <1>2, <1>3, <1>4, <1>5 DEF PohInv

(* An entry for a slot that is not sealed leaves one open slot more, or    *)
(* the same, with a longer stream.                                         *)
Took(s) ==
  \E new, l, sn :
    /\ slots' = [slots EXCEPT ![s] = new] /\ log' = [log EXCEPT ![s] = l]
    /\ seen' = [seen EXCEPT ![s] = sn]
    /\ Steady(new) /\ ~new.sealed /\ Kept(new, l) /\ Counted(new, sn)
    /\ s \in Open => Stream!Appended(log[s], l)

LEMMA ReceiveTakes ==
  ASSUME PohInv, NEW s \in Slot, NEW idx \in Index, NEW tick \in BOOLEAN, Receive(s, idx, tick)
  PROVE  \/ s \notin Open /\ s \in present /\ slots[s].sealed /\ UNCHANGED <<slots, log, seen>>
         \/ Took(s)
<1> DEFINE st == IF s \in present THEN slots[s] ELSE Fresh
           old == IF s \in present THEN log[s] ELSE <<>>
           sn == IF s \in present THEN seen[s] ELSE [ticks |-> 0, lost |-> 0]
           noted == Noted(st, sn, idx, tick)
<1>1. CASE st.sealed
  <2>1. s \in present /\ slots[s].sealed
    BY <1>1, FreshSlot
  <2>2. s \notin Open
    BY <2>1 DEF Open
  <2>3. UNCHANGED <<slots, log, seen>>
    BY <1>1 DEF Receive
  <2> QED BY <2>1, <2>2, <2>3
<1>2. CASE ~st.sealed
  <2>1. s \in present <=> s \in Open
    BY <1>2 DEF Open
  <2>2. Steady(st) /\ Kept(st, old) /\ Counted(st, sn)
    BY <2>1, FreshSlot DEF PohInv
  <2>3. s \in Open => old = log[s]
    BY <2>1
  <2>4. Note(s, st, idx, tick)
    BY <1>2 DEF Receive
  <2>5. seen' = [seen EXCEPT ![s] = noted]
    BY <2>4 DEF Note, Noted
  <2>6. st.next \in 0 .. MaxIndex + 1 /\ old \in Seq(Event)
    BY <2>2, SlotFields DEF Steady, Kept
  <2>7. /\ slots \in [Slot -> PohSlot] /\ log \in [Slot -> Seq(Event)]
        /\ s \notin present => st.next = 0
        /\ s \in present => st = slots[s]
    BY DEF PohInv, TypeOK, Fresh
  <2>8. \/ idx = st.next /\ InOrder(s, st, idx, tick)
        \/ idx > st.next /\ Ahead(s, st, idx, tick)
        \/ idx < st.next /\ Behind(s, st, tick)
    BY <1>2 DEF Receive
  <2>9. Stream!Appended(old, old)
    BY <2>6 DEF Stream!Appended
  <2>10. ASSUME idx = st.next, InOrder(s, st, idx, tick) PROVE Took(s)
    <3> DEFINE buf == Buffered(st, idx, tick)
               new == EmitThrough(buf, Consecutive(buf))
               l == old \o Events(buf, Consecutive(buf))
    <3>1. slots' = [slots EXCEPT ![s] = new]
      BY <2>10 DEF InOrder
    <3>2. log' = [log EXCEPT ![s] = l]
      BY <2>7, <2>10 DEF InOrder
    <3> HIDE DEF st, old, sn
    <3>3. /\ Steady(new) /\ Kept(new, l) /\ Stream!Appended(old, l) /\ Counted(new, noted)
          /\ new.sealed = st.sealed
      BY <2>2, <2>10, InOrderSlot
    <3> HIDE DEF new, l, noted
    <3> QED BY <1>2, <2>3, <2>5, <3>1, <3>2, <3>3 DEF Took
  <2>11. ASSUME idx > st.next, Ahead(s, st, idx, tick) PROVE Took(s)
    <3> DEFINE new == IF Cardinality(st.pending) >= MaxPending THEN st ELSE Buffered(st, idx, tick)
    <3>1. slots' = [slots EXCEPT ![s] = new]
      BY <2>11 DEF Ahead
    <3>2. log' = [log EXCEPT ![s] = old]
      BY <2>7, <2>11 DEF Ahead
    <3> HIDE DEF st, old, sn
    <3>3. Steady(new) /\ Kept(new, old) /\ Counted(new, noted) /\ new.sealed = st.sealed
      BY <2>2, <2>11, AheadSlot
    <3> HIDE DEF new, noted
    <3> QED BY <1>2, <2>3, <2>5, <2>9, <3>1, <3>2, <3>3 DEF Took
  <2>12. ASSUME idx < st.next, Behind(s, st, tick) PROVE Took(s)
    <3> DEFINE new == [st EXCEPT !.tick_idx = IF tick /\ @ < TICKS_PER_SLOT THEN @ + 1 ELSE @]
    <3>1. s \in present
      <4>1. ~(idx < 0)
        BY SupervisorAssumption DEF Index
      <4> QED BY <2>7, <2>12, <4>1
    <3>2. slots' = [slots EXCEPT ![s] = new]
      BY <2>7, <2>12, <3>1 DEF Behind
    <3>3. log' = [log EXCEPT ![s] = old]
      BY <2>7, <2>12 DEF Behind
    <3> HIDE DEF st, old, sn
    <3>4. Steady(new) /\ Kept(new, old) /\ Counted(new, noted) /\ new.sealed = st.sealed
      BY <2>2, <2>12, BehindSlot
    <3> HIDE DEF new, noted
    <3> QED BY <1>2, <2>3, <2>5, <2>9, <3>2, <3>3, <3>4 DEF Took
  <2> QED BY <2>8, <2>10, <2>11, <2>12
<1> QED BY <1>1, <1>2

LEMMA SweepSeals ==
  ASSUME PohInv, NEW seal \in SUBSET Open, SweepSealing(seal), NEW s \in Slot
  PROVE  /\ s \notin Open => slots'[s] = slots[s] /\ log'[s] = log[s]
         /\ s \in Open /\ s \notin seal =>
              /\ Steady(slots'[s]) /\ ~slots'[s].sealed
              /\ Kept(slots'[s], log'[s]) /\ Counted(slots'[s], seen[s])
              /\ Stream!Appended(log[s], log'[s])
         /\ s \in seal =>
              /\ Steady(slots'[s]) /\ slots'[s].sealed
              /\ log'[s] \in Seq(Event) /\ Stream!Closed(log'[s])
              /\ Stream!Appended(log[s], log'[s]) /\ Tells(log'[s], seen[s])
<1> DEFINE last == Reach(s, seal)
           st == slots[s]
           mid == EmitThrough(st, last)
           new == [mid EXCEPT !.sealed = s \in seal]
           e == log[s] \o Events(st, last)
<1>1. log[s] \in Seq(Event)
  BY DEF PohInv, TypeOK
<1>2. CASE s \notin Open
  <2>1. s \notin seal /\ slots'[s] = slots[s]
    BY <1>2 DEF SweepSealing
  <2>2. log'[s] = (log[s] \o <<>>) \o <<>>
    BY <1>2, <2>1 DEF SweepSealing
  <2> QED BY <1>1, <1>2, <2>1, <2>2
<1>3. CASE s \in Open
  <2>1. Steady(st) /\ Kept(st, log[s]) /\ Counted(st, seen[s])
    BY <1>3 DEF PohInv
  <2>2. Ordered(st)
    BY <2>1, SteadyOrdered
  <2>3. slots'[s] = new
    BY <1>3 DEF SweepSealing
  <2>4. CASE s \notin seal
    <3>1. last = Overdue(st)
      BY <2>4 DEF Reach
    <3>2. log'[s] = e \o <<>>
      BY <1>3, <2>4 DEF SweepSealing
    <3>3. StopsAt(st, last)
      BY <2>2, <3>1, OverdueStops
    <3> HIDE DEF last, st
    <3>4. Steady(mid) /\ Kept(mid, e) /\ Stream!Appended(log[s], e) /\ Counted(mid, seen[s])
      BY <2>1, <3>3, SweptSlot
    <3>5. e \in Seq(Event)
      BY <3>4 DEF Kept
    <3> HIDE DEF mid, e
    <3>6. new = [mid EXCEPT !.sealed = FALSE]
      <4>1. (s \in seal) = FALSE
        BY <2>4
      <4> QED BY <4>1, Zenon
    <3> HIDE DEF new
    <3>7. Steady(new) /\ new.sealed = FALSE /\ Kept(new, e) /\ Counted(new, seen[s])
      BY <3>4, <3>6, MarkSealed
    <3>8. log'[s] = e
      BY <3>2, <3>5
    <3> QED BY <1>3, <2>3, <2>4, <3>4, <3>7, <3>8
  <2>5. CASE s \in seal
    <3> DEFINE to == Flush(st)
               done == [EmitThrough(st, to) EXCEPT !.sealed = TRUE]
               m == (log[s] \o Events(st, to)) \o <<SlotEnd(done)>>
    <3>1. last = to
      BY <2>5 DEF Reach
    <3>2. new = done
      BY <2>5, <3>1
    <3>3. log'[s] = e \o <<SlotEnd(new)>>
      BY <1>3, <2>5 DEF SweepSealing
    <3>4. log'[s] = m
      BY <3>1, <3>2, <3>3
    <3> HIDE DEF st
    <3>5. /\ Steady(done) /\ done.sealed
          /\ m \in Seq(Event) /\ Stream!Closed(m) /\ Stream!Appended(log[s], m)
          /\ Tells(m, seen[s])
      BY <2>1, SealedSlot
    <3> HIDE DEF m, done, new
    <3> QED BY <1>3, <2>3, <2>5, <3>2, <3>4, <3>5
  <2> QED BY <2>4, <2>5
<1> QED BY <1>2, <1>3

LEMMA SweepKeeps ==
  ASSUME PohInv, NEW seal \in SUBSET Open, SweepSealing(seal), UNCHANGED <<max_slot, seen, arrivals>>,
         running' \in BOOLEAN, ~running' => seal = Open
  PROVE  PohInv' /\ Open' = Open \ seal
<1>1. Open \subseteq present /\ present \subseteq Slot /\ seal \subseteq Slot
  BY DEF Open, PohInv, TypeOK
<1>2. slots' = [s \in Slot |-> slots'[s]] /\ log' = [s \in Slot |-> log'[s]]
  BY DEF SweepSealing
<1>3. \A s \in Slot : Steady(slots'[s])
  BY SweepSeals DEF PohInv
<1>4. \A s \in Slot : log'[s] \in Seq(Event)
  BY SweepSeals DEF PohInv, TypeOK, Kept
<1>5. Open' = Open \ seal
  <2>1. ASSUME NEW s \in Slot PROVE s \in Open' <=> s \in Open /\ s \notin seal
    <3>1. s \in Open' <=> s \in present' /\ ~slots'[s].sealed
      BY DEF Open
    <3>2. s \in present' <=> s \in present /\ (s > DropCutoff \/ ~slots'[s].sealed)
      BY DEF SweepSealing
    <3>3. s \notin Open => slots'[s] = slots[s]
      BY SweepSeals
    <3>4. s \in Open /\ s \notin seal => ~slots'[s].sealed
      BY SweepSeals
    <3>5. s \in seal => slots'[s].sealed
      BY SweepSeals
    <3> QED BY <1>1, <3>1, <3>2, <3>3, <3>4, <3>5 DEF Open
  <2>2. Open' \subseteq present' /\ present' \subseteq present
    BY DEF Open, SweepSealing
  <2> QED BY <1>1, <2>1, <2>2
<1>6. TypeOK'
  <2>1. present' \subseteq Slot
    BY <1>1 DEF SweepSealing
  <2>2. slots' \in [Slot -> PohSlot]
    BY <1>2, <1>3 DEF Steady
  <2>3. log' \in [Slot -> Seq(Event)]
    BY <1>2, <1>4
  <2>4. ends' \in [Slot -> SUBSET EndKind]
    <3> DEFINE after(s) == [EmitThrough(slots[s], Reach(s, seal)) EXCEPT !.sealed = s \in seal]
    <3>1. ends' = [s \in Slot |-> IF s \in seal THEN ends[s] \cup {SlotEnd(after(s)).kind} ELSE ends[s]]
      BY DEF SweepSealing
    <3>2. \A s : SlotEnd(after(s)).kind \in EndKind
      BY DEF SlotEnd, EndKind
    <3>3. ends \in [Slot -> SUBSET EndKind]
      BY DEF PohInv, TypeOK
    <3> HIDE DEF after
    <3> QED BY <3>1, <3>2, <3>3
  <2>5. \A s \in Slot : Cardinality(slots'[s].pending) <= MaxPending
    BY <1>3 DEF Steady
  <2> QED BY <2>1, <2>2, <2>3, <2>4, <2>5 DEF PohInv, TypeOK
<1>7. \A s \in Open' : Kept(slots'[s], log'[s]) /\ Counted(slots'[s], seen'[s])
  BY <1>1, <1>5, SweepSeals
<1>8. ASSUME NEW s \in Slot PROVE Tells(log'[s], seen'[s])
  <2>1. s \notin Open => Tells(log'[s], seen'[s])
    BY SweepSeals DEF PohInv
  <2>2. s \in Open /\ s \notin seal => Tells(log'[s], seen'[s])
    BY SweepSeals, OpenTellsNothing
  <2>3. s \in seal => Tells(log'[s], seen'[s])
    BY SweepSeals
  <2> QED BY <2>1, <2>2, <2>3
<1>9. ~running' => Open' = {}
  BY <1>5
<1>10. PohInv'
  BY <1>3, <1>6, <1>7, <1>8, <1>9 DEF PohInv
<1> QED BY <1>5, <1>10

LEMMA TakesKeeps ==
  ASSUME PohInv, NEW s \in Slot, running, UNCHANGED <<running, ends>>, Took(s),
         present' = present \cup {s}, max_slot' \in 0 .. MaxSlot, arrivals' \in 0 .. MaxArrivals
  PROVE  /\ PohInv' /\ Open' = Open \cup {s}
         /\ s \in Open => Stream!Appended(log[s], log'[s])
         /\ \A r \in Slot \ {s} : log'[r] = log[r]
<1>1. PICK new, l, sn :
        /\ slots' = [slots EXCEPT ![s] = new] /\ log' = [log EXCEPT ![s] = l]
        /\ seen' = [seen EXCEPT ![s] = sn]
        /\ Steady(new) /\ ~new.sealed /\ Kept(new, l) /\ Counted(new, sn)
        /\ s \in Open => Stream!Appended(log[s], l)
  BY DEF Took
<1>2. /\ slots \in [Slot -> PohSlot] /\ log \in [Slot -> Seq(Event)]
      /\ seen \in [Slot -> [ticks : Nat, lost : Nat]]
      /\ present \subseteq Slot
  BY DEF PohInv, TypeOK
<1>3. /\ slots'[s] = new /\ log'[s] = l /\ seen'[s] = sn
      /\ \A r \in Slot \ {s} : slots'[r] = slots[r] /\ log'[r] = log[r] /\ seen'[r] = seen[r]
  BY <1>1, <1>2
<1>4. new \in PohSlot /\ l \in Seq(Event) /\ sn \in [ticks : Nat, lost : Nat]
  BY <1>1 DEF Steady, Kept, Counted
<1>5. \A r \in Slot : Steady(slots'[r])
  BY <1>1, <1>3 DEF PohInv
<1>6. Open' = Open \cup {s}
  BY <1>1, <1>2, <1>3 DEF Open
<1>7. TypeOK'
  <2>1. /\ slots' \in [Slot -> PohSlot] /\ log' \in [Slot -> Seq(Event)]
        /\ seen' \in [Slot -> [ticks : Nat, lost : Nat]]
    BY <1>1, <1>2, <1>4
  <2>2. \A r \in Slot : Cardinality(slots'[r].pending) <= MaxPending
    BY <1>5 DEF Steady
  <2> QED BY <2>1, <2>2 DEF PohInv, TypeOK
<1>8. \A r \in Open' : Kept(slots'[r], log'[r]) /\ Counted(slots'[r], seen'[r])
  <2>1. Open \subseteq Slot
    BY <1>2 DEF Open
  <2> QED BY <1>1, <1>3, <1>6, <2>1 DEF PohInv
<1>9. \A r \in Slot : Tells(log'[r], seen'[r])
  <2>1. Tells(l, sn)
    BY <1>1, OpenTellsNothing
  <2> QED BY <1>3, <2>1 DEF PohInv
<1>10. PohInv'
  BY <1>5, <1>7, <1>8, <1>9 DEF PohInv
<1> QED BY <1>1, <1>3, <1>6, <1>10

LEMMA TimePassesKeeps ==
  ASSUME PohInv, TimePasses
  PROVE  PohInv' /\ Open' = Open
<1>1. ASSUME NEW s \in Slot
      PROVE  /\ Steady(slots'[s]) /\ slots'[s].sealed = slots[s].sealed
             /\ \A l : Kept(slots[s], l) => Kept(slots'[s], l)
             /\ \A sn : Counted(slots[s], sn) => Counted(slots'[s], sn)
  <2> DEFINE st == slots[s]
             new == [st EXCEPT !.aged = st.pending]
  <2>1. slots'[s] = new
    BY DEF TimePasses
  <2>2. st \in PohSlot /\ st.pending \in SUBSET Index /\ Steady(st)
    BY SlotFields DEF PohInv, TypeOK
  <2> HIDE DEF st
  <2>3. /\ new \in PohSlot /\ new.next = st.next /\ new.pending = st.pending
        /\ new.ticks = st.ticks /\ new.tick_idx = st.tick_idx
        /\ new.has_missing = st.has_missing /\ new.sealed = st.sealed
    BY <2>2 DEF PohSlot
  <2> HIDE DEF new
  <2>4. Steady(new)
    BY <2>2, <2>3 DEF Steady
  <2>5. /\ \A l : Kept(st, l) => Kept(new, l)
        /\ \A sn : Counted(st, sn) => Counted(new, sn)
    BY <2>3 DEF Kept, Counted
  <2> QED BY <2>1, <2>3, <2>4, <2>5 DEF st
<1>2. UNCHANGED <<present, max_slot, running, log, ends, seen, arrivals>>
  BY DEF TimePasses
<1>3. present \subseteq Slot
  BY DEF PohInv, TypeOK
<1>4. Open' = Open
  BY <1>1, <1>2, <1>3 DEF Open
<1>5. TypeOK'
  <2>1. slots' = [s \in Slot |-> slots'[s]]
    BY DEF TimePasses
  <2>2. slots' \in [Slot -> PohSlot] /\ \A s \in Slot : Cardinality(slots'[s].pending) <= MaxPending
    BY <1>1, <2>1 DEF Steady
  <2> QED BY <1>2, <2>2 DEF PohInv, TypeOK
<1>6. \A s \in Open' : Kept(slots'[s], log'[s]) /\ Counted(slots'[s], seen'[s])
  <2>1. Open \subseteq Slot
    BY <1>3 DEF Open
  <2> QED BY <1>1, <1>2, <1>4, <2>1 DEF PohInv
<1> QED BY <1>1, <1>2, <1>4, <1>5, <1>6 DEF PohInv

-----------------------------------------------------------------------------
(* The theorems.                                                           *)

LEMMA PohNext ==
  ASSUME PohInv, [Next]_vars
  PROVE  PohInv'
<1>1. CASE UNCHANGED vars
  <2>1. Open' = Open
    BY <1>1 DEF vars, Open
  <2> QED BY <1>1, <2>1 DEF vars, PohInv, TypeOK
<1>2. ASSUME NEW s \in Slot, NEW idx \in Index, NEW tick \in BOOLEAN, Receive(s, idx, tick)
      PROVE  PohInv'
  <2>1. /\ running /\ UNCHANGED <<running, ends>> /\ present' = present \cup {s}
        /\ arrivals < MaxArrivals /\ arrivals' = arrivals + 1
        /\ max_slot' = IF s > max_slot THEN s ELSE max_slot
    BY <1>2 DEF Receive
  <2>2. max_slot' \in 0 .. MaxSlot /\ arrivals' \in 0 .. MaxArrivals
    <3>1. max_slot \in 0 .. MaxSlot /\ arrivals \in 0 .. MaxArrivals
      BY DEF PohInv, TypeOK
    <3> QED BY <2>1, <3>1, SupervisorAssumption DEF Slot
  <2>3. CASE Took(s)
    BY <2>1, <2>2, <2>3, TakesKeeps
  <2>4. CASE s \notin Open /\ s \in present /\ slots[s].sealed /\ UNCHANGED <<slots, log, seen>>
    <3>1. present' = present
      BY <2>1, <2>4
    <3>2. Open' = Open
      BY <2>4, <3>1 DEF Open
    <3> QED BY <2>1, <2>2, <2>4, <3>1, <3>2 DEF PohInv, TypeOK
  <2> QED BY <1>2, <2>3, <2>4, ReceiveTakes
<1>3. CASE TimePasses
  BY <1>3, TimePassesKeeps
<1>4. CASE Sweep
  <2>1. Sealable \subseteq Open
    BY DEF Sealable
  <2> QED BY <1>4, <2>1, SweepKeeps DEF Sweep
<1>5. CASE Stop
  BY <1>5, SweepKeeps DEF Stop
<1> QED BY <1>1, <1>2, <1>3, <1>4, <1>5 DEF Next

THEOREM Invariance == Spec => []PohInv
BY PohInit, PohNext, PTL DEF Spec

(* Every slot's reorder buffer keeps its cap and the tick counter          *)
(* saturates: the types of process, sweep and seal_slot.                   *)
THEOREM TypeCorrect == Spec => []TypeOK
<1>1. PohInv => TypeOK
  BY DEF PohInv
<1> QED BY <1>1, Invariance, PTL

(* The end event of a lifetime tells how many ticks arrived in it.         *)
THEOREM TicksTold == Spec => []EndTellsTicks
<1>1. PohInv => EndTellsTicks
  BY DEF PohInv, EndTellsTicks, Tells
<1> QED BY <1>1, Invariance, PTL

(* What Phase A leaves buffered although its timeout has passed.           *)
LEMMA AgedWaits ==
  ASSUME NEW st, Ordered(st), NEW i \in st.pending, i \in st.aged, i > Overdue(st)
  PROVE  \E q \in st.pending : q \notin st.aged /\ q > Overdue(st) /\ q < i
<1> DEFINE S == {p \in st.pending : \A q \in st.pending : q <= p => ~Waits(st, q)}
<1>1. st.next \in 0 .. MaxIndex + 1 /\ S \in SUBSET Index /\ st.pending \subseteq Index
  BY SlotFields DEF Ordered
<1>2. Overdue(st) = LastOf(S, st.next - 1)
  BY DEF Overdue, Waits
<1>3. IF S = {} THEN Overdue(st) = st.next - 1
      ELSE Overdue(st) \in S /\ \A x \in S : x <= Overdue(st)
  <2> HIDE DEF S
  <2> QED BY <1>1, <1>2, LastOfIsHighest
<1>4. i \notin S
  BY <1>1, <1>3 DEF Index
<1>5. PICK q \in st.pending : q <= i /\ Waits(st, q)
  BY <1>4
<1>6. q \notin st.aged /\ q < i
  BY <1>1, <1>5 DEF Waits, Index
<1>7. q > Overdue(st)
  <2>1. CASE S = {}
    BY <1>1, <1>3, <2>1 DEF Ordered, Index
  <2>2. CASE S # {}
    <3>1. ~(q <= Overdue(st)) /\ Overdue(st) \in Index
      BY <1>1, <1>3, <1>5, <2>2
    <3> QED BY <1>1, <3>1 DEF Index
  <2> QED BY <2>1, <2>2
<1> QED BY <1>6, <1>7

(* So a sweep leaves such an entry only behind one whose time is not up.   *)
LEMMA SweepWaits ==
  ASSUME PohInv, Sweep, NEW s \in Open', NEW i \in slots'[s].pending \cap slots'[s].aged
  PROVE  \E q \in slots'[s].pending \ slots'[s].aged : q < i
<1> DEFINE st == slots[s]
           last == Overdue(slots[s])
<1>1. /\ SweepSealing(Sealable) /\ Sealable \in SUBSET Open
      /\ s \in Slot /\ s \in present /\ ~slots'[s].sealed
  <2>1. SweepSealing(Sealable) /\ Sealable \in SUBSET Open
    BY DEF Sweep, Sealable
  <2>2. s \in present' /\ ~slots'[s].sealed
    BY DEF Open
  <2> QED BY <2>1, <2>2 DEF SweepSealing, PohInv, TypeOK
<1>2. s \in Open /\ s \notin Sealable
  <2>1. s \notin Sealable
    BY <1>1, SweepSeals
  <2>2. s \notin Open => slots'[s] = slots[s]
    BY <1>1, SweepSeals
  <2> QED BY <1>1, <2>1, <2>2 DEF Open
<1>3. Ordered(st) /\ st \in PohSlot
  BY <1>1, SteadyOrdered DEF PohInv, Ordered
<1>4. /\ slots'[s].pending = {p \in st.pending : p > last}
      /\ slots'[s].aged = {p \in st.aged : p > last}
  <2> DEFINE mid == EmitThrough(st, last)
  <2>1. slots'[s] = [mid EXCEPT !.sealed = s \in Sealable]
    BY <1>1, <1>2 DEF SweepSealing, Reach
  <2>2. /\ mid.pending = {p \in st.pending : p > last}
        /\ mid.aged = {p \in st.aged : p > last}
    BY <1>3, EmitThroughFields
  <2>3. mid.pending = slots'[s].pending /\ mid.aged = slots'[s].aged
    BY <2>1 DEF EmitThrough
  <2> QED BY <2>2, <2>3
<1> HIDE DEF st, last
<1>5. i \in st.pending /\ i \in st.aged /\ i > last
  BY <1>4
<1>6. PICK q \in st.pending : q \notin st.aged /\ q > last /\ q < i
  BY <1>3, <1>5, AgedWaits DEF st, last
<1> QED BY <1>4, <1>6

(* After a sweep only slots near the tip have a state, whatever entries    *)
(* came late, and entries past their timeout wait only behind younger ones. *)
THEOREM SweepBounded == Spec => SweepBounds
<1>1. ASSUME PohInv, [Next]_vars, Sweep, NEW s \in present'
      PROVE  s + SealLag + DropGrace > max_slot
  <2>1. /\ present \subseteq Slot /\ max_slot \in 0 .. MaxSlot
    BY <1>1 DEF PohInv, TypeOK
  <2>2. SweepSealing(Sealable) /\ Sealable \in SUBSET Open
    BY <1>1 DEF Sweep, Sealable
  <2>3. s \in present /\ (s > DropCutoff \/ ~slots'[s].sealed)
    BY <1>1, <2>2 DEF SweepSealing
  <2>4. s \in Int /\ SealLag \in Nat /\ DropGrace \in Nat /\ max_slot \in Nat /\ s \in Slot /\ s >= 1
    BY <2>1, <2>3, SupervisorAssumption DEF Slot
  <2>5. CASE s > DropCutoff
    BY <2>4, <2>5 DEF DropCutoff
  <2>6. CASE ~slots'[s].sealed
    <3>1. s \notin Sealable
      BY <1>1, <2>2, <2>4, <2>6, SweepSeals
    <3>2. s \in Open
      <4>1. s \notin Open => slots'[s] = slots[s]
        BY <1>1, <2>2, <2>4, SweepSeals
      <4> QED BY <2>3, <2>6, <4>1 DEF Open
    <3>3. ~(max_slot >= SealLag /\ s <= max_slot - SealLag)
      BY <3>1, <3>2 DEF Sealable
    <3> QED BY <2>4, <3>3
  <2> QED BY <2>3, <2>5, <2>6
<1>2. PohInv /\ [Next]_vars =>
        [Sweep =>
           /\ \A s \in present' : s + SealLag + DropGrace > max_slot
           /\ \A s \in Open' : \A i \in slots'[s].pending \cap slots'[s].aged :
                \E q \in slots'[s].pending \ slots'[s].aged : q < i]_vars
  BY <1>1, SweepWaits
<1> QED BY <1>2, Invariance, PTL DEF Spec, SweepBounds

LEMMA StreamStep ==
  ASSUME PohInv, PohInv', [Next]_vars
  PROVE  [Stream!Next]_(Stream!vars)
<1> DEFINE Moves(s) == Stream!Begin(s) \/ Stream!Continue(s) \/ Stream!End(s) \/ Stream!Rest(s)
<1>1. log' \in [Slot -> Seq(Event)] /\ Open' \subseteq Slot /\ (~running)' \in BOOLEAN
  BY DEF PohInv, TypeOK, Open
<1>2. Open \subseteq Slot /\ running \in BOOLEAN
  BY DEF PohInv, TypeOK, Open
<1>3. (~running)' => Open' = {}
  BY DEF PohInv
<1>4. ASSUME running, \A s \in Slot : Moves(s) PROVE Stream!Next
  BY <1>1, <1>3, <1>4 DEF Stream!Next
<1>5. \A s \in Open : Stream!Appended(log[s], log[s]) /\ Stream!InOrder(log[s])
  BY DEF PohInv, Kept, Stream!Appended
<1>6. \A s \in Open' : Stream!InOrder(log'[s])
  BY DEF PohInv, Kept
<1>7. CASE UNCHANGED vars
  <2>1. Open' = Open
    BY <1>7 DEF vars, Open
  <2> QED BY <1>7, <2>1 DEF vars, Stream!vars
<1>8. ASSUME NEW s \in Slot, NEW idx \in Index, NEW tick \in BOOLEAN, Receive(s, idx, tick)
      PROVE  Stream!Next \/ UNCHANGED Stream!vars
  <2>1. /\ running /\ UNCHANGED <<running, ends>> /\ present' = present \cup {s}
    BY <1>8 DEF Receive
  <2>2. CASE Took(s)
    <3>1. max_slot' \in 0 .. MaxSlot /\ arrivals' \in 0 .. MaxArrivals
      BY DEF PohInv, TypeOK
    <3>2. /\ Open' = Open \cup {s}
          /\ s \in Open => Stream!Appended(log[s], log'[s])
          /\ \A r \in Slot \ {s} : log'[r] = log[r]
      BY <2>1, <2>2, <3>1, TakesKeeps
    <3>3. ASSUME NEW r \in Slot PROVE Moves(r)
      <4>1. CASE r = s /\ s \in Open
        BY <1>6, <3>2, <4>1 DEF Stream!Continue
      <4>2. CASE r = s /\ s \notin Open
        BY <1>6, <3>2, <4>2 DEF Stream!Begin
      <4>3. CASE r # s /\ r \in Open
        BY <1>5, <1>6, <3>2, <4>3 DEF Stream!Continue
      <4>4. CASE r # s /\ r \notin Open
        BY <3>2, <4>4 DEF Stream!Rest
      <4> QED BY <4>1, <4>2, <4>3, <4>4
    <3> QED BY <1>4, <2>1, <3>3
  <2>3. CASE s \notin Open /\ s \in present /\ slots[s].sealed /\ UNCHANGED <<slots, log, seen>>
    <3>1. present' = present
      BY <2>1, <2>3
    <3>2. Open' = Open
      BY <2>3, <3>1 DEF Open
    <3> QED BY <2>1, <2>3, <3>2 DEF Stream!vars
  <2> QED BY <1>8, <2>2, <2>3, ReceiveTakes
<1>9. CASE TimePasses
  <2>1. Open' = Open
    BY <1>9, TimePassesKeeps
  <2> QED BY <1>9, <2>1 DEF TimePasses, Stream!vars
<1>10. ASSUME running, NEW seal \in SUBSET Open, SweepSealing(seal), Open' = Open \ seal
       PROVE  Stream!Next
  <2>1. ASSUME NEW s \in Slot PROVE Moves(s)
    <3>1. CASE s \notin Open
      BY <1>10, <3>1, SweepSeals DEF Stream!Rest
    <3>2. CASE s \in Open /\ s \notin seal
      BY <1>6, <1>10, <3>2, SweepSeals DEF Stream!Continue
    <3>3. CASE s \in seal
      BY <1>10, <3>3, SweepSeals DEF Stream!End
    <3> QED BY <3>1, <3>2, <3>3
  <2> QED BY <1>4, <1>10, <2>1
<1>11. CASE Sweep
  <2>1. Sealable \in SUBSET Open /\ SweepSealing(Sealable) /\ running
    BY <1>11 DEF Sweep, Sealable
  <2>2. Open' = Open \ Sealable
    BY <1>2, <1>11, <2>1, SweepKeeps DEF Sweep
  <2> QED BY <1>10, <2>1, <2>2
<1>12. CASE Stop
  <2>1. SweepSealing(Open) /\ running
    BY <1>12 DEF Stop
  <2>2. Open' = Open \ Open
    BY <1>12, SweepKeeps DEF Stop
  <2> QED BY <1>10, <2>1, <2>2
<1> QED BY <1>7, <1>8, <1>9, <1>11, <1>12 DEF Next

(* process, sweep and seal_slot implement SlotStream: one event per index, *)
(* in order, uncertain from the first Missing on, one end event, and no    *)
(* slot left open when the thread exits.                                   *)
THEOREM StreamImplemented == Spec => StreamKept
<1>1. Init => Stream!Init
  <2>1. Init => Open = {}
    BY DEF Init, Open
  <2> QED BY <2>1 DEF Init, Stream!Init
<1>2. PohInv /\ PohInv' /\ [Next]_vars => [Stream!Next]_(Stream!vars)
  BY StreamStep
<1> QED BY <1>1, <1>2, Invariance, PTL DEF Spec, StreamKept, Stream!Spec

=============================================================================

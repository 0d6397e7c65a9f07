--------------------------- MODULE ProfilesProofs ---------------------------
(***************************************************************************)
(* For any tasks, any profiles, any list at the start and any number of    *)
(* commands and restarts: what the commands on the list of profiles keep.  *)
(*                                                                         *)
(* Every theorem rests on Base, the shape of the calls, which holds        *)
(* whatever may fail.  The rest of each argument is an invariant of its    *)
(* own, and a hypothesis on the commands and failures where the code does  *)
(* less than one would like: ReorderAlone, Durable, Lossless, SwitchAlone  *)
(* and NothingLeaves say each which behaviour of the code it leaves out.   *)
(***************************************************************************)
EXTENDS Profiles, SequenceTheorems, WellFoundedInduction, TLAPS

-----------------------------------------------------------------------------
(* Sequences: the lists of items and the queues of jobs and steps.         *)

(* A sequence falls into what comes before, at and after each place.       *)
LEMMA PartIn ==
  ASSUME NEW S, NEW q \in Seq(S), NEW m \in 1..(Len(q) + 1), NEW n \in 0..Len(q)
  PROVE  SubSeq(q, m, n) \in Seq(S) /\ Len(SubSeq(q, m, n)) = IF m <= n THEN n - m + 1 ELSE 0
<1>1. m \in Int /\ n \in Int /\ \A k \in m..n : k \in 1..Len(q)
  OBVIOUS
<1>2. \A k \in m..n : q[k] \in S
  BY <1>1, ElementOfSeq
<1>. QED BY <1>1, <1>2, SubSeqProperties

(* The elements of a part of a sequence.                                   *)
LEMMA ElementPart ==
  ASSUME NEW S, NEW q \in Seq(S), NEW i \in 1..Len(q)
  PROVE  SubSeq(q, i, i) \in Seq(S) /\ Range(SubSeq(q, i, i)) = {q[i]}
<1> DEFINE r == SubSeq(q, i, i)
<1>1. i \in Int /\ \A k \in i..i : k \in 1..Len(q)
  OBVIOUS
<1>2. \A k \in i..i : q[k] \in S
  BY <1>1, ElementOfSeq
<1>3. /\ r \in Seq(S) /\ Len(r) = IF i <= i THEN i - i + 1 ELSE 0
      /\ \A j \in 1..(i - i + 1) : r[j] = q[i + j - 1]
  BY <1>1, <1>2, SubSeqProperties
<1> HIDE DEF r
<1>4. r \in Seq(S) /\ Len(r) = 1
  BY <1>3
<1>5. r[1] = q[i]
  <2>1. 1 \in 1..(i - i + 1) /\ i + 1 - 1 = i
    OBVIOUS
  <2>. QED BY <1>3, <2>1
<1>6. Range(r) = {r[j] : j \in 1..1}
  BY <1>4, RangeEquality
<1>7. 1..1 = {1}
  OBVIOUS
<1>8. Range(r) = {q[i]}
  BY <1>5, <1>6, <1>7, Zenon
<1>. QED BY <1>4, <1>8 DEF r

(* The elements of a sequence are those of its parts.                      *)
LEMMA PartsOf ==
  ASSUME NEW S, NEW q \in Seq(S), NEW i \in 1..(Len(q) + 1)
  PROVE  /\ SubSeq(q, 1, i - 1) \in Seq(S) /\ SubSeq(q, i, Len(q)) \in Seq(S)
         /\ Range(q) = Range(SubSeq(q, 1, i - 1)) \cup Range(SubSeq(q, i, Len(q)))
<1>1. /\ Len(q) \in Nat /\ 1 \in 1..(Len(q) + 1) /\ i - 1 \in 0..Len(q) /\ Len(q) \in (i - 1)..Len(q)
      /\ i - 1 \in (1 - 1)..Len(q) /\ i - 1 + 1 = i
  BY LenProperties
<1> DEFINE l == i - 1
<1> HIDE DEF l
<1>2. /\ 1 \in 1..(Len(q) + 1) /\ l \in 0..Len(q) /\ Len(q) \in l..Len(q) /\ Len(q) \in 0..Len(q)
      /\ l \in (1 - 1)..Len(q) /\ l + 1 = i
  BY <1>1 DEF l
<1>3. SubSeq(q, 1, l) \in Seq(S) /\ SubSeq(q, i, Len(q)) \in Seq(S)
  BY <1>2, PartIn
<1>4. SubSeq(q, 1, l) \o SubSeq(q, l + 1, Len(q)) = SubSeq(q, 1, Len(q))
  BY <1>2, ConcatAdjacentSubSeq
<1>5. SubSeq(q, 1, l) \o SubSeq(q, i, Len(q)) = q
  BY <1>2, <1>4, SubSeqFull
<1>6. Range(q) = Range(SubSeq(q, 1, l)) \cup Range(SubSeq(q, i, Len(q)))
  BY <1>3, <1>5, RangeConcatenation
<1>. QED BY <1>3, <1>6 DEF l

(* The element at a place and the rest.                                    *)
LEMMA AtPlace ==
  ASSUME NEW S, NEW q \in Seq(S), NEW i \in 1..Len(q)
  PROVE  /\ SubSeq(q, i + 1, Len(q)) \in Seq(S)
         /\ Range(SubSeq(q, i, Len(q))) = {q[i]} \cup Range(SubSeq(q, i + 1, Len(q)))
<1>1. /\ Len(q) \in Nat /\ i \in 1..(Len(q) + 1) /\ i \in (i - 1)..Len(q) /\ Len(q) \in i..Len(q)
      /\ i + 1 \in 1..(Len(q) + 1) /\ Len(q) \in 0..Len(q)
  BY LenProperties
<1>2. SubSeq(q, i + 1, Len(q)) \in Seq(S)
  BY <1>1, PartIn
<1>3. SubSeq(q, i, i) \o SubSeq(q, i + 1, Len(q)) = SubSeq(q, i, Len(q))
  BY <1>1, ConcatAdjacentSubSeq
<1>4. SubSeq(q, i, i) \in Seq(S) /\ Range(SubSeq(q, i, i)) = {q[i]}
  BY ElementPart
<1> DEFINE a == SubSeq(q, i, i)
           b == SubSeq(q, i + 1, Len(q))
<1>5. a \in Seq(S) /\ b \in Seq(S) /\ a \o b = SubSeq(q, i, Len(q)) /\ Range(a) = {q[i]}
  BY <1>2, <1>3, <1>4
<1> HIDE DEF a, b
<1>8. a \in Seq(S) /\ b \in Seq(S)
  BY <1>5
<1>6. Range(a \o b) = Range(a) \cup Range(b)
  BY <1>8, RangeConcatenation, SMTT(20)
<1>7. b \in Seq(S) /\ Range(SubSeq(q, i, Len(q))) = {q[i]} \cup Range(b)
  BY <1>5, <1>6, Zenon
<1>. QED BY <1>7 DEF b

(* What RemoveAt leaves of a sequence.                                     *)
LEMMA RemoveAtElems ==
  ASSUME NEW S, NEW q \in Seq(S), NEW i \in DOMAIN q
  PROVE  /\ RemoveAt(q, i) \in Seq(S) /\ Len(RemoveAt(q, i)) = Len(q) - 1
         /\ Range(q) \ {q[i]} \subseteq Range(RemoveAt(q, i)) /\ Range(RemoveAt(q, i)) \subseteq Range(q)
<1>1. i \in 1..Len(q) /\ i \in 1..(Len(q) + 1)
  BY LenProperties
<1> DEFINE a == SubSeq(q, 1, i - 1)
           b == SubSeq(q, i + 1, Len(q))
<1>2. RemoveAt(q, i) = a \o b
  BY DEF RemoveAt
<1>3. a \in Seq(S) /\ b \in Seq(S) /\ Range(q) = Range(a) \cup ({q[i]} \cup Range(b))
  BY <1>1, PartsOf, AtPlace
<1>6. Len(a) = i - 1 /\ Len(b) = Len(q) - i
  <2>1. /\ Len(q) \in Nat /\ 1 \in 1..(Len(q) + 1) /\ i + 1 \in 1..(Len(q) + 1)
        /\ i - 1 \in 0..Len(q) /\ Len(q) \in 0..Len(q)
    BY <1>1, LenProperties
  <2>2. Len(a) = IF 1 <= i - 1 THEN (i - 1) - 1 + 1 ELSE 0
    BY <2>1, PartIn
  <2>3. Len(b) = IF i + 1 <= Len(q) THEN Len(q) - (i + 1) + 1 ELSE 0
    BY <2>1, PartIn
  <2>4. i \in Int /\ i >= 1 /\ i <= Len(q)
    BY <1>1, <2>1
  <2> HIDE DEF a, b
  <2>. QED BY <2>1, <2>2, <2>3, <2>4
<1> HIDE DEF a, b
<1>4. RemoveAt(q, i) \in Seq(S) /\ Len(RemoveAt(q, i)) = Len(a) + Len(b)
  BY <1>2, <1>3, ConcatProperties
<1>7. Len(RemoveAt(q, i)) = Len(q) - 1
  <2>1. Len(q) \in Nat /\ i \in Nat
    BY <1>1, LenProperties
  <2>. QED BY <1>4, <1>6, <2>1
<1>5. Range(RemoveAt(q, i)) = Range(a) \cup Range(b)
  BY <1>2, <1>3, RangeConcatenation
<1>. QED BY <1>3, <1>4, <1>5, <1>7, Zenon

(* What InsertAt makes of a sequence.                                      *)
LEMMA InsertAtElems ==
  ASSUME NEW S, NEW q \in Seq(S), NEW i \in 1..(Len(q) + 1), NEW e \in S
  PROVE  InsertAt(q, i, e) \in Seq(S) /\ Range(InsertAt(q, i, e)) = Range(q) \cup {e}
<1> DEFINE a == SubSeq(q, 1, i - 1)
           b == SubSeq(q, i, Len(q))
           o == <<e>>
<1>1. InsertAt(q, i, e) = (a \o o) \o b
  BY DEF InsertAt
<1>2. a \in Seq(S) /\ b \in Seq(S) /\ Range(q) = Range(a) \cup Range(b)
  BY PartsOf
<1>3. o \in Seq(S) /\ Len(o) = 1 /\ o[1] = e
  OBVIOUS
<1> HIDE DEF a, b, o
<1>4. Range(o) = {o[j] : j \in 1..1} /\ 1..1 = {1}
  BY <1>3, RangeEquality
<1>5. Range(o) = {e}
  BY <1>3, <1>4, Zenon
<1> DEFINE h == a \o o
<1>6. h \in Seq(S) /\ Range(h) = Range(a) \cup Range(o)
  BY <1>2, <1>3, ConcatProperties, RangeConcatenation
<1>7. InsertAt(q, i, e) = h \o b
  BY <1>1
<1> HIDE DEF h
<1>8. h \o b \in Seq(S) /\ Range(h \o b) = Range(h) \cup Range(b)
  BY <1>2, <1>6, ConcatProperties, RangeConcatenation
<1>. QED BY <1>2, <1>5, <1>6, <1>7, <1>8, Zenon

(* What appending adds.                                                    *)
LEMMA AppendElems ==
  ASSUME NEW S, NEW q \in Seq(S), NEW e \in S
  PROVE  Append(q, e) \in Seq(S) /\ Range(Append(q, e)) = Range(q) \cup {e}
<1> DEFINE o == <<e>>
<1>1. Append(q, e) \in Seq(S) /\ Append(q, e) = q \o o
  BY AppendProperties, AppendIsConcat
<1>3. o \in Seq(S) /\ Len(o) = 1 /\ o[1] = e
  OBVIOUS
<1> HIDE DEF o
<1>4. Range(o) = {o[j] : j \in 1..1} /\ 1..1 = {1}
  BY <1>3, RangeEquality
<1>5. Range(o) = {e}
  BY <1>3, <1>4, Zenon
<1>6. Range(q \o o) = Range(q) \cup Range(o)
  BY <1>3, RangeConcatenation
<1>. QED BY <1>1, <1>5, <1>6

(* Position finds the place of an element that is there.                   *)
LEMMA PositionIs ==
  ASSUME NEW q, NEW u \in Range(q)
  PROVE  Position(q, u) \in DOMAIN q /\ q[Position(q, u)] = u
BY DEF Position, Range

(* take_item_file_by_uid takes the item away and nothing else.             *)
LEMMA WithoutElems ==
  ASSUME NEW S, NEW q \in Seq(S), NEW u
  PROVE  /\ Without(q, u) \in Seq(S)
         /\ Range(q) \ {u} \subseteq Range(Without(q, u)) /\ Range(Without(q, u)) \subseteq Range(q)
<1>1. CASE u \in Range(q)
  <2>1. Without(q, u) = RemoveAt(q, Position(q, u)) /\ Position(q, u) \in DOMAIN q /\ q[Position(q, u)] = u
    BY <1>1, PositionIs DEF Without
  <2>. QED BY <2>1, RemoveAtElems
<1>2. CASE u \notin Range(q)
  BY <1>2 DEF Without
<1>. QED BY <1>1, <1>2

(* The next current profile is one of the list.                            *)
LEMMA FirstMainIs ==
  ASSUME NEW q \in Seq(Uids)
  PROVE  FirstMain(q) = None \/ FirstMain(q) \in Mains \cap Range(q)
<1> DEFINE mains == {i \in DOMAIN q : q[i] \in Mains}
<1>1. ASSUME mains # {} PROVE \E i \in mains : \A j \in mains : i <= j
  <2>1. mains \subseteq Nat
    BY LenProperties
  <2>2. PICK i \in mains : \A j \in mains : <<j, i>> \notin OpToRel(<, Nat)
    BY <1>1, <2>1, NatLessThanWellFounded, WFMin
  <2>3. ASSUME NEW j \in mains PROVE i <= j
    <3>1. ~(<<j, i>> \in Nat \X Nat /\ j < i)
      BY <2>2, <2>1 DEF OpToRel
    <3>. QED BY <2>1, <3>1
  <2>. QED BY <2>3
<1>. QED BY <1>1 DEF FirstMain, Range

(* What is left of a queue.                                                *)
LEMMA TailIs ==
  ASSUME NEW S, NEW q \in Seq(S), q # <<>>
  PROVE  /\ Head(q) \in S /\ Tail(q) \in Seq(S) /\ Len(q) \in Nat
         /\ Head(q) \in Range(q) /\ Range(q) = {Head(q)} \cup Range(Tail(q))
         /\ Len(q) = 1 => Last(q) = Head(q) /\ Tail(q) = <<>> /\ Range(q) = {Head(q)}
         /\ Len(q) # 1 => Tail(q) # <<>> /\ Last(Tail(q)) = Last(q)
<1> DEFINE r == Tail(q)
<1>1. Len(q) \in Nat /\ Len(q) # 0 /\ Head(q) = q[1]
  BY EmptySeq
<1>2. /\ Head(q) \in S /\ r \in Seq(S) /\ Len(r) = Len(q) - 1
      /\ \A i \in 1..Len(r) : r[i] = q[i + 1]
  BY HeadTailProperties
<1> HIDE DEF r
<1>3. Range(q) = {q[i] : i \in 1..Len(q)} /\ Range(r) = {r[i] : i \in 1..Len(r)}
  BY <1>2, RangeEquality
<1>4. Head(q) \in Range(q)
  BY <1>1, <1>3
<1>5. Range(r) \subseteq Range(q)
  <2>1. ASSUME NEW i \in 1..Len(r) PROVE r[i] \in Range(q)
    <3>1. i + 1 \in 1..Len(q) /\ r[i] = q[i + 1]
      BY <1>1, <1>2
    <3>. QED BY <1>3, <3>1
  <2>. QED BY <1>3, <2>1
<1>6. Range(q) \subseteq {Head(q)} \cup Range(r)
  <2>1. ASSUME NEW i \in 1..Len(q), i # 1 PROVE q[i] \in Range(r)
    <3>1. i - 1 \in 1..Len(r) /\ i = (i - 1) + 1
      BY <1>1, <1>2, <2>1
    <3>2. r[i - 1] = q[i]
      BY <1>2, <3>1
    <3>. QED BY <1>3, <3>1, <3>2
  <2>. QED BY <1>1, <1>3, <2>1
<1>7. ASSUME Len(q) = 1 PROVE Last(q) = Head(q) /\ r = <<>> /\ Range(r) = {}
  <2>1. Len(r) = 0
    BY <1>2, <1>7
  <2>2. r = <<>>
    BY <1>2, <2>1, EmptySeq
  <2>3. 1..Len(r) = {}
    BY <2>1
  <2>4. Range(r) = {}
    BY <1>3, <2>3
  <2>. QED BY <1>1, <1>7, <2>2, <2>4 DEF Last
<1>8. ASSUME Len(q) # 1 PROVE r # <<>> /\ Last(r) = Last(q)
  <2>1. Len(r) # 0 /\ Len(r) \in 1..Len(r) /\ Len(r) + 1 = Len(q)
    BY <1>1, <1>2, <1>8
  <2>2. r # <<>>
    BY <2>1, EmptySeq
  <2>3. r[Len(r)] = q[Len(q)]
    BY <1>2, <2>1
  <2>. QED BY <2>2, <2>3 DEF Last
<1>. QED BY <1>1, <1>2, <1>4, <1>5, <1>6, <1>7, <1>8 DEF r

(* Queues of one, of two and of three.                                     *)
LEMMA OneIs ==
  ASSUME NEW S, NEW a \in S
  PROVE  /\ <<a>> \in Seq(S) /\ <<a>> # <<>>
         /\ Range(<<a>>) = {a} /\ Last(<<a>>) = a
<1> DEFINE q == <<a>>
<1>1. q \in Seq(S) /\ Len(q) = 1 /\ q[1] = a
  OBVIOUS
<1> HIDE DEF q
<1>2. q # <<>>
  BY <1>1, EmptySeq
<1>3. Range(q) = {q[j] : j \in 1..1} /\ 1..1 = {1}
  BY <1>1, RangeEquality
<1>4. Range(q) = {a}
  BY <1>1, <1>3, Zenon
<1>5. Last(q) = a
  BY <1>1 DEF Last
<1>. QED BY <1>1, <1>2, <1>4, <1>5 DEF q

LEMMA TwoIs ==
  ASSUME NEW S, NEW a \in S, NEW b \in S
  PROVE  /\ <<a, b>> \in Seq(S) /\ <<a, b>> # <<>>
         /\ Range(<<a, b>>) = {a, b} /\ Last(<<a, b>>) = b
<1> DEFINE q == <<a, b>>
<1>1. q \in Seq(S) /\ Len(q) = 2 /\ q[1] = a /\ q[2] = b
  OBVIOUS
<1> HIDE DEF q
<1>2. q # <<>>
  BY <1>1, EmptySeq
<1>3. Range(q) = {q[j] : j \in 1..2} /\ 1..2 = {1, 2}
  BY <1>1, RangeEquality
<1>4. Range(q) = {a, b}
  BY <1>1, <1>3, Zenon
<1>5. Last(q) = b
  BY <1>1 DEF Last
<1>. QED BY <1>1, <1>2, <1>4, <1>5 DEF q

LEMMA ThreeIs ==
  ASSUME NEW S, NEW a \in S, NEW b \in S, NEW c \in S
  PROVE  /\ <<a, b, c>> \in Seq(S) /\ <<a, b, c>> # <<>>
         /\ Range(<<a, b, c>>) = {a, b, c} /\ Last(<<a, b, c>>) = c
<1> DEFINE q == <<a, b, c>>
<1>1. q \in Seq(S) /\ Len(q) = 3 /\ q[1] = a /\ q[2] = b /\ q[3] = c
  OBVIOUS
<1> HIDE DEF q
<1>2. q # <<>>
  BY <1>1, EmptySeq
<1>3. Range(q) = {q[j] : j \in 1..3} /\ 1..3 = {1, 2, 3}
  BY <1>1, RangeEquality
<1>4. Range(q) = {a, b, c}
  BY <1>1, <1>3, Zenon
<1>5. Last(q) = c
  BY <1>1 DEF Last
<1>. QED BY <1>1, <1>2, <1>4, <1>5 DEF q

-----------------------------------------------------------------------------
(* What the operations of the list make of it.                             *)

(* What a job needs to be one that some command makes.                     *)
Proper(job) == job.do \in {"delete", "patch"} => job.uid \in Mains

(* The profiles a job reorders are in the list.                            *)
Placed(job, v) == job.do = "reorder" => {job.uid, job.over} \subseteq Has(v)

(* What it takes away.                                                     *)
Taken(job) == IF job.do = "delete" THEN {job.uid, CompanionOf[job.uid]} ELSE {}

(* The list has its current profile.                                       *)
Chosen(v) == v.current # None => v.current \in Has(v)

(* Main profiles and companions are different uids and different from      *)
(* None.                                                                   *)
LEMMA Names ==
  ASSUME ProfilesAssumption
  PROVE  /\ Mains \subseteq Uids /\ Companions \subseteq Uids /\ Mains \cap Companions = {}
         /\ None \notin Uids /\ None \notin Mains /\ None \notin Tasks /\ None \notin Value
         /\ \A u \in Mains : CompanionOf[u] \in Companions /\ CompanionOf[u] \notin Mains
BY DEF ProfilesAssumption, Uids, Companions

(* The fields of a list, and when a record is one.                         *)
LEMMA ValueIs ==
  ASSUME NEW v \in Value
  PROVE  /\ v.items \in Seq(Uids) /\ v.current \in Mains \cup {None} /\ v.patched \subseteq Mains
         /\ v = [items |-> v.items, current |-> v.current, patched |-> v.patched]
         /\ Has(v) \subseteq Uids
<1>1. v.items \in Seq(Uids)
  BY DEF Value
<1>. QED BY <1>1, RangeOfSeq DEF Value, Has

(* A list with some of its fields changed.                                 *)
LEMMA ExceptIs ==
  ASSUME NEW v \in Value, NEW q, NEW d, NEW p
  PROVE  /\ [v EXCEPT !.items = q, !.current = d] = [items |-> q, current |-> d, patched |-> v.patched]
         /\ [v EXCEPT !.items = q, !.current = d, !.patched = p] = [items |-> q, current |-> d, patched |-> p]
         /\ [v EXCEPT !.patched = p] = [items |-> v.items, current |-> v.current, patched |-> p]
<1> DEFINE R == [items : {v.items, q}, current : {v.current, d}, patched : {v.patched, p}]
<1>1. v \in R
  BY DEF Value
<1> DEFINE one == [v EXCEPT !.items = q]
           two == [one EXCEPT !.current = d]
           three == [two EXCEPT !.patched = p]
<1>2. one \in R /\ one.items = q /\ one.current = v.current /\ one.patched = v.patched
  BY <1>1
<1> HIDE DEF one
<1>3. two \in R /\ two.items = q /\ two.current = d /\ two.patched = v.patched
  BY <1>2
<1> HIDE DEF two
<1>4. three \in R /\ three.items = q /\ three.current = d /\ three.patched = p
  BY <1>3
<1> HIDE DEF three
<1>5. \A r \in R : r = [items |-> r.items, current |-> r.current, patched |-> r.patched]
  OBVIOUS
<1>6. two = [items |-> q, current |-> d, patched |-> v.patched] /\ three = [items |-> q, current |-> d, patched |-> p]
  BY <1>3, <1>4, <1>5
<1>7. [v EXCEPT !.patched = p] = [items |-> v.items, current |-> v.current, patched |-> p]
  BY <1>1
<1>. QED BY <1>6, <1>7 DEF one, two, three

(* append_item adds an item and keeps the rest.                            *)
LEMMA AppendIs ==
  ASSUME NEW v \in Value, NEW u \in Uids
  PROVE  /\ AppendItem(v, u) \in Value
         /\ Has(AppendItem(v, u)) = Has(v) \cup {u}
         /\ AppendItem(v, u).patched = v.patched
         /\ v.current # None => AppendItem(v, u).current = v.current
         /\ AppendItem(v, u).current \in {v.current, u}
<1> DEFINE q == Append(v.items, u)
           d == IF v.current = None /\ u \in Mains THEN u ELSE v.current
           w == AppendItem(v, u)
<1>1. q \in Seq(Uids) /\ Range(q) = Range(v.items) \cup {u}
  BY ValueIs, AppendElems
<1>2. w = [items |-> q, current |-> d, patched |-> v.patched]
  <2>1. w = [v EXCEPT !.items = q, !.current = d]
    BY DEF AppendItem
  <2> HIDE DEF q, d, w
  <2>. QED BY <2>1, ExceptIs
<1>3. d \in Mains \cup {None} /\ d \in {v.current, u} /\ (v.current # None => d = v.current)
  BY ValueIs
<1> HIDE DEF q, d, w
<1>4. w \in Value /\ w.items = q /\ w.current = d /\ w.patched = v.patched
  BY <1>1, <1>2, <1>3, ValueIs DEF Value
<1>. QED BY <1>1, <1>3, <1>4 DEF Has, w

(* delete_item takes away the profile and its companions and nothing else. *)
LEMMA DeleteIs ==
  ASSUME ProfilesAssumption, NEW v \in Value, NEW u \in Mains
  PROVE  /\ DeleteItem(v, u) \in Value
         /\ Has(v) \ {u, CompanionOf[u]} \subseteq Has(DeleteItem(v, u)) /\ Has(DeleteItem(v, u)) \subseteq Has(v)
         /\ v.current \notin {u, None} => DeleteItem(v, u).current = v.current
         /\ v.current \in {u, None} => DeleteItem(v, u).current \in {None} \cup Has(DeleteItem(v, u))
         /\ DeleteItem(v, u).patched = v.patched \ {u}
<1> DEFINE one == Without(v.items, u)
           q == Without(one, CompanionOf[u])
           d == IF v.current \in {u, None} THEN FirstMain(q) ELSE v.current
           w == DeleteItem(v, u)
<1>1. one \in Seq(Uids) /\ Range(v.items) \ {u} \subseteq Range(one) /\ Range(one) \subseteq Range(v.items)
  BY ValueIs, WithoutElems
<1> HIDE DEF one
<1>2. q \in Seq(Uids) /\ Range(one) \ {CompanionOf[u]} \subseteq Range(q) /\ Range(q) \subseteq Range(one)
  BY <1>1, WithoutElems
<1>3. FirstMain(q) = None \/ FirstMain(q) \in Mains \cap Range(q)
  BY <1>2, FirstMainIs
<1>4. d \in Mains \cup {None}
  BY <1>3, ValueIs
<1>5. w = [items |-> q, current |-> d, patched |-> v.patched \ {u}]
  <2> DEFINE p == v.patched \ {u}
  <2>1. w = [v EXCEPT !.items = q, !.current = d, !.patched = p]
    BY DEF DeleteItem, one
  <2> HIDE DEF q, d, w, p
  <2>2. w = [items |-> q, current |-> d, patched |-> p]
    BY <2>1, ExceptIs
  <2>. QED BY <2>2 DEF p
<1>6. (v.current \in {u, None} => d = FirstMain(q)) /\ (v.current \notin {u, None} => d = v.current)
  OBVIOUS
<1> HIDE DEF q, d, w
<1>7. w \in Value /\ w.items = q /\ w.current = d /\ w.patched = v.patched \ {u}
  BY <1>2, <1>4, <1>5, ValueIs DEF Value
<1>8. Has(w) = Range(q) /\ Has(v) = Range(v.items)
  BY <1>7 DEF Has
<1>9. Has(v) \ {u, CompanionOf[u]} \subseteq Has(w) /\ Has(w) \subseteq Has(v)
  BY <1>1, <1>2, <1>8
<1>10. v.current \in {u, None} => w.current \in {None} \cup Has(w)
  BY <1>3, <1>6, <1>7, <1>8
<1>. QED BY <1>6, <1>7, <1>9, <1>10 DEF w

(* reorder keeps the items when both are in the list.                      *)
LEMMA ReorderIs ==
  ASSUME NEW v \in Value, NEW u \in Uids, NEW over \in Uids
  PROVE  /\ Reorder(v, u, over) \in Value
         /\ {u, over} \subseteq Has(v) => Has(Reorder(v, u, over)) = Has(v)
         /\ Has(Reorder(v, u, over)) \subseteq Has(v)
         /\ Reorder(v, u, over).current = v.current /\ Reorder(v, u, over).patched = v.patched
<1> DEFINE w == Reorder(v, u, over)
<1>1. CASE {u, over} \subseteq Has(v)
  <2> DEFINE i == Position(v.items, u)
             k == Position(v.items, over)
             one == RemoveAt(v.items, i)
             q == InsertAt(one, k, u)
  <2>1. i \in DOMAIN v.items /\ v.items[i] = u /\ k \in DOMAIN v.items
    BY <1>1, PositionIs DEF Has
  <2>2. v.items \in Seq(Uids) /\ Len(v.items) \in Nat /\ DOMAIN v.items = 1..Len(v.items)
    BY ValueIs, LenProperties
  <2> HIDE DEF i, k
  <2>3. /\ one \in Seq(Uids) /\ Len(one) = Len(v.items) - 1
        /\ Range(v.items) \ {u} \subseteq Range(one) /\ Range(one) \subseteq Range(v.items)
    BY <2>1, <2>2, RemoveAtElems
  <2> HIDE DEF one
  <2>4. k \in 1..(Len(one) + 1)
    BY <2>1, <2>2, <2>3
  <2>5. q \in Seq(Uids) /\ Range(q) = Range(one) \cup {u}
    BY <2>3, <2>4, InsertAtElems
  <2>6. w = [items |-> q, current |-> v.current, patched |-> v.patched]
    BY <1>1, ValueIs DEF Reorder, i, k, one
  <2> HIDE DEF q, w
  <2>7. w \in Value /\ w.items = q /\ w.current = v.current /\ w.patched = v.patched
    BY <2>5, <2>6, ValueIs DEF Value
  <2>8. u \in Range(v.items)
    BY <1>1 DEF Has
  <2>9. Has(w) = Has(v)
    BY <2>3, <2>5, <2>7, <2>8 DEF Has
  <2>. QED BY <2>7, <2>9 DEF w
<1>2. CASE ~({u, over} \subseteq Has(v))
  <2> DEFINE q == <<>>
  <2>1. q \in Seq(Uids) /\ Range(q) = {}
    <3>1. q \in Seq(Uids) /\ Len(q) = 0
      BY EmptySeq
    <3> HIDE DEF q
    <3>2. Range(q) = {q[j] : j \in 1..Len(q)}
      BY <3>1, RangeEquality
    <3>3. 1..Len(q) = {}
      BY <3>1
    <3>. QED BY <3>1, <3>2, <3>3
  <2>2. w = [items |-> q, current |-> v.current, patched |-> v.patched]
    BY <1>2, ValueIs DEF Reorder
  <2> HIDE DEF q, w
  <2>3. w \in Value /\ w.items = q /\ w.current = v.current /\ w.patched = v.patched
    BY <2>1, <2>2, ValueIs DEF Value
  <2>4. Has(w) = {}
    BY <2>1, <2>3 DEF Has
  <2>. QED BY <1>2, <2>3, <2>4 DEF w
<1>. QED BY <1>1, <1>2

(* patch_config changes the current profile alone.                         *)
LEMMA PatchConfigIs ==
  ASSUME NEW v \in Value, NEW u \in Mains
  PROVE  /\ PatchConfig(v, u) \in Value /\ Has(PatchConfig(v, u)) = Has(v)
         /\ PatchConfig(v, u).patched = v.patched
         /\ PatchConfig(v, u).current = IF u \in Has(v) THEN u ELSE v.current
<1> DEFINE w == PatchConfig(v, u)
<1>1. CASE u \in Has(v)
  <2>1. w = [items |-> v.items, current |-> u, patched |-> v.patched]
    BY <1>1, ValueIs DEF PatchConfig
  <2> HIDE DEF w
  <2>2. w \in Value /\ w.items = v.items /\ w.current = u /\ w.patched = v.patched
    BY <2>1, ValueIs DEF Value
  <2>. QED BY <1>1, <2>2 DEF w, Has
<1>2. CASE u \notin Has(v)
  BY <1>2 DEF PatchConfig
<1>. QED BY <1>1, <1>2

(* What every closure makes of the list: it takes away what it deletes and *)
(* adds what it appends, and the current profile stays one of the list.    *)
LEMMA ResultIs ==
  ASSUME ProfilesAssumption, NEW v \in Value, NEW job \in Job, Proper(job)
  PROVE  /\ Result(job, v) \in Value
         /\ Placed(job, v) => Has(v) \ Taken(job) \subseteq Has(Result(job, v))
         /\ job.do # "append" => Has(Result(job, v)) \subseteq Has(v)
         /\ job.do = "append" => Has(Result(job, v)) = Has(v) \cup {job.uid}
         /\ job.do = "save" => Result(job, v) = v
         /\ v.patched \ Taken(job) \subseteq Result(job, v).patched
         /\ job.do = "patch" => job.uid \in Result(job, v).patched
         /\ v.current # None /\ (job.do = "delete" => job.uid # v.current)
              => Result(job, v).current = v.current
         /\ Placed(job, v) /\ Chosen(v) => Chosen(Result(job, v))
<1> DEFINE w == Result(job, v)
<1>0. /\ job.do \in {"append", "delete", "patch", "update", "reorder", "save"}
      /\ job.uid \in Uids /\ job.over \in Uids
  BY DEF Job
<1>v. v.current \in Mains \cup {None} /\ None \notin Mains
  BY ValueIs, Names
<1>1. CASE job.do = "append"
  <2>1. w = AppendItem(v, job.uid)
    BY <1>1 DEF Result
  <2>2. w \in Value /\ Has(w) = Has(v) \cup {job.uid} /\ w.patched = v.patched
    BY <1>0, <2>1, AppendIs
  <2>3. (v.current # None => w.current = v.current) /\ w.current \in {v.current, job.uid}
    BY <1>0, <2>1, AppendIs
  <2> HIDE DEF w
  <2>4. Chosen(v) => Chosen(w)
    BY <2>2, <2>3 DEF Chosen
  <2>. QED BY <1>1, <2>2, <2>3, <2>4 DEF w, Taken
<1>2. CASE job.do = "delete"
  <2>1. w = DeleteItem(v, job.uid) /\ job.uid \in Mains
    BY <1>2 DEF Result, Proper
  <2>2. /\ w \in Value /\ Has(v) \ {job.uid, CompanionOf[job.uid]} \subseteq Has(w) /\ Has(w) \subseteq Has(v)
        /\ w.patched = v.patched \ {job.uid}
    BY <2>1, DeleteIs
  <2>3. /\ v.current \notin {job.uid, None} => w.current = v.current
        /\ v.current \in {job.uid, None} => w.current \in {None} \cup Has(w)
    BY <2>1, DeleteIs
  <2> HIDE DEF w
  <2>4. Chosen(v) => Chosen(w)
    <3>1. CASE v.current \in {job.uid, None}
      BY <2>3, <3>1 DEF Chosen
    <3>2. CASE v.current \notin {job.uid, None}
      <4>1. v.current # CompanionOf[job.uid]
        BY <1>v, <2>1, <3>2, Names
      <4>. QED BY <2>2, <2>3, <3>2, <4>1 DEF Chosen
    <3>. QED BY <3>1, <3>2
  <2>. QED BY <1>2, <2>2, <2>3, <2>4 DEF w, Taken
<1>3. CASE job.do = "patch"
  <2>1. w = [items |-> v.items, current |-> v.current, patched |-> v.patched \cup {job.uid}] /\ job.uid \in Mains
    <3> DEFINE p == v.patched \cup {job.uid}
    <3>1. w = [v EXCEPT !.patched = p] /\ job.uid \in Mains
      BY <1>3 DEF Result, Proper
    <3> HIDE DEF w, p
    <3>2. w = [items |-> v.items, current |-> v.current, patched |-> p]
      BY <3>1, ExceptIs
    <3>. QED BY <3>1, <3>2 DEF p
  <2> HIDE DEF w
  <2>2. w \in Value /\ w.items = v.items /\ w.current = v.current /\ w.patched = v.patched \cup {job.uid}
    BY <2>1, ValueIs DEF Value
  <2>3. Has(w) = Has(v)
    BY <2>2 DEF Has
  <2>4. Chosen(v) => Chosen(w)
    BY <2>2, <2>3 DEF Chosen
  <2>. QED BY <1>3, <2>2, <2>3, <2>4 DEF w
<1>4. CASE job.do = "reorder"
  <2>1. w = Reorder(v, job.uid, job.over)
    BY <1>4 DEF Result
  <2>2. /\ w \in Value /\ Has(w) \subseteq Has(v) /\ w.current = v.current /\ w.patched = v.patched
        /\ {job.uid, job.over} \subseteq Has(v) => Has(w) = Has(v)
    BY <1>0, <2>1, ReorderIs
  <2> HIDE DEF w
  <2>3. Placed(job, v) => Has(w) = Has(v)
    BY <1>4, <2>2 DEF Placed
  <2>4. Placed(job, v) /\ Chosen(v) => Chosen(w)
    BY <2>2, <2>3 DEF Chosen
  <2>. QED BY <1>4, <2>2, <2>3, <2>4 DEF w
<1>5. CASE job.do \in {"update", "save"}
  <2>1. w = v
    BY <1>5 DEF Result
  <2> HIDE DEF w
  <2>. QED BY <1>5, <2>1 DEF w
<1>. QED BY <1>0, <1>1, <1>2, <1>3, <1>4, <1>5

-----------------------------------------------------------------------------
(* The records of the calls, field by field.                               *)

(* A call of these fields.                                                 *)
CallWith(o, p, u, j, s, l, x) ==
  [op |-> o, pc |-> p, uid |-> u, jobs |-> j, steps |-> s, local |-> l, stale |-> x]

(* The fields of a call written out.                                       *)
LEMMA Fields ==
  ASSUME NEW o, NEW p, NEW u, NEW j, NEW s, NEW l, NEW x, NEW c, c = CallWith(o, p, u, j, s, l, x)
  PROVE  c.op = o /\ c.pc = p /\ c.uid = u /\ c.jobs = j /\ c.steps = s /\ c.local = l /\ c.stale = x
BY DEF CallWith

(* A record with the fields of a call.                                     *)
IsCall(c) == c = CallWith(c.op, c.pc, c.uid, c.jobs, c.steps, c.local, c.stale)

(* A call after the actions: when a job of it is done, when its closure    *)
(* begins, when a step of it is done; made stale, applied and sent back.   *)
NextJob(c) == CallWith(c.op, "ready", c.uid, Tail(c.jobs), <<>>, Empty, FALSE)

InClosure(c, v) ==
  CallWith(c.op, "closure", c.uid, c.jobs, Steps(Head(c.jobs), v), Result(Head(c.jobs), v), FALSE)

AfterStep(c) == CallWith(c.op, c.pc, c.uid, c.jobs, Tail(c.steps), c.local, c.stale)
Staled(c) == CallWith(c.op, c.pc, c.uid, c.jobs, c.steps, c.local, TRUE)
Applied(c) == CallWith(c.op, "ready", c.uid, c.jobs, c.steps, Empty, c.stale)
Restored(c) == CallWith("restore", "ready", c.uid, c.jobs, c.steps, Empty, c.stale)

(* The call that is left when a job of it is done.                         *)
LEMMA NextCallIs ==
  ASSUME NEW c, IsCall(c)
  PROVE  [c EXCEPT !.pc = "ready", !.jobs = Tail(c.jobs), !.steps = <<>>, !.local = Empty, !.stale = FALSE]
           = NextJob(c)
<1> DEFINE x1 == "ready"
           x2 == Tail(c.jobs)
           x3 == <<>>
           x4 == Empty
           x5 == FALSE
<1> HIDE DEF x1, x2, x3, x4, x5
<1> DEFINE c1 == [c EXCEPT !.pc = x1]
           c2 == [c1 EXCEPT !.jobs = x2]
           c3 == [c2 EXCEPT !.steps = x3]
           c4 == [c3 EXCEPT !.local = x4]
           c5 == [c4 EXCEPT !.stale = x5]
<1>1. c1 = CallWith(c.op, x1, c.uid, c.jobs, c.steps, c.local, c.stale)
  BY DEF CallWith, IsCall
<1> HIDE DEF c1
<1>2. c2 = CallWith(c.op, x1, c.uid, x2, c.steps, c.local, c.stale)
  BY <1>1 DEF CallWith
<1> HIDE DEF c2
<1>3. c3 = CallWith(c.op, x1, c.uid, x2, x3, c.local, c.stale)
  BY <1>2 DEF CallWith
<1> HIDE DEF c3
<1>4. c4 = CallWith(c.op, x1, c.uid, x2, x3, x4, c.stale)
  BY <1>3 DEF CallWith
<1> HIDE DEF c4
<1>5. c5 = CallWith(c.op, x1, c.uid, x2, x3, x4, x5)
  BY <1>4 DEF CallWith
<1> HIDE DEF c5
<1>. QED BY <1>5, Zenon DEF c1, c2, c3, c4, c5, x1, x2, x3, x4, x5, NextJob

(* The call whose closure has begun.                                       *)
LEMMA ClosureCallIs ==
  ASSUME NEW c, IsCall(c), NEW v
  PROVE  [c EXCEPT !.pc = "closure", !.steps = Steps(Head(c.jobs), v), !.local = Result(Head(c.jobs), v), !.stale = FALSE]
           = InClosure(c, v)
<1> DEFINE x1 == "closure"
           x2 == Steps(Head(c.jobs), v)
           x3 == Result(Head(c.jobs), v)
           x4 == FALSE
<1> HIDE DEF x1, x2, x3, x4
<1> DEFINE c1 == [c EXCEPT !.pc = x1]
           c2 == [c1 EXCEPT !.steps = x2]
           c3 == [c2 EXCEPT !.local = x3]
           c4 == [c3 EXCEPT !.stale = x4]
<1>1. c1 = CallWith(c.op, x1, c.uid, c.jobs, c.steps, c.local, c.stale)
  BY DEF CallWith, IsCall
<1> HIDE DEF c1
<1>2. c2 = CallWith(c.op, x1, c.uid, c.jobs, x2, c.local, c.stale)
  BY <1>1 DEF CallWith
<1> HIDE DEF c2
<1>3. c3 = CallWith(c.op, x1, c.uid, c.jobs, x2, x3, c.stale)
  BY <1>2 DEF CallWith
<1> HIDE DEF c3
<1>4. c4 = CallWith(c.op, x1, c.uid, c.jobs, x2, x3, x4)
  BY <1>3 DEF CallWith
<1> HIDE DEF c4
<1>. QED BY <1>4, Zenon DEF c1, c2, c3, c4, x1, x2, x3, x4, InClosure

(* The call of a switch that was applied.                                  *)
LEMMA AppliedCallIs ==
  ASSUME NEW c, IsCall(c)
  PROVE  [c EXCEPT !.pc = "ready", !.local = Empty]
           = Applied(c)
<1> DEFINE x1 == "ready"
           x2 == Empty
<1> HIDE DEF x1, x2
<1> DEFINE c1 == [c EXCEPT !.pc = x1]
           c2 == [c1 EXCEPT !.local = x2]
<1>1. c1 = CallWith(c.op, x1, c.uid, c.jobs, c.steps, c.local, c.stale)
  BY DEF CallWith, IsCall
<1> HIDE DEF c1
<1>2. c2 = CallWith(c.op, x1, c.uid, c.jobs, c.steps, x2, c.stale)
  BY <1>1 DEF CallWith
<1> HIDE DEF c2
<1>. QED BY <1>2, Zenon DEF c1, c2, x1, x2, Applied

(* The call of a switch that goes back to the previous profile.            *)
LEMMA RestoredCallIs ==
  ASSUME NEW c, IsCall(c)
  PROVE  [c EXCEPT !.op = "restore", !.pc = "ready", !.local = Empty]
           = Restored(c)
<1> DEFINE x1 == "restore"
           x2 == "ready"
           x3 == Empty
<1> HIDE DEF x1, x2, x3
<1> DEFINE c1 == [c EXCEPT !.op = x1]
           c2 == [c1 EXCEPT !.pc = x2]
           c3 == [c2 EXCEPT !.local = x3]
<1>1. c1 = CallWith(x1, c.pc, c.uid, c.jobs, c.steps, c.local, c.stale)
  BY DEF CallWith, IsCall
<1> HIDE DEF c1
<1>2. c2 = CallWith(x1, x2, c.uid, c.jobs, c.steps, c.local, c.stale)
  BY <1>1 DEF CallWith
<1> HIDE DEF c2
<1>3. c3 = CallWith(x1, x2, c.uid, c.jobs, c.steps, x3, c.stale)
  BY <1>2 DEF CallWith
<1> HIDE DEF c3
<1>. QED BY <1>3, Zenon DEF c1, c2, c3, x1, x2, x3, Restored

(* The call of a command.                                                  *)
LEMMA NewCallIs ==
  ASSUME NEW op, NEW u, NEW j
  PROVE  [Idle EXCEPT !.op = op, !.pc = "ready", !.uid = u, !.jobs = j]
           = CallWith(op, "ready", u, j, <<>>, Empty, FALSE)
<1> SUFFICES ASSUME NEW c, c = Idle
             PROVE  [c EXCEPT !.op = op, !.pc = "ready", !.uid = u, !.jobs = j]
                      = CallWith(op, "ready", u, j, <<>>, Empty, FALSE)
  BY Zenon
<1>a. IsCall(c) /\ c.op = "none" /\ c.pc = "idle" /\ c.uid = None /\ c.jobs = <<>> /\ c.steps = <<>> /\ c.local = Empty /\ c.stale = FALSE
  BY DEF Idle, IsCall, CallWith
<1> DEFINE x1 == op
           x2 == "ready"
           x3 == u
           x4 == j
<1> HIDE DEF x1, x2, x3, x4
<1> DEFINE c1 == [c EXCEPT !.op = x1]
           c2 == [c1 EXCEPT !.pc = x2]
           c3 == [c2 EXCEPT !.uid = x3]
           c4 == [c3 EXCEPT !.jobs = x4]
<1>1. c1 = CallWith(x1, c.pc, c.uid, c.jobs, c.steps, c.local, c.stale)
  BY <1>a DEF CallWith, IsCall
<1> HIDE DEF c1
<1>2. c2 = CallWith(x1, x2, c.uid, c.jobs, c.steps, c.local, c.stale)
  BY <1>1 DEF CallWith
<1> HIDE DEF c2
<1>3. c3 = CallWith(x1, x2, x3, c.jobs, c.steps, c.local, c.stale)
  BY <1>2 DEF CallWith
<1> HIDE DEF c3
<1>4. c4 = CallWith(x1, x2, x3, x4, c.steps, c.local, c.stale)
  BY <1>3 DEF CallWith
<1> HIDE DEF c4
<1>. QED BY <1>a, <1>4, Zenon DEF c1, c2, c3, c4, x1, x2, x3, x4

(* The call of a switch.                                                   *)
LEMMA NewSwitchIs ==
  ASSUME NEW op, NEW u, NEW j, NEW v
  PROVE  [Idle EXCEPT !.op = op, !.pc = "updating", !.uid = u, !.jobs = j, !.local = v]
           = CallWith(op, "updating", u, j, <<>>, v, FALSE)
<1> SUFFICES ASSUME NEW c, c = Idle
             PROVE  [c EXCEPT !.op = op, !.pc = "updating", !.uid = u, !.jobs = j, !.local = v]
                      = CallWith(op, "updating", u, j, <<>>, v, FALSE)
  BY Zenon
<1>a. IsCall(c) /\ c.op = "none" /\ c.pc = "idle" /\ c.uid = None /\ c.jobs = <<>> /\ c.steps = <<>> /\ c.local = Empty /\ c.stale = FALSE
  BY DEF Idle, IsCall, CallWith
<1> DEFINE x1 == op
           x2 == "updating"
           x3 == u
           x4 == j
           x5 == v
<1> HIDE DEF x1, x2, x3, x4, x5
<1> DEFINE c1 == [c EXCEPT !.op = x1]
           c2 == [c1 EXCEPT !.pc = x2]
           c3 == [c2 EXCEPT !.uid = x3]
           c4 == [c3 EXCEPT !.jobs = x4]
           c5 == [c4 EXCEPT !.local = x5]
<1>1. c1 = CallWith(x1, c.pc, c.uid, c.jobs, c.steps, c.local, c.stale)
  BY <1>a DEF CallWith, IsCall
<1> HIDE DEF c1
<1>2. c2 = CallWith(x1, x2, c.uid, c.jobs, c.steps, c.local, c.stale)
  BY <1>1 DEF CallWith
<1> HIDE DEF c2
<1>3. c3 = CallWith(x1, x2, x3, c.jobs, c.steps, c.local, c.stale)
  BY <1>2 DEF CallWith
<1> HIDE DEF c3
<1>4. c4 = CallWith(x1, x2, x3, x4, c.steps, c.local, c.stale)
  BY <1>3 DEF CallWith
<1> HIDE DEF c4
<1>5. c5 = CallWith(x1, x2, x3, x4, c.steps, x5, c.stale)
  BY <1>4 DEF CallWith
<1> HIDE DEF c5
<1>. QED BY <1>a, <1>5, Zenon DEF c1, c2, c3, c4, c5, x1, x2, x3, x4, x5

-----------------------------------------------------------------------------
(* The type of a call, and what the actions make of one.                   *)

(* The calls.                                                              *)
CallSet ==
  [op : Ops \cup {"none", "restore"}, pc : {"idle", "ready", "closure", "updating"}, uid : Mains \cup {None},
   jobs : Seq(Job), steps : Seq(Step), local : Value, stale : BOOLEAN]

CallsTyped == calls \in [Tasks -> CallSet]

(* The types of a call's fields.                                           *)
LEMMA CallIs ==
  ASSUME NEW c \in CallSet
  PROVE  /\ c.op \in Ops \cup {"none", "restore"} /\ c.pc \in {"idle", "ready", "closure", "updating"}
         /\ c.uid \in Mains \cup {None} /\ c.jobs \in Seq(Job) /\ c.steps \in Seq(Step)
         /\ c.local \in Value /\ c.stale \in BOOLEAN
         /\ IsCall(c)
BY DEF CallSet, CallWith, IsCall

(* A record with these fields is a call.                                   *)
LEMMA CallSetHas ==
  ASSUME NEW o \in Ops \cup {"none", "restore"}, NEW p \in {"idle", "ready", "closure", "updating"},
         NEW u \in Mains \cup {None}, NEW j \in Seq(Job), NEW s \in Seq(Step), NEW l \in Value, NEW x \in BOOLEAN
  PROVE  CallWith(o, p, u, j, s, l, x) \in CallSet
BY DEF CallSet, CallWith

(* The list without profiles.                                              *)
LEMMA EmptyIs == Empty \in Value /\ Has(Empty) = {} /\ Empty.current = None
<1> DEFINE q == <<>>
<1>1. q \in Seq(Uids) /\ Len(q) = 0
  BY EmptySeq
<1> HIDE DEF q
<1>2. Range(q) = {q[j] : j \in 1..Len(q)}
  BY <1>1, RangeEquality
<1>5. 1..Len(q) = {}
  BY <1>1
<1>3. Empty = [items |-> q, current |-> None, patched |-> {}]
  BY DEF Empty, q
<1>4. Empty.items = q /\ Empty.current = None /\ Empty \in Value
  BY <1>1, <1>3 DEF Value
<1>. QED BY <1>2, <1>4, <1>5 DEF Has

(* No call.                                                                *)
LEMMA IdleIs == Idle = CallWith("none", "idle", None, <<>>, <<>>, Empty, FALSE) /\ Idle \in CallSet
<1>1. Idle = CallWith("none", "idle", None, <<>>, <<>>, Empty, FALSE)
  BY DEF Idle, CallWith
<1>2. <<>> \in Seq(Job) /\ <<>> \in Seq(Step)
  BY EmptySeq
<1>. QED BY <1>1, <1>2, EmptyIs, CallSetHas

(* What each action makes of the calls.                                    *)
OnlyOf(t) == calls' = [s \in Tasks |-> calls'[s]] /\ \A s \in Tasks \ {t} : calls'[s] = calls[s]

(* The command goes on after a modification that ended like this: only     *)
(* delete_item heeds a failed save.                                        *)
Fine(c, ok) == ok \/ (Head(c.jobs).do = "save" /\ c.op # "delete")

(* What a call is after a modification.                                    *)
LEMMA AdvanceIs ==
  ASSUME CallsTyped, NEW t \in Tasks, NEW ok \in BOOLEAN, Advance(t, ok)
  PROVE  /\ permit' = None /\ OnlyOf(t)
         /\ \/ calls'[t] = Idle /\ told' = told /\ ~Fine(calls[t], ok)
            \/ /\ calls'[t] = Idle /\ told' = Tell(calls[t])
               /\ Len(calls[t].jobs) = 1 /\ Fine(calls[t], ok)
            \/ /\ calls'[t] = NextJob(calls[t]) /\ told' = told
               /\ Len(calls[t].jobs) # 1 /\ Fine(calls[t], ok)
<1> DEFINE c == calls[t]
           next == [c EXCEPT !.pc = "ready", !.jobs = Tail(c.jobs), !.steps = <<>>, !.local = Empty, !.stale = FALSE]
           d == IF ~Fine(c, ok) \/ Len(c.jobs) = 1 THEN Idle ELSE next
<1>1. /\ permit' = None
      /\ told' = IF Fine(c, ok) /\ Len(c.jobs) = 1 THEN Tell(c) ELSE told
      /\ calls' = [calls EXCEPT ![t] = d]
  BY Zenon DEF Advance, Fine
<1>2. c \in CallSet
  BY DEF CallsTyped
<1>3. next = NextJob(c)
  <2>1. IsCall(c)
    BY <1>2, CallIs
  <2>. QED BY <2>1, NextCallIs, Zenon
<1> HIDE DEF next
<1>4. d = Idle \/ d = next
  OBVIOUS
<1>5. OnlyOf(t) /\ calls'[t] = d
  <2> HIDE DEF d
  <2>. QED BY <1>1 DEF CallsTyped, OnlyOf
<1>6. CASE ~Fine(c, ok)
  BY <1>1, <1>5, <1>6
<1>7. CASE Fine(c, ok) /\ Len(c.jobs) = 1
  BY <1>1, <1>5, <1>7
<1>8. CASE Fine(c, ok) /\ Len(c.jobs) # 1
  BY <1>1, <1>3, <1>5, <1>8
<1>. QED BY <1>6, <1>7, <1>8

(* What a call is in a closure.                                            *)
LEMMA ModifyIs ==
  ASSUME CallsTyped, NEW t \in Tasks, Modify(t)
  PROVE  permit' = t /\ told' = told /\ OnlyOf(t) /\ calls'[t] = InClosure(calls[t], committed)
<1> DEFINE c == calls[t]
           q == "closure"
           r == Steps(Head(c.jobs), committed)
           m == Result(Head(c.jobs), committed)
           y == FALSE
<1>1. IsCall(c)
  BY CallIs DEF CallsTyped
<1>2. permit' = t /\ told' = told
  BY DEF Modify
<1>3. calls' = [calls EXCEPT ![t].pc = q, ![t].steps = r, ![t].local = m, ![t].stale = y]
  BY Zenon DEF Modify
<1> HIDE DEF q, r, m, y
<1>4. OnlyOf(t) /\ calls'[t] = [calls[t] EXCEPT !.pc = q, !.steps = r, !.local = m, !.stale = y]
  BY <1>3 DEF CallsTyped, OnlyOf
<1>5. [c EXCEPT !.pc = q, !.steps = r, !.local = m, !.stale = y] = InClosure(c, committed)
  BY <1>1, ClosureCallIs, Zenon DEF q, r, m, y
<1>. QED BY <1>2, <1>4, <1>5, Zenon

(* The call of a command is one.                                           *)
LEMMA CallMade ==
  ASSUME CallsTyped, NEW t \in Tasks, NEW op, NEW u, NEW over, Call(t, op, u, over)
  PROVE  OnlyOf(t) /\ calls'[t] = CallWith(op, "ready", u, Jobs(op, u, over), <<>>, Empty, FALSE)
<1> DEFINE d == [Idle EXCEPT !.op = op, !.pc = "ready", !.uid = u, !.jobs = Jobs(op, u, over)]
<1>1. calls' = [calls EXCEPT ![t] = d]
  BY Zenon DEF Call
<1>2. d = CallWith(op, "ready", u, Jobs(op, u, over), <<>>, Empty, FALSE)
  BY NewCallIs, Zenon
<1> HIDE DEF d
<1>3. OnlyOf(t) /\ calls'[t] = d
  BY <1>1 DEF CallsTyped, OnlyOf
<1>. QED BY <1>2, <1>3, Zenon

(* The call of a switch is one.                                            *)
LEMMA SwitchMade ==
  ASSUME CallsTyped, NEW t \in Tasks, NEW u, CallSwitch(t, u)
  PROVE  OnlyOf(t) /\ calls'[t] = CallWith("switch", "updating", u, Jobs("switch", u, u), <<>>, committed, FALSE)
<1> DEFINE d == [Idle EXCEPT !.op = "switch", !.pc = "updating", !.uid = u,
                             !.jobs = Jobs("switch", u, u), !.local = committed]
<1>1. calls' = [calls EXCEPT ![t] = d]
  BY Zenon DEF CallSwitch
<1>2. d = CallWith("switch", "updating", u, Jobs("switch", u, u), <<>>, committed, FALSE)
  BY NewSwitchIs, Zenon
<1> HIDE DEF d
<1>3. OnlyOf(t) /\ calls'[t] = d
  BY <1>1 DEF CallsTyped, OnlyOf
<1>. QED BY <1>2, <1>3, Zenon

(* A step of a closure leaves a call.                                      *)
LEMMA StepMade ==
  ASSUME CallsTyped, NEW t \in Tasks, DiskStep(t)
  PROVE  OnlyOf(t) /\ calls'[t] = AfterStep(calls[t])
<1> DEFINE c == calls[t]
           n == Tail(c.steps)
<1>1. calls' = [calls EXCEPT ![t].steps = n]
  BY Zenon DEF DiskStep
<1>2. IsCall(c)
  BY CallIs DEF CallsTyped
<1> HIDE DEF n
<1>3. OnlyOf(t) /\ calls'[t] = [c EXCEPT !.steps = n]
  BY <1>1 DEF CallsTyped, OnlyOf
<1> HIDE DEF c
<1>4. [c EXCEPT !.steps = n] = CallWith(c.op, c.pc, c.uid, c.jobs, n, c.local, c.stale)
  BY <1>2 DEF CallWith, IsCall
<1>. QED BY <1>3, <1>4, Zenon DEF AfterStep, n, c

(* The others, of which the one in the permit may have become stale.       *)
OthersOf(t, moved) ==
  /\ calls' = [s \in Tasks |-> calls'[s]]
  /\ \A s \in Tasks \ {t} :
       \/ calls'[s] = calls[s] /\ (moved => s # permit)
       \/ s = permit /\ calls'[s] = Staled(calls[s])

(* A call that a commit made stale is the call otherwise.                  *)
LEMMA StaledIs ==
  ASSUME NEW c \in CallSet
  PROVE  [c EXCEPT !.stale = TRUE] = Staled(c)
<1> DEFINE y == TRUE
<1>1. IsCall(c)
  BY CallIs
<1> HIDE DEF y
<1>2. [c EXCEPT !.stale = y] = CallWith(c.op, c.pc, c.uid, c.jobs, c.steps, c.local, y)
  BY <1>1 DEF CallWith, IsCall
<1>. QED BY <1>2, Zenon DEF Staled, y

(* What a switch that succeeds leaves.                                     *)
LEMMA SwitchOkIs ==
  ASSUME CallsTyped, NEW t \in Tasks, SwitchOk(t)
  PROVE  OthersOf(t, draft # None) /\ calls'[t] = Applied(calls[t])
<1> DEFINE c == calls[t]
           n == [c EXCEPT !.pc = "ready", !.local = Empty]
<1>1. calls' = [s \in Tasks |->
                  IF s = t THEN n
                  ELSE IF s = permit /\ draft # None THEN [calls[s] EXCEPT !.stale = TRUE]
                  ELSE calls[s]]
  BY Zenon DEF SwitchOk, ApplyAnd
<1>2. IsCall(c)
  BY CallIs DEF CallsTyped
<1>3. n = Applied(c)
  BY <1>2, AppliedCallIs, Zenon
<1> HIDE DEF n
<1>4. calls'[t] = n
  BY <1>1
<1>5. ASSUME NEW s \in Tasks \ {t}
      PROVE  \/ calls'[s] = calls[s] /\ (draft # None => s # permit)
             \/ s = permit /\ calls'[s] = Staled(calls[s])
  <2>1. calls[s] \in CallSet
    BY DEF CallsTyped
  <2>2. calls'[s] = IF s = permit /\ draft # None THEN [calls[s] EXCEPT !.stale = TRUE] ELSE calls[s]
    BY <1>1
  <2>. QED BY <2>1, <2>2, StaledIs, Zenon
<1>6. calls' = [s \in Tasks |-> calls'[s]]
  BY <1>1
<1>. QED BY <1>3, <1>4, <1>5, <1>6 DEF OthersOf

(* What a switch that is refused leaves.                                   *)
LEMMA SwitchRefusedIs ==
  ASSUME CallsTyped, NEW t \in Tasks, SwitchRefused(t)
  PROVE  \/ /\ calls[t].local.current = None /\ UNCHANGED committed
            /\ OnlyOf(t) /\ calls'[t] = Idle
         \/ /\ calls[t].local.current # None
            /\ committed' = PatchConfig(committed, calls[t].local.current)
            /\ OthersOf(t, TRUE) /\ calls'[t] = Restored(calls[t])
<1> DEFINE c == calls[t]
           prev == c.local.current
           n == [c EXCEPT !.op = "restore", !.pc = "ready", !.local = Empty]
<1>1. CASE prev = None
  <2>1. calls' = [calls EXCEPT ![t] = Idle] /\ UNCHANGED committed
    BY <1>1 DEF SwitchRefused
  <2>2. OnlyOf(t) /\ calls'[t] = Idle
    BY <2>1 DEF OnlyOf, CallsTyped
  <2>. QED BY <1>1, <2>1, <2>2
<1>2. CASE prev # None
  <2>1. /\ committed' = PatchConfig(committed, prev)
        /\ calls' = [s \in Tasks |->
                       IF s = t THEN n
                       ELSE IF s = permit THEN [calls[s] EXCEPT !.stale = TRUE]
                       ELSE calls[s]]
    BY <1>2, Zenon DEF SwitchRefused
  <2>2. IsCall(c)
    BY CallIs DEF CallsTyped
  <2>3. n = Restored(c)
    BY <2>2, RestoredCallIs, Zenon
  <2> HIDE DEF n
  <2>4. calls'[t] = n
    BY <2>1
  <2>5. ASSUME NEW s \in Tasks \ {t}
        PROVE  \/ calls'[s] = calls[s] /\ s # permit
               \/ s = permit /\ calls'[s] = Staled(calls[s])
    <3>1. calls[s] \in CallSet
      BY DEF CallsTyped
    <3>2. calls'[s] = IF s = permit THEN [calls[s] EXCEPT !.stale = TRUE] ELSE calls[s]
      BY <2>1
    <3>. QED BY <3>1, <3>2, StaledIs, Zenon
  <2>6. calls' = [s \in Tasks |-> calls'[s]]
    BY <2>1
  <2>7. OthersOf(t, TRUE)
    BY <2>5, <2>6 DEF OthersOf
  <2>. QED BY <1>2, <2>1, <2>3, <2>4, <2>7
<1>. QED BY <1>1, <1>2

-----------------------------------------------------------------------------
(* The calls that the commands make.                                       *)

(* The last job of a command.                                              *)
LastDo(op) == IF op \in {"import", "delete", "switch", "restore"} THEN "save" ELSE op

(* Of the jobs of a call, given the uids that someone wants deleted.       *)
JobOf(c, j, g) ==
  /\ j.do = "append" => c.op = "import"
  /\ j.do = "delete" => "delete" \in Ops /\ j.uid \in g
  /\ j.do = "patch" => c.op = "patch" /\ j.uid = c.uid
  /\ j.do = "reorder" => c.op = "reorder"
  /\ c.op = "import" => j.do \in {"append", "save"}
  /\ c.op \in {"switch", "restore"} => j.do = "save"

(* Of a call: idle calls are empty, others have a job, the last of which   *)
(* is the command's.                                                       *)
CallOf(c, g) ==
  /\ c.pc = "idle" => c = Idle
  /\ c.pc # "idle" => /\ c.op # "none" /\ c.uid \in Mains
                      /\ c.jobs # <<>> /\ Last(c.jobs).do = LastDo(c.op)
  /\ c.pc = "updating" => c.op = "switch"
  /\ c.op = "restore" => "switch" \in Ops
  /\ \A j \in Range(c.jobs) : JobOf(c, j, g)

(* Of a closure, given the list in memory as well.                         *)
ClosureOf(c, v, g) ==
  c.pc = "closure" =>
    /\ ~c.stale => c.local = Result(Head(c.jobs), v)
    /\ c.stale => "switch" \in Ops
    /\ \A s \in Range(c.steps) :
         /\ s[1] = "remove" => Head(c.jobs).do = "delete" /\ s[2] \in g \cup Companions
         /\ s[1] = "save" => Head(c.jobs).do # "append"
    /\ c.steps # <<>> =>
         Last(c.steps) = <<IF Head(c.jobs).do = "append" THEN "write" ELSE "save", Head(c.jobs).uid>>

(* A call of the commands.                                                 *)
WellCall(c, v, g) == c \in CallSet /\ CallOf(c, g) /\ ClosureOf(c, v, g)

(* The types, given one by one.                                            *)
Types ==
  /\ committed \in Value /\ disk \in Value /\ draft \in Value \cup {None}
  /\ files \subseteq Uids /\ permit \in Tasks \cup {None}
  /\ told \subseteq {"in", "patched", "current"} \X Mains
  /\ used \subseteq Uids /\ gone \subseteq Mains
  /\ count \in 0..MaxCalls /\ restarts \in 0..MaxRestarts

(* The permit is held by the task whose closure runs.                      *)
Held == \A t \in Tasks : calls[t].pc = "closure" <=> permit = t

(* What holds of every state, whatever may fail and whatever commands      *)
(* there are.                                                              *)
Base ==
  /\ Types /\ CallsTyped /\ Held
  /\ draft # None => "switch" \in Ops
  /\ \A t \in Tasks : WellCall(calls[t], committed, gone)

(* A record that is a job.                                                 *)
LEMMA JobIs ==
  ASSUME NEW do \in {"append", "delete", "patch", "update", "reorder", "save"}, NEW u \in Uids, NEW over \in Uids
  PROVE  [do |-> do, uid |-> u, over |-> over] \in Job
BY DEF Job

(* The jobs of a command.                                                  *)
LEMMA JobsAre ==
  ASSUME ProfilesAssumption, NEW op \in Ops, NEW u \in Mains, NEW over \in Mains
  PROVE  /\ Jobs(op, u, over) \in Seq(Job) /\ Jobs(op, u, over) # <<>>
         /\ Last(Jobs(op, u, over)).do = LastDo(op)
         /\ \A j \in Range(Jobs(op, u, over)) :
              /\ j.do = "append" => op = "import"
              /\ j.do = "delete" => op = "delete" /\ j.uid = u
              /\ j.do = "patch" => op = "patch" /\ j.uid = u
              /\ j.do = "reorder" => op = "reorder" /\ j.uid = u /\ j.over = over
              /\ op = "import" => j.do \in {"append", "save"}
              /\ op = "switch" => j.do = "save"
         /\ op = "import" => \E j \in Range(Jobs(op, u, over)) : j.do = "append" /\ j.uid = u
<1> DEFINE J(do, v) == [do |-> do, uid |-> v, over |-> over]
           q == Jobs(op, u, over)
<1>1. u \in Uids /\ over \in Uids /\ CompanionOf[u] \in Uids
  BY Names
<1>2. op \in {"import", "delete", "patch", "update", "reorder", "switch"}
  BY DEF ProfilesAssumption
<1>3. \A do \in {"append", "delete", "patch", "update", "reorder", "save"}, v \in Uids :
        J(do, v) \in Job /\ J(do, v).do = do /\ J(do, v).uid = v /\ J(do, v).over = over
  BY <1>1, JobIs
<1>4. CASE op = "import"
  <2> DEFINE a == J("append", CompanionOf[u])
             b == J("append", u)
             s == J("save", u)
             h == <<a, b>>
  <2>1. q = Append(h, s)
    <3>1. q = Append(<<[J("append", u) EXCEPT !.uid = CompanionOf[u]], b>>, s)
      BY <1>4 DEF Jobs
    <3>2. [J("append", u) EXCEPT !.uid = CompanionOf[u]] = a
      OBVIOUS
    <3>. QED BY <3>1, <3>2, Zenon
  <2>2. /\ a \in Job /\ a.do = "append" /\ b \in Job /\ b.do = "append" /\ b.uid = u
        /\ s \in Job /\ s.do = "save"
    BY <1>1, <1>3
  <2> HIDE DEF a, b, s, q
  <2>4. h \in Seq(Job) /\ Range(h) = {a, b}
    BY <2>2, TwoIs
  <2> HIDE DEF h
  <2>5. q \in Seq(Job) /\ Range(q) = Range(h) \cup {s}
    BY <2>1, <2>2, <2>4, AppendElems
  <2>6. q # <<>> /\ Len(q) = Len(h) + 1 /\ q[Len(h) + 1] = s
    BY <2>1, <2>2, <2>4, AppendProperties
  <2>3. q \in Seq(Job) /\ q # <<>> /\ Range(q) = {a, b, s} /\ Last(q) = s
    BY <2>4, <2>5, <2>6 DEF Last
  <2>. QED BY <1>4, <2>2, <2>3 DEF q, LastDo
<1>5. CASE op = "delete"
  <2> DEFINE a == J("delete", u)
             s == J("save", u)
  <2>1. q = <<a, s>>
    BY <1>5 DEF Jobs
  <2>2. a \in Job /\ a.do = "delete" /\ a.uid = u /\ s \in Job /\ s.do = "save"
    BY <1>1, <1>3
  <2> HIDE DEF a, s, q
  <2>3. q \in Seq(Job) /\ q # <<>> /\ Range(q) = {a, s} /\ Last(q) = s
    BY <2>1, <2>2, TwoIs
  <2>. QED BY <1>5, <2>2, <2>3 DEF q, LastDo
<1>6. CASE op = "switch"
  <2> DEFINE s == J("save", u)
  <2>1. q = <<s>>
    BY <1>6 DEF Jobs
  <2>2. s \in Job /\ s.do = "save"
    BY <1>1, <1>3
  <2> HIDE DEF s, q
  <2>3. q \in Seq(Job) /\ q # <<>> /\ Range(q) = {s} /\ Last(q) = s
    BY <2>1, <2>2, OneIs, Zenon
  <2>. QED BY <1>6, <2>2, <2>3 DEF q, LastDo
<1>7. CASE op \in {"patch", "update", "reorder"}
  <2> DEFINE a == J(op, u)
  <2>1. q = <<a>>
    BY <1>7 DEF Jobs
  <2>2. a \in Job /\ a.do = op /\ a.uid = u /\ a.over = over
    BY <1>1, <1>3, <1>7
  <2> HIDE DEF a, q
  <2>3. q \in Seq(Job) /\ q # <<>> /\ Range(q) = {a} /\ Last(q) = a
    BY <2>1, <2>2, OneIs, Zenon
  <2>. QED BY <1>7, <2>2, <2>3 DEF q, LastDo
<1>. QED BY <1>2, <1>4, <1>5, <1>6, <1>7

(* The steps of a closure.                                                 *)
LEMMA StepsAre ==
  ASSUME ProfilesAssumption, NEW job \in Job, Proper(job), NEW v
  PROVE  /\ Steps(job, v) \in Seq(Step)
         /\ \A s \in Range(Steps(job, v)) :
              /\ s[1] = "remove" => job.do = "delete" /\ s[2] \in {job.uid, CompanionOf[job.uid]}
              /\ s[1] = "save" => job.do # "append"
         /\ Steps(job, v) # <<>> =>
              Last(Steps(job, v)) = <<IF job.do = "append" THEN "write" ELSE "save", job.uid>>
         /\ Placed(job, v) => Steps(job, v) # <<>>
<1> DEFINE q == Steps(job, v)
<1>0. /\ job.do \in {"append", "delete", "patch", "update", "reorder", "save"} /\ job.uid \in Uids
      /\ \A w \in {"write", "remove", "save"}, u \in Uids : <<w, u>> \in Step
  BY DEF Job, Step
<1>1. CASE job.do = "append"
  <2> DEFINE a == <<"write", job.uid>>
  <2>1. q = <<a>> /\ a \in Step /\ a[1] = "write"
    BY <1>0, <1>1 DEF Steps
  <2> HIDE DEF a, q
  <2>2. q \in Seq(Step) /\ q # <<>> /\ Range(q) = {a} /\ Last(q) = a
    BY <2>1, OneIs, Zenon
  <2>. QED BY <1>1, <2>1, <2>2 DEF q, a
<1>2. CASE job.do = "delete"
  <2> DEFINE a == <<"remove", job.uid>>
             b == <<"remove", CompanionOf[job.uid]>>
             s == <<"save", job.uid>>
  <2>1. job.uid \in Mains /\ CompanionOf[job.uid] \in Uids
    BY <1>2, Names DEF Proper
  <2>2. q = <<a, b, s>>
    BY <1>2 DEF Steps
  <2>3. a \in Step /\ b \in Step /\ s \in Step /\ a[2] = job.uid /\ b[2] = CompanionOf[job.uid] /\ s[1] = "save"
    BY <1>0, <2>1
  <2> HIDE DEF a, b, s, q
  <2>4. q \in Seq(Step) /\ q # <<>> /\ Range(q) = {a, b, s} /\ Last(q) = s
    BY <2>2, <2>3, ThreeIs
  <2>. QED BY <1>2, <2>3, <2>4 DEF q, s
<1>3. CASE job.do = "update"
  <2> DEFINE a == <<"write", job.uid>>
             s == <<"save", job.uid>>
  <2>1. q = <<a, s>>
    BY <1>3 DEF Steps
  <2>2. a \in Step /\ s \in Step /\ a[1] = "write" /\ s[1] = "save"
    BY <1>0
  <2> HIDE DEF a, s, q
  <2>3. q \in Seq(Step) /\ q # <<>> /\ Range(q) = {a, s} /\ Last(q) = s
    BY <2>1, <2>2, TwoIs
  <2>. QED BY <1>3, <2>2, <2>3 DEF q, s
<1>4. CASE job.do = "reorder" /\ ~({job.uid, job.over} \subseteq Has(v))
  <2>1. q = <<>> /\ ~Placed(job, v)
    BY <1>4 DEF Steps, Placed
  <2> HIDE DEF q
  <2>2. q \in Seq(Step) /\ Len(q) = 0
    BY <2>1, EmptySeq
  <2>3. Range(q) = {q[j] : j \in 1..Len(q)}
    BY <2>2, RangeEquality
  <2>4. 1..Len(q) = {}
    BY <2>2
  <2>5. Range(q) = {}
    BY <2>3, <2>4
  <2>. QED BY <2>1, <2>2, <2>5 DEF q
<1>5. CASE job.do \in {"patch", "save"} \/ (job.do = "reorder" /\ {job.uid, job.over} \subseteq Has(v))
  <2> DEFINE s == <<"save", job.uid>>
  <2>1. q = <<s>>
    BY <1>5 DEF Steps
  <2>2. s \in Step /\ s[1] = "save"
    BY <1>0
  <2> HIDE DEF s, q
  <2>3. q \in Seq(Step) /\ q # <<>> /\ Range(q) = {s} /\ Last(q) = s
    BY <2>1, <2>2, OneIs, Zenon
  <2>. QED BY <1>5, <2>2, <2>3 DEF q, s
<1>. QED BY <1>0, <1>1, <1>2, <1>3, <1>4, <1>5

(* The next job of a call that has one.                                    *)
LEMMA HeadIs ==
  ASSUME ProfilesAssumption, NEW g, g \subseteq Mains, NEW c \in CallSet, CallOf(c, g), c.pc # "idle"
  PROVE  /\ c.jobs \in Seq(Job) /\ c.jobs # <<>>
         /\ Head(c.jobs) \in Job /\ Head(c.jobs) \in Range(c.jobs)
         /\ JobOf(c, Head(c.jobs), g) /\ Proper(Head(c.jobs))
<1>1. c.jobs \in Seq(Job) /\ c.jobs # <<>> /\ c.uid \in Mains
  BY CallIs DEF CallOf
<1>2. Head(c.jobs) \in Job /\ Head(c.jobs) \in Range(c.jobs)
  BY <1>1, TailIs
<1>3. JobOf(c, Head(c.jobs), g)
  BY <1>2 DEF CallOf
<1>. QED BY <1>1, <1>2, <1>3 DEF JobOf, Proper

(* Calls stay well.                                                        *)
LEMMA StillWell ==
  ASSUME NEW c, NEW v, NEW w, NEW g, NEW h, WellCall(c, v, g), g \subseteq h,
         c.pc = "closure" /\ ~c.stale => v = w
  PROVE  WellCall(c, w, h)
<1>1. CallOf(c, h)
  BY DEF WellCall, CallOf, JobOf
<1>2. ClosureOf(c, w, h)
  BY DEF WellCall, ClosureOf
<1>. QED BY <1>1, <1>2 DEF WellCall

(* No call is a call.                                                      *)
LEMMA IdleWell == ASSUME NEW v, NEW g PROVE WellCall(Idle, v, g) /\ Idle.pc = "idle" /\ Idle.op = "none"
<1> DEFINE q == <<>>
<1>1. Idle \in CallSet /\ Idle.pc = "idle" /\ Idle.op = "none" /\ Idle.jobs = q
  BY IdleIs DEF Idle
<1>2. q \in Seq(Job) /\ Len(q) = 0
  BY EmptySeq
<1> HIDE DEF q
<1>3. Range(q) = {q[j] : j \in 1..Len(q)}
  BY <1>2, RangeEquality
<1>4. 1..Len(q) = {}
  BY <1>2
<1>5. \A j \in Range(Idle.jobs) : JobOf(Idle, j, g)
  BY <1>1, <1>3, <1>4
<1>6. CallOf(Idle, g) /\ ClosureOf(Idle, v, g)
  BY <1>1, <1>5, Zenon DEF CallOf, ClosureOf
<1>. QED BY <1>1, <1>6 DEF WellCall

(* A call stays one when a job of it is done.                              *)
LEMMA NextWell ==
  ASSUME ProfilesAssumption, NEW c, NEW v, NEW w, NEW g, WellCall(c, v, g), c.pc # "idle", Len(c.jobs) # 1
  PROVE  /\ WellCall(NextJob(c), w, g) /\ NextJob(c).pc = "ready" /\ NextJob(c).op = c.op
         /\ NextJob(c).uid = c.uid /\ NextJob(c).jobs = Tail(c.jobs)
<1> DEFINE d == NextJob(c)
           z == <<>>
<1>1. c \in CallSet /\ c.jobs \in Seq(Job) /\ c.jobs # <<>> /\ c.op # "none" /\ c.uid \in Mains
  BY CallIs DEF WellCall, CallOf
<1>2. Tail(c.jobs) \in Seq(Job) /\ Tail(c.jobs) # <<>> /\ Last(Tail(c.jobs)) = Last(c.jobs)
      /\ Range(Tail(c.jobs)) \subseteq Range(c.jobs)
  BY <1>1, TailIs
<1>3. z \in Seq(Step)
  BY EmptySeq
<1> HIDE DEF z
<1>4. d = CallWith(c.op, "ready", c.uid, Tail(c.jobs), z, Empty, FALSE)
  BY DEF NextJob, z
<1> HIDE DEF d
<1>5. d \in CallSet
  BY <1>1, <1>2, <1>3, <1>4, CallIs, CallSetHas, EmptyIs
<1>6. d.op = c.op /\ d.pc = "ready" /\ d.uid = c.uid /\ d.jobs = Tail(c.jobs)
  BY <1>4 DEF CallWith
<1>7. CallOf(d, g)
  BY <1>1, <1>2, <1>6 DEF WellCall, CallOf, JobOf
<1>. QED BY <1>5, <1>6, <1>7 DEF WellCall, ClosureOf, d

(* A call stays one when its closure begins.                               *)
LEMMA ClosureWell ==
  ASSUME ProfilesAssumption, NEW c, NEW v \in Value, NEW g, g \subseteq Mains,
         WellCall(c, v, g), c.pc = "ready"
  PROVE  WellCall(InClosure(c, v), v, g) /\ InClosure(c, v).pc = "closure"
<1> DEFINE d == InClosure(c, v)
           job == Head(c.jobs)
<1>1. c \in CallSet /\ CallOf(c, g) /\ c.pc # "idle"
  BY DEF WellCall
<1>2. c.jobs \in Seq(Job) /\ c.jobs # <<>> /\ job \in Job /\ JobOf(c, job, g) /\ Proper(job)
  BY <1>1, HeadIs
<1>3. Result(job, v) \in Value
  BY <1>2, ResultIs
<1>4. /\ Steps(job, v) \in Seq(Step)
      /\ \A s \in Range(Steps(job, v)) :
           /\ s[1] = "remove" => job.do = "delete" /\ s[2] \in {job.uid, CompanionOf[job.uid]}
           /\ s[1] = "save" => job.do # "append"
      /\ Steps(job, v) # <<>> =>
           Last(Steps(job, v)) = <<IF job.do = "append" THEN "write" ELSE "save", job.uid>>
  BY <1>2, StepsAre
<1>5. d = CallWith(c.op, "closure", c.uid, c.jobs, Steps(job, v), Result(job, v), FALSE)
  BY DEF InClosure
<1> HIDE DEF d, job
<1>6. d \in CallSet
  BY <1>1, <1>2, <1>3, <1>4, <1>5, CallIs, CallSetHas
<1>7. /\ d.op = c.op /\ d.pc = "closure" /\ d.uid = c.uid /\ d.jobs = c.jobs
      /\ d.steps = Steps(job, v) /\ d.local = Result(job, v) /\ d.stale = FALSE
  BY <1>5 DEF CallWith
<1>8. CallOf(d, g)
  BY <1>1, <1>7 DEF CallOf, JobOf
<1>9. job.do = "delete" => job.uid \in g /\ CompanionOf[job.uid] \in Companions
  BY <1>2, Names DEF JobOf, Proper
<1>10. ClosureOf(d, v, g)
  BY <1>4, <1>7, <1>9 DEF ClosureOf, job
<1>. QED BY <1>6, <1>7, <1>8, <1>10 DEF WellCall, d

(* A call stays one when a step of its closure is done.                    *)
LEMMA AfterStepWell ==
  ASSUME NEW c, NEW v, NEW g, WellCall(c, v, g), c.pc = "closure", c.steps # <<>>
  PROVE  WellCall(AfterStep(c), v, g) /\ AfterStep(c).pc = "closure"
<1> DEFINE d == AfterStep(c)
<1>1. c \in CallSet /\ c.steps \in Seq(Step)
  BY CallIs DEF WellCall
<1>2. Tail(c.steps) \in Seq(Step) /\ Range(Tail(c.steps)) \subseteq Range(c.steps)
      /\ (Tail(c.steps) # <<>> => Last(Tail(c.steps)) = Last(c.steps))
  BY <1>1, TailIs
<1>3. d = CallWith(c.op, c.pc, c.uid, c.jobs, Tail(c.steps), c.local, c.stale)
  BY DEF AfterStep
<1> HIDE DEF d
<1>4. d \in CallSet
  BY <1>1, <1>2, <1>3, CallIs, CallSetHas
<1>5. /\ d.op = c.op /\ d.pc = "closure" /\ d.uid = c.uid /\ d.jobs = c.jobs
      /\ d.steps = Tail(c.steps) /\ d.local = c.local /\ d.stale = c.stale
  BY <1>3 DEF CallWith
<1>6. CallOf(d, g)
  BY <1>5 DEF WellCall, CallOf, JobOf
<1>7. ClosureOf(d, v, g)
  BY <1>2, <1>5 DEF WellCall, ClosureOf
<1>. QED BY <1>4, <1>5, <1>6, <1>7 DEF WellCall, d

(* A call stays one when a commit makes it stale.                          *)
LEMMA StaledWell ==
  ASSUME NEW c, NEW v, NEW w, NEW g, WellCall(c, v, g), c.pc = "closure", "switch" \in Ops
  PROVE  WellCall(Staled(c), w, g) /\ Staled(c).pc = "closure"
<1> DEFINE d == Staled(c)
<1>1. c \in CallSet
  BY DEF WellCall
<1>3. d = CallWith(c.op, c.pc, c.uid, c.jobs, c.steps, c.local, TRUE)
  BY DEF Staled
<1> HIDE DEF d
<1>4. d \in CallSet
  BY <1>1, <1>3, CallIs, CallSetHas
<1>5. /\ d.op = c.op /\ d.pc = "closure" /\ d.uid = c.uid /\ d.jobs = c.jobs
      /\ d.steps = c.steps /\ d.local = c.local /\ d.stale = TRUE
  BY <1>3 DEF CallWith
<1>6. CallOf(d, g)
  BY <1>5 DEF WellCall, CallOf, JobOf
<1>7. ClosureOf(d, w, g)
  BY <1>5 DEF WellCall, ClosureOf
<1>. QED BY <1>4, <1>5, <1>6, <1>7 DEF WellCall, d

(* A call stays one when its switch is applied.                            *)
LEMMA AppliedWell ==
  ASSUME NEW c, NEW v, NEW w, NEW g, WellCall(c, v, g), c.pc = "updating"
  PROVE  WellCall(Applied(c), w, g) /\ Applied(c).pc = "ready" /\ Applied(c).op = "switch"
         /\ Applied(c).uid = c.uid /\ Applied(c).jobs = c.jobs
<1> DEFINE d == Applied(c)
<1>1. c \in CallSet /\ c.op = "switch"
  BY DEF WellCall, CallOf
<1>3. d = CallWith(c.op, "ready", c.uid, c.jobs, c.steps, Empty, c.stale)
  BY DEF Applied
<1> HIDE DEF d
<1>4. d \in CallSet
  BY <1>1, <1>3, CallIs, CallSetHas, EmptyIs
<1>5. d.op = c.op /\ d.pc = "ready" /\ d.uid = c.uid /\ d.jobs = c.jobs
  BY <1>3 DEF CallWith
<1>6. CallOf(d, g)
  BY <1>5 DEF WellCall, CallOf, JobOf
<1>. QED BY <1>1, <1>4, <1>5, <1>6 DEF WellCall, ClosureOf, d

(* A call stays one when its switch goes back.                             *)
LEMMA RestoredWell ==
  ASSUME ProfilesAssumption, NEW c, NEW v, NEW w, NEW g, g \subseteq Mains, WellCall(c, v, g), c.pc = "updating"
  PROVE  WellCall(Restored(c), w, g) /\ Restored(c).pc = "ready" /\ Restored(c).op = "restore"
         /\ Restored(c).jobs = c.jobs
<1> DEFINE d == Restored(c)
<1>1. /\ c \in CallSet /\ c.op = "switch" /\ c.op \in Ops /\ c.uid \in Mains
      /\ c.jobs # <<>> /\ Last(c.jobs).do = "save"
  BY CallIs DEF WellCall, CallOf, LastDo
<1>3. d = CallWith("restore", "ready", c.uid, c.jobs, c.steps, Empty, c.stale)
  BY DEF Restored
<1> HIDE DEF d
<1>4. d \in CallSet
  BY <1>1, <1>3, CallIs, CallSetHas, EmptyIs
<1>5. d.op = "restore" /\ d.pc = "ready" /\ d.uid = c.uid /\ d.jobs = c.jobs
  BY <1>3 DEF CallWith
<1>6. \A j \in Range(c.jobs) : JobOf(d, j, g)
  BY <1>1, <1>5 DEF WellCall, CallOf, JobOf
<1>7. CallOf(d, g)
  BY <1>1, <1>5, <1>6 DEF CallOf, LastDo
<1>. QED BY <1>4, <1>5, <1>7 DEF WellCall, ClosureOf, d

(* The call of a command has none of its jobs done.                        *)
LEMMA FreshWell ==
  ASSUME ProfilesAssumption, NEW op \in Ops, NEW p \in {"ready", "updating"}, NEW u \in Mains, NEW over \in Mains,
         NEW l \in Value, NEW v, NEW g, op = "delete" => u \in g, p = "updating" => op = "switch"
  PROVE  WellCall(CallWith(op, p, u, Jobs(op, u, over), <<>>, l, FALSE), v, g)
<1> DEFINE d == CallWith(op, p, u, Jobs(op, u, over), <<>>, l, FALSE)
           q == Jobs(op, u, over)
           z == <<>>
<1>1. /\ q \in Seq(Job) /\ q # <<>> /\ Last(q).do = LastDo(op)
      /\ \A j \in Range(q) :
              /\ j.do = "append" => op = "import"
              /\ j.do = "delete" => op = "delete" /\ j.uid = u
              /\ j.do = "patch" => op = "patch" /\ j.uid = u
              /\ j.do = "reorder" => op = "reorder"
              /\ op = "import" => j.do \in {"append", "save"}
              /\ op = "switch" => j.do = "save"
  BY JobsAre
<1>2. z \in Seq(Step)
  BY EmptySeq
<1>3. op # "none" /\ op # "restore"
  BY DEF ProfilesAssumption
<1>4. d = CallWith(op, p, u, q, z, l, FALSE)
  OBVIOUS
<1> HIDE DEF d, q, z
<1>5. d \in CallSet
  BY <1>1, <1>2, <1>4, CallSetHas
<1>6. d.op = op /\ d.pc = p /\ d.uid = u /\ d.jobs = q
  BY <1>4 DEF CallWith
<1>7. \A j \in Range(q) : JobOf(d, j, g)
  BY <1>1, <1>6 DEF JobOf
<1>8. CallOf(d, g)
  BY <1>1, <1>3, <1>6, <1>7 DEF CallOf
<1>. QED BY <1>5, <1>6, <1>8 DEF WellCall, ClosureOf, d

-----------------------------------------------------------------------------
(* Every step keeps the types and the shape of the calls.                  *)

(* The list of the start.                                                  *)
LEMMA InitIs ==
  ASSUME ProfilesAssumption, Init
  PROVE  /\ committed \in Value /\ Range(Listed) \subseteq Has(committed) /\ Range(Listed) \subseteq Mains
         /\ committed.current = IF Listed = <<>> THEN None ELSE Head(Listed)
         /\ Listed # <<>> => Head(Listed) \in Range(Listed)
<1> DEFINE n == Len(Listed)
           e(i) == IF i % 2 = 1 THEN CompanionOf[Listed[(i + 1) \div 2]] ELSE Listed[i \div 2]
           q == [i \in 1..2 * n |-> e(i)]
<1>1. Listed \in Seq(Mains) /\ n \in Nat
  BY LenProperties DEF ProfilesAssumption
<1>2. \A i \in 1..n : Listed[i] \in Mains
  BY <1>1, ElementOfSeq
<1>3. ASSUME NEW i \in 1..2 * n PROVE e(i) \in Uids
  <2>1. CASE i % 2 = 1
    <3>1. (i + 1) \div 2 \in 1..n
      BY <1>1, <2>1
    <3>. QED BY <1>2, <2>1, <3>1, Names
  <2>2. CASE i % 2 # 1
    <3>1. i \div 2 \in 1..n
      BY <1>1, <2>2
    <3>. QED BY <1>2, <2>2, <3>1, Names
  <2>. QED BY <2>1, <2>2
<1>4. 2 * n \in Nat
  BY <1>1
<1>5. q \in Seq(Uids) /\ DOMAIN q = 1..2 * n
  BY <1>3, <1>4
<1>6. ASSUME NEW i \in 1..n PROVE Listed[i] \in Range(q)
  <2>1. 2 * i \in 1..2 * n /\ (2 * i) % 2 = 0 /\ (2 * i) \div 2 = i
    BY <1>1
  <2>2. q[2 * i] = Listed[i]
    BY <2>1
  <2>. QED BY <1>5, <2>1, <2>2 DEF Range
<1>7. Range(Listed) = {Listed[i] : i \in 1..n}
  BY <1>1, RangeEquality
<1>8. committed = [items |-> q, current |-> IF Listed = <<>> THEN None ELSE Head(Listed), patched |-> {}]
  BY DEF Init
<1> HIDE DEF q
<1>9. Listed # <<>> => Head(Listed) \in Range(Listed) /\ Head(Listed) \in Mains
  BY <1>1, TailIs
<1>10. committed \in Value /\ committed.items = q
  BY <1>5, <1>8, <1>9 DEF Value
<1>. QED BY <1>2, <1>6, <1>7, <1>8, <1>9, <1>10 DEF Has

(* Base holds at the start.                                                *)
LEMMA BaseInit ==
  ASSUME ProfilesAssumption, Init
  PROVE  Base
<1>1. /\ committed \in Value /\ Has(committed) \subseteq Uids /\ Range(Listed) \subseteq Mains
      /\ committed.current \in Mains \cup {None}
  BY InitIs, ValueIs
<1>2. /\ draft = None /\ disk = committed /\ files = Has(committed) /\ permit = None
      /\ calls = [t \in Tasks |-> Idle] /\ used = Has(committed) /\ gone = {} /\ count = 0 /\ restarts = 0
      /\ told = {<<"in", u>> : u \in Range(Listed)} \cup {<<"current", u>> : u \in {committed.current} \ {None}}
  BY DEF Init
<1>3. told \subseteq {"in", "patched", "current"} \X Mains
  BY <1>1, <1>2
<1>4. count \in 0..MaxCalls /\ restarts \in 0..MaxRestarts
  BY <1>2 DEF ProfilesAssumption
<1>5. Types
  BY <1>1, <1>2, <1>3, <1>4 DEF Types
<1>6. CallsTyped /\ \A t \in Tasks : WellCall(calls[t], committed, gone) /\ calls[t].pc = "idle"
  BY <1>2, IdleIs, IdleWell DEF CallsTyped
<1>7. Held
  BY <1>2, <1>6, Names DEF Held
<1>. QED BY <1>2, <1>5, <1>6, <1>7 DEF Base

(* One call moves: the others stay as they are.                            *)
LEMMA OneMoves ==
  ASSUME Base, NEW t \in Tasks, OnlyOf(t), gone \subseteq gone', WellCall(calls'[t], committed', gone'),
         committed' = committed \/ permit = t
  PROVE  CallsTyped' /\ \A s \in Tasks : WellCall(calls'[s], committed', gone')
<1>1. ASSUME NEW s \in Tasks PROVE WellCall(calls'[s], committed', gone')
  <2>1. CASE s = t
    BY <2>1
  <2>2. CASE s # t
    <3>1. calls'[s] = calls[s] /\ WellCall(calls[s], committed, gone)
      BY <2>2 DEF OnlyOf, Base
    <3>2. calls[s].pc = "closure" => committed' = committed
      BY <2>2 DEF Base, Held
    <3>. QED BY <3>1, <3>2, StillWell
  <2>. QED BY <2>1, <2>2
<1>2. \A s \in Tasks : calls'[s] \in CallSet
  BY <1>1 DEF WellCall
<1>3. CallsTyped'
  BY <1>2 DEF OnlyOf, CallsTyped
<1>. QED BY <1>1, <1>3

(* One call moves and the list in memory changes: the others' closures are *)
(* stale.                                                                  *)
LEMMA OthersMove ==
  ASSUME Base, NEW t \in Tasks, NEW moved \in BOOLEAN, OthersOf(t, moved), gone' = gone,
         WellCall(calls'[t], committed', gone'),
         "switch" \in Ops, ~moved => committed' = committed
  PROVE  /\ CallsTyped' /\ \A s \in Tasks : WellCall(calls'[s], committed', gone')
         /\ \A s \in Tasks \ {t} : calls'[s].pc = calls[s].pc
<1>1. ASSUME NEW s \in Tasks \ {t}
      PROVE  WellCall(calls'[s], committed', gone') /\ calls'[s].pc = calls[s].pc
  <2>1. WellCall(calls[s], committed, gone) /\ (calls[s].pc = "closure" <=> permit = s)
    BY DEF Base, Held
  <2>2. CASE calls'[s] = calls[s] /\ (moved => s # permit)
    BY <2>1, <2>2, StillWell
  <2>3. CASE s = permit /\ calls'[s] = Staled(calls[s])
    BY <2>1, <2>3, StaledWell
  <2>. QED BY <2>2, <2>3 DEF OthersOf
<1>2. \A s \in Tasks : calls'[s] \in CallSet
  BY <1>1 DEF WellCall
<1>3. CallsTyped'
  BY <1>2 DEF OthersOf, CallsTyped
<1>. QED BY <1>1, <1>3

(* Starting a command.                                                     *)
LEMMA CalledIs ==
  ASSUME ProfilesAssumption, Types, NEW op, NEW u \in Mains, NEW over, Called(op, u, over)
  PROVE  /\ op \in Ops /\ count' \in 0..MaxCalls /\ used' \subseteq Uids
         /\ gone \subseteq gone' /\ gone' \subseteq Mains /\ (op = "delete" => u \in gone')
<1>1. u \in Uids /\ CompanionOf[u] \in Uids /\ MaxCalls \in Nat
  BY Names DEF ProfilesAssumption
<1>2. op \in Ops /\ count < MaxCalls /\ count' = count + 1
  BY DEF Called
<1>3. count' \in 0..MaxCalls
  BY <1>1, <1>2 DEF Types
<1>4. used' \in {used \cup {u, CompanionOf[u]}, used}
  BY DEF Called
<1>5. used' \subseteq Uids
  BY <1>1, <1>4 DEF Types
<1>6. gone' = IF op = "delete" THEN gone \cup {u} ELSE gone
  BY DEF Called
<1>. QED BY <1>2, <1>3, <1>5, <1>6 DEF Types

(* Base is kept when a command starts.                                     *)
LEMMA BaseCall ==
  ASSUME ProfilesAssumption, Base, NEW t \in Tasks, NEW op, NEW u \in Mains, NEW over \in Mains, Call(t, op, u, over)
  PROVE  Base'
<1>1. /\ Types /\ CallsTyped /\ Called(op, u, over) /\ calls[t] = Idle
      /\ UNCHANGED <<committed, draft, disk, files, permit, told, restarts>>
  BY DEF Base, Call
<1>2. /\ op \in Ops /\ count' \in 0..MaxCalls /\ used' \subseteq Uids
      /\ gone \subseteq gone' /\ gone' \subseteq Mains /\ (op = "delete" => u \in gone')
  BY <1>1, CalledIs
<1> DEFINE d == CallWith(op, "ready", u, Jobs(op, u, over), <<>>, Empty, FALSE)
<1>3. OnlyOf(t) /\ calls'[t] = d
  BY <1>1, CallMade
<1>4. WellCall(d, committed', gone')
  BY <1>2, FreshWell, EmptyIs
<1>5. d.pc = "ready"
  BY DEF CallWith
<1> HIDE DEF d
<1>6. CallsTyped' /\ \A s \in Tasks : WellCall(calls'[s], committed', gone')
  BY <1>1, <1>2, <1>3, <1>4, OneMoves
<1>7. Types'
  BY <1>1, <1>2 DEF Types
<1>8. Held'
  BY <1>1, <1>3, <1>5, IdleWell DEF Base, Held, OnlyOf
<1>. QED BY <1>1, <1>6, <1>7, <1>8 DEF Base

(* Base is kept when a switch starts.                                      *)
LEMMA BaseCallSwitch ==
  ASSUME ProfilesAssumption, Base, NEW t \in Tasks, NEW u \in Mains, CallSwitch(t, u)
  PROVE  Base'
<1>1. /\ Types /\ CallsTyped /\ Called("switch", u, u) /\ calls[t] = Idle
      /\ draft' = PatchConfig(Latest, u)
      /\ UNCHANGED <<committed, disk, files, permit, told, restarts>>
  BY DEF Base, CallSwitch
<1>2. /\ "switch" \in Ops /\ count' \in 0..MaxCalls /\ used' \subseteq Uids
      /\ gone \subseteq gone' /\ gone' \subseteq Mains
  BY <1>1, CalledIs
<1> DEFINE d == CallWith("switch", "updating", u, Jobs("switch", u, u), <<>>, committed, FALSE)
<1>3. OnlyOf(t) /\ calls'[t] = d
  BY <1>1, SwitchMade
<1>4. WellCall(d, committed', gone')
  BY <1>1, <1>2, FreshWell DEF Types
<1>5. d.pc = "updating"
  BY DEF CallWith
<1> HIDE DEF d
<1>6. CallsTyped' /\ \A s \in Tasks : WellCall(calls'[s], committed', gone')
  BY <1>1, <1>2, <1>3, <1>4, OneMoves
<1>7. Latest \in Value
  BY <1>1 DEF Types, Latest
<1>8. draft' \in Value
  BY <1>1, <1>7, PatchConfigIs
<1>9. Types'
  BY <1>1, <1>2, <1>8 DEF Types
<1>10. Held'
  BY <1>1, <1>3, <1>5, IdleWell DEF Base, Held, OnlyOf
<1>. QED BY <1>2, <1>6, <1>9, <1>10 DEF Base

(* Advance leaves the others alone and its own call outside the closure.   *)
LEMMA TellTyped ==
  ASSUME NEW c, c.uid \in Mains, told \subseteq {"in", "patched", "current"} \X Mains
  PROVE  Tell(c) \subseteq {"in", "patched", "current"} \X Mains
<1>1. Fact(c.op, c.uid) \in {"in", "patched", "current"} \X Mains
  BY DEF Fact
<1>. QED BY <1>1 DEF Tell

(* Base is kept when a modification ends.                                  *)
LEMMA BaseAdvance ==
  ASSUME ProfilesAssumption, Base, NEW t \in Tasks, NEW ok \in BOOLEAN, calls[t].pc # "idle",
         Advance(t, ok), gone' = gone,
         permit \in {None, t}, committed' = committed \/ permit = t
  PROVE  /\ CallsTyped' /\ \A s \in Tasks : WellCall(calls'[s], committed', gone')
         /\ Held' /\ permit' = None /\ told' \subseteq {"in", "patched", "current"} \X Mains
<1> DEFINE c == calls[t]
<1>1. /\ WellCall(c, committed, gone) /\ c.pc # "idle" /\ c.uid \in Mains /\ CallsTyped /\ Types
  BY DEF Base, WellCall, CallOf
<1>2. /\ permit' = None /\ OnlyOf(t)
      /\ \/ calls'[t] = Idle
         \/ calls'[t] = NextJob(c) /\ Len(c.jobs) # 1
      /\ told' \in {told, Tell(c)}
  BY <1>1, AdvanceIs
<1>3. WellCall(calls'[t], committed', gone') /\ calls'[t].pc # "closure"
  <2>1. CASE calls'[t] = Idle
    BY <2>1, IdleWell
  <2>2. CASE calls'[t] = NextJob(c) /\ Len(c.jobs) # 1
    <3> HIDE DEF c
    <3>1. WellCall(NextJob(c), committed', gone) /\ NextJob(c).pc = "ready"
      BY <1>1, <2>2, NextWell
    <3>. QED BY <2>2, <3>1
  <2>3. calls'[t] = Idle \/ (calls'[t] = NextJob(c) /\ Len(c.jobs) # 1)
    BY <1>2, Zenon
  <2>. QED BY <2>1, <2>2, <2>3, Zenon
<1>4. CallsTyped' /\ \A s \in Tasks : WellCall(calls'[s], committed', gone')
  BY <1>2, <1>3, OneMoves
<1>5. told' \subseteq {"in", "patched", "current"} \X Mains
  BY <1>1, <1>2, TellTyped DEF Types
<1>6. \A s \in Tasks \ {t} : calls'[s].pc # "closure"
  BY <1>2, Names DEF Base, Held, OnlyOf
<1>7. Held'
  BY <1>2, <1>3, <1>6, Names DEF Held
<1>. QED BY <1>2, <1>4, <1>5, <1>7

(* Base is kept when a closure begins.                                     *)
LEMMA BaseBegin ==
  ASSUME ProfilesAssumption, Base, NEW t \in Tasks, Begin(t)
  PROVE  Base'
<1>1. /\ calls[t].pc = "ready" /\ permit = None /\ (Modify(t) \/ Advance(t, FALSE))
      /\ UNCHANGED <<committed, draft, disk, files, used, gone, count, restarts>>
  BY DEF Begin
<1>2. Types /\ CallsTyped /\ WellCall(calls[t], committed, gone) /\ committed \in Value /\ gone \subseteq Mains
  BY DEF Base, Types
<1>3. CASE Advance(t, FALSE)
  <2>1. /\ CallsTyped' /\ \A s \in Tasks : WellCall(calls'[s], committed', gone')
        /\ Held' /\ permit' = None /\ told' \subseteq {"in", "patched", "current"} \X Mains
    BY <1>1, <1>3, BaseAdvance
  <2>2. Types'
    BY <1>1, <1>2, <2>1 DEF Types
  <2>. QED BY <1>1, <2>1, <2>2 DEF Base
<1>4. CASE Modify(t)
  <2>1. permit' = t /\ told' = told /\ OnlyOf(t) /\ calls'[t] = InClosure(calls[t], committed)
    BY <1>2, <1>4, ModifyIs
  <2>2. WellCall(calls'[t], committed, gone) /\ calls'[t].pc = "closure"
    BY <1>1, <1>2, <2>1, ClosureWell
  <2>3. CallsTyped' /\ \A s \in Tasks : WellCall(calls'[s], committed', gone')
    BY <1>1, <2>1, <2>2, OneMoves
  <2>4. Types'
    BY <1>1, <1>2, <2>1 DEF Types
  <2>5. \A s \in Tasks \ {t} : calls'[s].pc # "closure"
    BY <1>1, <2>1, Names DEF Base, Held, OnlyOf
  <2>6. Held'
    BY <2>1, <2>2, <2>5 DEF Held
  <2>. QED BY <1>1, <2>3, <2>4, <2>6 DEF Base
<1>. QED BY <1>1, <1>3, <1>4

(* The steps of a closure are typed.                                       *)
LEMMA StepIs ==
  ASSUME NEW c \in CallSet, c.steps # <<>>
  PROVE  Head(c.steps) \in Step /\ Head(c.steps)[1] \in {"write", "remove", "save"} /\ Head(c.steps)[2] \in Uids
         /\ Head(c.steps) \in Range(c.steps)
<1>1. Head(c.steps) \in Step /\ Head(c.steps) \in Range(c.steps)
  BY CallIs, TailIs
<1>. QED BY <1>1 DEF Step

(* Base is kept when a closure does a step.                                *)
LEMMA BaseDiskStep ==
  ASSUME ProfilesAssumption, Base, NEW t \in Tasks, DiskStep(t)
  PROVE  Base'
<1> DEFINE c == calls[t]
           step == Head(c.steps)
<1>1. /\ c.pc = "closure" /\ c.steps # <<>>
      /\ UNCHANGED <<committed, draft, permit, told, used, gone, count, restarts>>
      /\ CASE step[1] = "write" -> files' = files \cup {step[2]} /\ UNCHANGED disk
           [] step[1] = "remove" -> files' = files \ {step[2]} /\ UNCHANGED disk
           [] step[1] = "save" -> disk' = c.local /\ UNCHANGED files
  BY DEF DiskStep
<1>2. Types /\ CallsTyped /\ WellCall(c, committed, gone) /\ permit = t /\ c \in CallSet /\ c.local \in Value
  BY <1>1, CallIs DEF Base, Held, WellCall
<1>3. step[1] \in {"write", "remove", "save"} /\ step[2] \in Uids
  BY <1>1, <1>2, StepIs
<1>4. files' \subseteq Uids /\ disk' \in Value
  <2>1. CASE step[1] = "write"
    BY <1>1, <1>2, <1>3, <2>1 DEF Types
  <2>2. CASE step[1] = "remove"
    BY <1>1, <1>2, <1>3, <2>2 DEF Types
  <2>3. CASE step[1] = "save"
    BY <1>1, <1>2, <1>3, <2>3 DEF Types
  <2>. QED BY <1>3, <2>1, <2>2, <2>3
<1>5. Types'
  BY <1>1, <1>2, <1>4 DEF Types
<1>6. OnlyOf(t) /\ calls'[t] = AfterStep(c)
  BY <1>2, StepMade
<1>7. WellCall(calls'[t], committed, gone) /\ calls'[t].pc = "closure"
  BY <1>1, <1>2, <1>6, AfterStepWell
<1>8. CallsTyped' /\ \A s \in Tasks : WellCall(calls'[s], committed', gone')
  BY <1>1, <1>6, <1>7, OneMoves
<1>9. Held'
  BY <1>1, <1>6, <1>7 DEF Base, Held, OnlyOf
<1>. QED BY <1>1, <1>5, <1>8, <1>9 DEF Base

(* Base is kept when a closure fails.                                      *)
LEMMA BaseFailStep ==
  ASSUME ProfilesAssumption, Base, NEW t \in Tasks, FailStep(t)
  PROVE  Base'
<1>1. /\ calls[t].pc = "closure" /\ Advance(t, FALSE)
      /\ UNCHANGED <<committed, draft, disk, files, used, gone, count, restarts>>
  BY DEF FailStep
<1>2. Types /\ permit = t
  BY <1>1 DEF Base, Held
<1>3. /\ CallsTyped' /\ \A s \in Tasks : WellCall(calls'[s], committed', gone')
      /\ Held' /\ permit' = None /\ told' \subseteq {"in", "patched", "current"} \X Mains
  BY <1>1, <1>2, BaseAdvance
<1>4. Types'
  BY <1>1, <1>2, <1>3 DEF Types
<1>. QED BY <1>1, <1>3, <1>4 DEF Base

(* Base is kept when a closure ends.                                       *)
LEMMA BaseCommit ==
  ASSUME ProfilesAssumption, Base, NEW t \in Tasks, Commit(t)
  PROVE  Base'
<1>1. /\ calls[t].pc = "closure" /\ Advance(t, ~calls[t].stale)
      /\ committed' = IF calls[t].stale THEN committed ELSE calls[t].local
      /\ UNCHANGED <<draft, disk, files, used, gone, count, restarts>>
  BY DEF Commit
<1>2. Types /\ permit = t /\ calls[t].local \in Value
  BY <1>1, CallIs DEF Base, Held, CallsTyped
<1> DEFINE ok == ~calls[t].stale
<1>6. ok \in BOOLEAN /\ Advance(t, ok)
  BY <1>1
<1> HIDE DEF ok
<1>3. /\ CallsTyped' /\ \A s \in Tasks : WellCall(calls'[s], committed', gone')
      /\ Held' /\ permit' = None /\ told' \subseteq {"in", "patched", "current"} \X Mains
  BY <1>1, <1>2, <1>6, BaseAdvance
<1>4. committed' \in Value
  BY <1>1, <1>2 DEF Types
<1>5. Types'
  BY <1>1, <1>2, <1>3, <1>4 DEF Types
<1>. QED BY <1>1, <1>3, <1>5 DEF Base

(* Base is kept when a switch succeeds.                                    *)
LEMMA BaseSwitchOk ==
  ASSUME ProfilesAssumption, Base, NEW t \in Tasks, SwitchOk(t)
  PROVE  Base'
<1>1. /\ calls[t].pc = "updating" /\ committed' = Latest /\ draft' = None
      /\ UNCHANGED <<disk, files, permit, told, used, gone, count, restarts>>
  BY DEF SwitchOk, ApplyAnd
<1>2. Types /\ CallsTyped /\ WellCall(calls[t], committed, gone) /\ calls[t] \in CallSet /\ calls[t].op = "switch"
  BY <1>1 DEF Base, WellCall, CallOf
<1>3. "switch" \in Ops
  BY <1>2, CallIs
<1>4. OthersOf(t, draft # None) /\ calls'[t] = Applied(calls[t])
  BY <1>2, SwitchOkIs
<1>5. WellCall(calls'[t], committed', gone') /\ calls'[t].pc = "ready"
  BY <1>1, <1>2, <1>4, AppliedWell
<1>6. ~(draft # None) => committed' = committed
  BY <1>1 DEF Latest
<1>7. /\ CallsTyped' /\ \A s \in Tasks : WellCall(calls'[s], committed', gone')
      /\ \A s \in Tasks \ {t} : calls'[s].pc = calls[s].pc
  BY <1>1, <1>3, <1>4, <1>5, <1>6, OthersMove
<1>8. committed' \in Value
  BY <1>1, <1>2 DEF Types, Latest
<1>9. Types'
  BY <1>1, <1>2, <1>8 DEF Types
<1>10. Held'
  BY <1>1, <1>5, <1>7 DEF Base, Held
<1>. QED BY <1>1, <1>7, <1>9, <1>10 DEF Base

(* Base is kept when a switch is refused.                                  *)
LEMMA BaseSwitchRefused ==
  ASSUME ProfilesAssumption, Base, NEW t \in Tasks, SwitchRefused(t)
  PROVE  Base'
<1> DEFINE prev == calls[t].local.current
<1>1. /\ calls[t].pc = "updating" /\ draft' = None
      /\ UNCHANGED <<disk, files, permit, told, used, gone, count, restarts>>
  BY DEF SwitchRefused
<1>2. /\ Types /\ CallsTyped /\ WellCall(calls[t], committed, gone) /\ calls[t] \in CallSet
      /\ calls[t].op = "switch" /\ gone \subseteq Mains
  BY <1>1 DEF Base, WellCall, CallOf, Types
<1>3. "switch" \in Ops /\ prev \in Mains \cup {None}
  BY <1>2, CallIs, ValueIs
<1>4. CASE /\ prev = None /\ UNCHANGED committed
           /\ OnlyOf(t) /\ calls'[t] = Idle
  <2>1. CallsTyped' /\ \A s \in Tasks : WellCall(calls'[s], committed', gone')
    BY <1>1, <1>4, IdleWell, OneMoves
  <2>2. Types'
    BY <1>1, <1>2, <1>4 DEF Types
  <2>3. Held'
    BY <1>1, <1>4, IdleWell DEF Base, Held, OnlyOf
  <2>. QED BY <1>1, <2>1, <2>2, <2>3 DEF Base
<1>5. CASE /\ prev # None /\ committed' = PatchConfig(committed, prev)
           /\ OthersOf(t, TRUE) /\ calls'[t] = Restored(calls[t])
  <2>1. WellCall(calls'[t], committed', gone') /\ calls'[t].pc = "ready"
    BY <1>1, <1>2, <1>5, RestoredWell
  <2>2. /\ CallsTyped' /\ \A s \in Tasks : WellCall(calls'[s], committed', gone')
        /\ \A s \in Tasks \ {t} : calls'[s].pc = calls[s].pc
    BY <1>1, <1>3, <1>5, <2>1, OthersMove
  <2>3. committed' \in Value
    BY <1>2, <1>3, <1>5, PatchConfigIs DEF Types
  <2>4. Types'
    BY <1>1, <1>2, <2>3 DEF Types
  <2>5. Held'
    BY <1>1, <2>1, <2>2 DEF Base, Held
  <2>. QED BY <1>1, <2>2, <2>4, <2>5 DEF Base
<1>. QED BY <1>2, <1>4, <1>5, SwitchRefusedIs

(* Base is kept by a restart.                                              *)
LEMMA BaseBoot ==
  ASSUME ProfilesAssumption, Base, NEW image \in Value, Boot(image)
  PROVE  Base'
<1>1. /\ restarts < MaxRestarts /\ restarts' = restarts + 1
      /\ committed' = image /\ disk' = image /\ draft' = None /\ files' = files \cap Has(image)
      /\ permit' = None /\ calls' = [t \in Tasks |-> Idle] /\ UNCHANGED <<told, used, gone, count>>
  BY DEF Boot
<1>2. restarts' \in 0..MaxRestarts
  BY <1>1 DEF Base, Types, ProfilesAssumption
<1>3. Types'
  BY <1>1, <1>2 DEF Base, Types
<1>4. CallsTyped' /\ \A t \in Tasks : WellCall(calls'[t], committed', gone') /\ calls'[t].pc = "idle"
  BY <1>1, IdleIs, IdleWell DEF CallsTyped
<1>5. Held'
  BY <1>1, <1>4, Names DEF Held
<1>. QED BY <1>1, <1>3, <1>4, <1>5 DEF Base

(* What a restart reads is a list.                                         *)
LEMMA ImagesTyped == ASSUME Base PROVE disk \in Value /\ Latest \in Value
BY DEF Base, Types, Latest

(* Base is kept by every step.                                             *)
LEMMA BaseStep ==
  ASSUME ProfilesAssumption, Base, [Next]_vars
  PROVE  Base'
<1>1. CASE \E t \in Tasks, u \in Mains, op \in Ops, over \in Mains : Call(t, op, u, over)
  BY <1>1, BaseCall
<1>2. CASE \E t \in Tasks, u \in Mains : CallSwitch(t, u)
  BY <1>2, BaseCallSwitch
<1>3. CASE \E t \in Tasks : Serve(t)
  BY <1>3, BaseBegin, BaseDiskStep, BaseFailStep, BaseCommit, BaseSwitchOk, BaseSwitchRefused DEF Serve
<1>4. CASE Crash \/ Quit
  BY <1>4, BaseBoot, ImagesTyped DEF Crash, Quit
<1>5. CASE UNCHANGED vars
  BY <1>5 DEF vars, Base, Types, CallsTyped, Held
<1>. QED BY <1>1, <1>2, <1>3, <1>4, <1>5 DEF Next

(* Whatever commands run, whatever fails and whenever the process dies:    *)
(* the calls, the closures and the permit are as the container makes them. *)
THEOREM ProfilesBase == Spec => []Base
<1>1. Init => Base
  BY ProfilesAssumption, BaseInit
<1>2. Base /\ [Next]_vars => Base'
  BY ProfilesAssumption, BaseStep
<1>. QED BY <1>1, <1>2, PTL DEF Spec

(* Every reachable state of the profile list, its file and its calls has   *)
(* its type.                                                               *)
THEOREM ProfilesType == Spec => []TypeOK
<1>1. ASSUME Base PROVE TypeOK
  <2>1. ASSUME NEW t \in Tasks
        PROVE  /\ calls[t].pc \in {"idle", "ready", "closure", "updating"}
               /\ calls[t].jobs \in Seq(Job) /\ calls[t].steps \in Seq(Step) /\ calls[t].local \in Value
               /\ (calls[t].pc = "closure") = (permit = t)
    BY <1>1, CallIs DEF Base, CallsTyped, Held
  <2>. QED BY <1>1, <2>1 DEF Base, Types, TypeOK
<1>. QED BY <1>1, ProfilesBase, PTL

-----------------------------------------------------------------------------
(* The current profile is one of the list, and reordering loses nothing.   *)

(* No list is reordered while profiles may leave it.  When one of the two  *)
(* profiles that reorder() moves is not there any more, items.take() has   *)
(* already emptied the list, which Reorder models: what follows does not   *)
(* hold then.                                                              *)
ReorderAlone == "reorder" \in Ops => {"delete", "switch"} \cap Ops = {}

(* The profiles that a waiting call reorders are in the list.              *)
PlacedInv == \A t \in Tasks : \A j \in Range(calls[t].jobs) : Placed(j, committed)

(* Every list there is, in memory, in the draft, on disk or in a closure,  *)
(* has its current profile.                                                *)
ChosenInv ==
  /\ Chosen(committed) /\ Chosen(disk) /\ (draft # None => Chosen(draft))
  /\ \A t \in Tasks : Chosen(calls[t].local)

(* What the actions leave of a call.                                       *)
LEMMA NoJobs == Range(Idle.jobs) = {} /\ Idle.local = Empty /\ Idle.uid = None
<1> DEFINE q == <<>>
<1>1. Idle.jobs = q /\ Idle.local = Empty /\ Idle.uid = None
  BY DEF Idle
<1>2. q \in Seq(Job) /\ Len(q) = 0
  BY EmptySeq
<1> HIDE DEF q
<1>3. Range(q) = {q[j] : j \in 1..Len(q)}
  BY <1>2, RangeEquality
<1>4. 1..Len(q) = {}
  BY <1>2
<1>. QED BY <1>1, <1>3, <1>4

(* The fields of the calls that the actions leave.                         *)
LEMMA NextFields ==
  ASSUME NEW c
  PROVE  /\ NextJob(c).jobs = Tail(c.jobs) /\ NextJob(c).local = Empty /\ NextJob(c).op = c.op
         /\ NextJob(c).pc = "ready" /\ NextJob(c).uid = c.uid
BY DEF NextJob, CallWith

LEMMA ClosureFields ==
  ASSUME NEW c, NEW v
  PROVE  /\ InClosure(c, v).jobs = c.jobs /\ InClosure(c, v).local = Result(Head(c.jobs), v)
         /\ InClosure(c, v).steps = Steps(Head(c.jobs), v) /\ InClosure(c, v).op = c.op
         /\ InClosure(c, v).pc = "closure" /\ InClosure(c, v).uid = c.uid
BY DEF InClosure, CallWith

LEMMA AfterStepFields ==
  ASSUME NEW c
  PROVE  /\ AfterStep(c).jobs = c.jobs /\ AfterStep(c).local = c.local /\ AfterStep(c).op = c.op
         /\ AfterStep(c).pc = c.pc /\ AfterStep(c).uid = c.uid /\ AfterStep(c).steps = Tail(c.steps)
         /\ AfterStep(c).stale = c.stale
BY DEF AfterStep, CallWith

LEMMA StaledFields ==
  ASSUME NEW c
  PROVE  /\ Staled(c).jobs = c.jobs /\ Staled(c).local = c.local /\ Staled(c).op = c.op
         /\ Staled(c).pc = c.pc /\ Staled(c).uid = c.uid /\ Staled(c).steps = c.steps
         /\ Staled(c).stale = TRUE
BY DEF Staled, CallWith

LEMMA SwitchFields ==
  ASSUME NEW c
  PROVE  /\ Applied(c).jobs = c.jobs /\ Applied(c).local = Empty /\ Applied(c).op = c.op
         /\ Applied(c).pc = "ready" /\ Applied(c).uid = c.uid
         /\ Restored(c).jobs = c.jobs /\ Restored(c).local = Empty /\ Restored(c).op = "restore"
         /\ Restored(c).pc = "ready" /\ Restored(c).uid = c.uid
BY DEF Applied, Restored, CallWith

(* A modification that ends leaves the lists alone.                        *)
LEMMA AdvanceMoves ==
  ASSUME Base, NEW t \in Tasks, NEW ok \in BOOLEAN, calls[t].pc # "idle", Advance(t, ok)
  PROVE  /\ OnlyOf(t) /\ Range(calls'[t].jobs) \subseteq Range(calls[t].jobs)
         /\ calls'[t].local = Empty
<1> DEFINE c == calls[t]
<1>1. c.jobs \in Seq(Job) /\ c.jobs # <<>> /\ CallsTyped
  BY CallIs DEF Base, WellCall, CallOf
<1>2. OnlyOf(t) /\ (calls'[t] = Idle \/ calls'[t] = NextJob(c))
  BY <1>1, AdvanceIs
<1>3. Range(Tail(c.jobs)) \subseteq Range(c.jobs)
  BY <1>1, TailIs
<1>4. CASE calls'[t] = Idle
  BY <1>2, <1>4, NoJobs
<1>5. CASE calls'[t] = NextJob(c)
  BY <1>2, <1>3, <1>5, NextFields
<1>. QED BY <1>2, <1>4, <1>5

(* What a commit makes of the list.                                        *)
LEMMA CommitIs ==
  ASSUME ProfilesAssumption, Base, NEW t \in Tasks, Commit(t)
  PROVE  /\ calls[t].pc = "closure" /\ permit = t
         /\ Head(calls[t].jobs) \in Job /\ Head(calls[t].jobs) \in Range(calls[t].jobs)
         /\ JobOf(calls[t], Head(calls[t].jobs), gone) /\ Proper(Head(calls[t].jobs))
         /\ committed' = IF calls[t].stale THEN committed ELSE Result(Head(calls[t].jobs), committed)
         /\ committed' = IF calls[t].stale THEN committed ELSE calls[t].local
         /\ calls[t].stale => "switch" \in Ops
<1> DEFINE c == calls[t]
<1>1. c.pc = "closure" /\ committed' = IF c.stale THEN committed ELSE c.local
  BY DEF Commit
<1>2. c \in CallSet /\ CallOf(c, gone) /\ ClosureOf(c, committed, gone) /\ gone \subseteq Mains
  BY DEF Base, WellCall, Types
<1>3. permit = t
  BY <1>1 DEF Base, Held
<1>4. /\ Head(c.jobs) \in Job /\ Head(c.jobs) \in Range(c.jobs)
      /\ JobOf(c, Head(c.jobs), gone) /\ Proper(Head(c.jobs))
  BY <1>1, <1>2, HeadIs
<1>5. (~c.stale => c.local = Result(Head(c.jobs), committed)) /\ (c.stale => "switch" \in Ops)
  BY <1>1, <1>2 DEF ClosureOf
<1>. QED BY <1>1, <1>3, <1>4, <1>5

(* Reordering finds both profiles listed, as nothing takes them away.      *)
LEMMA PlacedStep ==
  ASSUME ProfilesAssumption, ReorderAlone, Base, PlacedInv, [Next]_vars
  PROVE  PlacedInv'
<1>1. CASE "reorder" \notin Ops
  <2>1. Base'
    BY BaseStep
  <2>2. ASSUME NEW t \in Tasks, NEW j \in Range(calls'[t].jobs) PROVE j.do # "reorder"
    <3>1. calls'[t] \in CallSet /\ JobOf(calls'[t], j, gone')
      BY <2>1, <2>2 DEF Base, WellCall, CallOf
    <3>. QED BY <1>1, <3>1, CallIs DEF JobOf
  <2>. QED BY <2>2 DEF PlacedInv, Placed
<1>2. CASE "reorder" \in Ops
  <2>0. "delete" \notin Ops /\ "switch" \notin Ops
    BY <1>2 DEF ReorderAlone
  <2>1. ASSUME NEW t \in Tasks, NEW op, NEW u \in Mains, NEW over \in Mains, Call(t, op, u, over) PROVE PlacedInv'
    <3>0. committed' = committed /\ Called(op, u, over) /\ op \in Ops /\ CallsTyped
      BY <2>1 DEF Base, Call, Called
    <3>1. /\ OnlyOf(t) /\ calls'[t] = CallWith(op, "ready", u, Jobs(op, u, over), <<>>, Empty, FALSE)
          /\ committed' = committed /\ Called(op, u, over) /\ op \in Ops
      BY <2>1, <3>0, CallMade
    <3>2. calls'[t].jobs = Jobs(op, u, over)
      BY <3>1 DEF CallWith
    <3>3. \A j \in Range(Jobs(op, u, over)) : j.do = "reorder" => op = "reorder" /\ j.uid = u /\ j.over = over
      BY <3>1, JobsAre
    <3>4. op = "reorder" => {u, over} \subseteq Has(committed)
      BY <3>1 DEF Called
    <3>5. \A j \in Range(calls'[t].jobs) : Placed(j, committed')
      BY <3>1, <3>2, <3>3, <3>4 DEF Placed
    <3>. QED BY <3>1, <3>5 DEF PlacedInv, OnlyOf
  <2>2. ASSUME NEW t \in Tasks, NEW u \in Mains, CallSwitch(t, u) PROVE PlacedInv'
    BY <2>0, <2>2 DEF CallSwitch, Called
  <2>3. ASSUME NEW t \in Tasks, Begin(t) PROVE PlacedInv'
    <3>1. calls[t].pc = "ready" /\ committed' = committed /\ (Modify(t) \/ Advance(t, FALSE)) /\ CallsTyped
      BY <2>3 DEF Begin, Base
    <3>2. OnlyOf(t) /\ Range(calls'[t].jobs) \subseteq Range(calls[t].jobs)
      <4>1. CASE Modify(t)
        BY <3>1, <4>1, ModifyIs, ClosureFields
      <4>2. CASE Advance(t, FALSE)
        BY <3>1, <4>2, AdvanceMoves
      <4>. QED BY <3>1, <4>1, <4>2
    <3>. QED BY <3>1, <3>2 DEF PlacedInv, OnlyOf
  <2>4. ASSUME NEW t \in Tasks, DiskStep(t) PROVE PlacedInv'
    <3>1. committed' = committed /\ OnlyOf(t) /\ calls'[t].jobs = calls[t].jobs
      BY <2>4, StepMade, AfterStepFields DEF DiskStep, Base
    <3>. QED BY <3>1 DEF PlacedInv, OnlyOf
  <2>5. ASSUME NEW t \in Tasks, FailStep(t) PROVE PlacedInv'
    <3>1. committed' = committed /\ OnlyOf(t) /\ Range(calls'[t].jobs) \subseteq Range(calls[t].jobs)
      BY <2>5, AdvanceMoves DEF FailStep
    <3>. QED BY <3>1 DEF PlacedInv, OnlyOf
  <2>6. ASSUME NEW t \in Tasks, Commit(t) PROVE PlacedInv'
    <3> DEFINE ok == ~calls[t].stale
               job == Head(calls[t].jobs)
    <3>1. calls[t].pc = "closure" /\ ok \in BOOLEAN /\ Advance(t, ok)
      BY <2>6 DEF Commit
    <3> HIDE DEF ok
    <3>2. OnlyOf(t) /\ Range(calls'[t].jobs) \subseteq Range(calls[t].jobs)
      BY <3>1, AdvanceMoves
    <3>3. /\ job \in Job /\ Proper(job) /\ job \in Range(calls[t].jobs) /\ JobOf(calls[t], job, gone)
          /\ committed' = Result(job, committed)
      BY <2>0, <2>6, CommitIs
    <3>4. Placed(job, committed) /\ job.do # "delete"
      BY <2>0, <3>3 DEF PlacedInv, JobOf
    <3>5. committed \in Value
      BY DEF Base, Types
    <3> HIDE DEF job
    <3>6. Has(committed) \subseteq Has(committed')
      BY <3>3, <3>4, <3>5, ResultIs DEF Taken
    <3>. QED BY <3>2, <3>6 DEF PlacedInv, Placed, OnlyOf
  <2>7. ASSUME NEW t \in Tasks, SwitchOk(t) \/ SwitchRefused(t) PROVE PlacedInv'
    <3>1. calls[t].pc = "updating" /\ calls[t] \in CallSet /\ calls[t].op = "switch"
      BY <2>7 DEF SwitchOk, SwitchRefused, Base, WellCall, CallOf
    <3>. QED BY <2>0, <3>1, CallIs
  <2>8. ASSUME Crash \/ Quit PROVE PlacedInv'
    <3>1. calls' = [t \in Tasks |-> Idle]
      BY <2>8 DEF Crash, Quit, Boot
    <3>. QED BY <3>1, NoJobs DEF PlacedInv
  <2>9. CASE UNCHANGED vars
    BY <2>9 DEF vars, PlacedInv
  <2>. QED BY <2>1, <2>2, <2>3, <2>4, <2>5, <2>6, <2>7, <2>8, <2>9 DEF Next, Serve
<1>. QED BY <1>1, <1>2

(* No call reorders at the start.                                          *)
LEMMA PlacedInit == ASSUME Init PROVE PlacedInv
<1>1. calls = [t \in Tasks |-> Idle]
  BY DEF Init
<1>. QED BY <1>1, NoJobs DEF PlacedInv

(* A call's list is of the kind that every list has been.                  *)
LEMMA ChosenMoves ==
  ASSUME ChosenInv, NEW t \in Tasks, OnlyOf(t), Chosen(calls'[t].local), Chosen(committed'), Chosen(disk'),
         draft' # None => Chosen(draft')
  PROVE  ChosenInv'
BY DEF ChosenInv, OnlyOf

(* The list without profiles has no current one.                           *)
LEMMA EmptyChosen == Chosen(Empty)
BY EmptyIs DEF Chosen

(* Making closures stale keeps their lists.                                *)
LEMMA OthersChosen ==
  ASSUME \A s \in Tasks : Chosen(calls[s].local), NEW t \in Tasks, NEW moved, OthersOf(t, moved),
         calls'[t].local = Empty
  PROVE  \A s \in Tasks : Chosen(calls'[s].local)
<1>1. ASSUME NEW s \in Tasks, s # t PROVE calls'[s].local = calls[s].local
  <2>1. calls'[s] = calls[s] \/ calls'[s] = Staled(calls[s])
    BY <1>1 DEF OthersOf
  <2>. QED BY <2>1, StaledFields
<1>. QED BY <1>1, EmptyChosen

(* Every step keeps the current profile one of the list.                   *)
LEMMA ChosenStep ==
  ASSUME ProfilesAssumption, Base, PlacedInv, ChosenInv, [Next]_vars
  PROVE  ChosenInv'
<1>0. /\ CallsTyped /\ committed \in Value /\ draft \in Value \cup {None} /\ Latest \in Value
      /\ Chosen(committed) /\ Chosen(disk) /\ (draft # None => Chosen(draft)) /\ Chosen(Latest)
      /\ \A t \in Tasks : Chosen(calls[t].local)
  BY DEF Base, Types, ChosenInv, Latest
<1>1. ASSUME NEW t \in Tasks, NEW op, NEW u \in Mains, NEW over \in Mains, Call(t, op, u, over) PROVE ChosenInv'
  <2>1. OnlyOf(t) /\ calls'[t] = CallWith(op, "ready", u, Jobs(op, u, over), <<>>, Empty, FALSE)
    BY <1>0, <1>1, CallMade
  <2>2. calls'[t].local = Empty
    BY <2>1 DEF CallWith
  <2>3. committed' = committed /\ disk' = disk /\ draft' = draft
    BY <1>1 DEF Call
  <2>. QED BY <1>0, <2>1, <2>2, <2>3, ChosenMoves, EmptyChosen
<1>2. ASSUME NEW t \in Tasks, NEW u \in Mains, CallSwitch(t, u) PROVE ChosenInv'
  <2>1. OnlyOf(t) /\ calls'[t] = CallWith("switch", "updating", u, Jobs("switch", u, u), <<>>, committed, FALSE)
    BY <1>0, <1>2, SwitchMade
  <2>2. calls'[t].local = committed
    BY <2>1 DEF CallWith
  <2>3. committed' = committed /\ disk' = disk /\ draft' = PatchConfig(Latest, u)
    BY <1>2 DEF CallSwitch
  <2>4. Chosen(PatchConfig(Latest, u))
    BY <1>0, PatchConfigIs DEF Chosen
  <2>. QED BY <1>0, <2>1, <2>2, <2>3, <2>4, ChosenMoves
<1>3. ASSUME NEW t \in Tasks, Begin(t) PROVE ChosenInv'
  <2>1. /\ calls[t].pc = "ready" /\ committed' = committed /\ disk' = disk /\ draft' = draft
        /\ (Modify(t) \/ Advance(t, FALSE))
    BY <1>3 DEF Begin
  <2>2. CASE Modify(t)
    <3> DEFINE job == Head(calls[t].jobs)
    <3>1. OnlyOf(t) /\ calls'[t].local = Result(job, committed)
      BY <1>0, <2>2, ModifyIs, ClosureFields
    <3>2. WellCall(calls[t], committed, gone) /\ gone \subseteq Mains
      BY DEF Base, Types
    <3>3. job \in Job /\ Proper(job) /\ job \in Range(calls[t].jobs)
      BY <2>1, <3>2, HeadIs DEF WellCall
    <3>4. Placed(job, committed)
      BY <3>3 DEF PlacedInv
    <3> HIDE DEF job
    <3>5. Chosen(Result(job, committed))
      BY <1>0, <3>3, <3>4, ResultIs
    <3>. QED BY <1>0, <2>1, <3>1, <3>5, ChosenMoves
  <2>3. CASE Advance(t, FALSE)
    <3>1. OnlyOf(t) /\ calls'[t].local = Empty
      BY <2>1, <2>3, AdvanceMoves
    <3>. QED BY <1>0, <2>1, <3>1, ChosenMoves, EmptyChosen
  <2>. QED BY <2>1, <2>2, <2>3
<1>4. ASSUME NEW t \in Tasks, DiskStep(t) PROVE ChosenInv'
  <2>1. OnlyOf(t) /\ calls'[t].local = calls[t].local
    BY <1>0, <1>4, StepMade, AfterStepFields
  <2>2. committed' = committed /\ draft' = draft /\ disk' \in {disk, calls[t].local}
    <3>1. /\ calls[t].steps # <<>> /\ calls[t] \in CallSet /\ committed' = committed /\ draft' = draft
          /\ CASE Head(calls[t].steps)[1] = "write" -> files' = files \cup {Head(calls[t].steps)[2]} /\ UNCHANGED disk
               [] Head(calls[t].steps)[1] = "remove" -> files' = files \ {Head(calls[t].steps)[2]} /\ UNCHANGED disk
               [] Head(calls[t].steps)[1] = "save" -> disk' = calls[t].local /\ UNCHANGED files
      BY <1>0, <1>4 DEF DiskStep, CallsTyped
    <3>2. Head(calls[t].steps)[1] \in {"write", "remove", "save"}
      BY <3>1, StepIs
    <3>. QED BY <3>1, <3>2
  <2>. QED BY <1>0, <2>1, <2>2, ChosenMoves
<1>5. ASSUME NEW t \in Tasks, FailStep(t) PROVE ChosenInv'
  <2>1. OnlyOf(t) /\ calls'[t].local = Empty /\ committed' = committed /\ disk' = disk /\ draft' = draft
    BY <1>5, AdvanceMoves DEF FailStep
  <2>. QED BY <1>0, <2>1, ChosenMoves, EmptyChosen
<1>6. ASSUME NEW t \in Tasks, Commit(t) PROVE ChosenInv'
  <2> DEFINE ok == ~calls[t].stale
  <2>1. /\ calls[t].pc = "closure" /\ ok \in BOOLEAN /\ Advance(t, ok) /\ disk' = disk /\ draft' = draft
        /\ committed' = IF calls[t].stale THEN committed ELSE calls[t].local
    BY <1>6 DEF Commit
  <2> HIDE DEF ok
  <2>2. OnlyOf(t) /\ calls'[t].local = Empty
    BY <2>1, AdvanceMoves
  <2>3. Chosen(committed')
    BY <1>0, <2>1
  <2>. QED BY <1>0, <2>1, <2>2, <2>3, ChosenMoves, EmptyChosen
<1>7. ASSUME NEW t \in Tasks, SwitchOk(t) PROVE ChosenInv'
  <2>1. OthersOf(t, draft # None) /\ calls'[t] = Applied(calls[t])
    BY <1>0, <1>7, SwitchOkIs
  <2>2. committed' = Latest /\ draft' = None /\ disk' = disk
    BY <1>7 DEF SwitchOk, ApplyAnd
  <2>3. calls'[t].local = Empty
    BY <2>1, SwitchFields
  <2>4. \A s \in Tasks : Chosen(calls'[s].local)
    BY <1>0, <2>1, <2>3, OthersChosen
  <2>. QED BY <1>0, <2>2, <2>4 DEF ChosenInv
<1>8. ASSUME NEW t \in Tasks, SwitchRefused(t) PROVE ChosenInv'
  <2> DEFINE prev == calls[t].local.current
  <2>1. draft' = None /\ disk' = disk /\ prev \in Mains \cup {None}
    BY <1>0, <1>8, CallIs, ValueIs DEF SwitchRefused, CallsTyped
  <2>2. CASE /\ prev = None /\ UNCHANGED committed /\ OnlyOf(t) /\ calls'[t] = Idle
    BY <1>0, <2>1, <2>2, NoJobs, EmptyChosen, ChosenMoves
  <2>3. CASE /\ prev # None /\ committed' = PatchConfig(committed, prev)
             /\ OthersOf(t, TRUE) /\ calls'[t] = Restored(calls[t])
    <3>3. calls'[t].local = Empty
      BY <2>3, SwitchFields
    <3>1. \A s \in Tasks : Chosen(calls'[s].local)
      BY <1>0, <2>3, <3>3, OthersChosen
    <3>2. Chosen(PatchConfig(committed, prev))
      BY <1>0, <2>1, <2>3, PatchConfigIs DEF Chosen
    <3>. QED BY <1>0, <2>1, <2>3, <3>1, <3>2 DEF ChosenInv
  <2>. QED BY <1>0, <1>8, <2>2, <2>3, SwitchRefusedIs
<1>9. ASSUME Crash \/ Quit PROVE ChosenInv'
  <2>1. /\ calls' = [t \in Tasks |-> Idle] /\ committed' \in {disk, Latest} /\ disk' \in {disk, Latest}
        /\ draft' = None
    BY <1>9 DEF Crash, Quit, Boot
  <2>2. Chosen(committed') /\ Chosen(disk') /\ \A t \in Tasks : calls'[t] = Idle
    BY <1>0, <2>1
  <2>. QED BY <2>1, <2>2, NoJobs, EmptyChosen DEF ChosenInv
<1>10. CASE UNCHANGED vars
  BY <1>10 DEF vars, ChosenInv
<1>. QED BY <1>1, <1>2, <1>3, <1>4, <1>5, <1>6, <1>7, <1>8, <1>9, <1>10 DEF Next, Serve

(* The list of the start has its current profile.                          *)
LEMMA ChosenInit ==
  ASSUME ProfilesAssumption, Init
  PROVE  ChosenInv
<1>1. Chosen(committed)
  BY InitIs DEF Chosen
<1>2. disk = committed /\ draft = None /\ calls = [t \in Tasks |-> Idle]
  BY DEF Init
<1>. QED BY <1>1, <1>2, NoJobs, EmptyChosen DEF ChosenInv

(* The current profile is one of the list, through deletions, refused      *)
(* switches that restore a previous profile, failing writes and restarts.  *)
THEOREM ProfilesListed ==
  ASSUME ReorderAlone
  PROVE  Spec => []CurrentListed
<1>1. Init => Base /\ PlacedInv /\ ChosenInv
  BY ProfilesAssumption, BaseInit, PlacedInit, ChosenInit
<1>2. Base /\ PlacedInv /\ ChosenInv /\ [Next]_vars => (Base /\ PlacedInv /\ ChosenInv)'
  BY ProfilesAssumption, BaseStep, PlacedStep, ChosenStep
<1>3. Base /\ PlacedInv /\ ChosenInv => CurrentListed
  BY DEF ChosenInv, Chosen, CurrentListed
<1>. QED BY <1>1, <1>2, <1>3, PTL DEF Spec

(* A commit that reorders.                                                 *)
LEMMA ReorderStep ==
  ASSUME ProfilesAssumption, ReorderAlone, Base, PlacedInv, NEW t \in Tasks, Commit(t), calls[t].op = "reorder"
  PROVE  Has(committed') = Has(committed)
<1> DEFINE job == Head(calls[t].jobs)
<1>1. /\ job \in Job /\ job \in Range(calls[t].jobs) /\ JobOf(calls[t], job, gone) /\ Proper(job)
      /\ committed' = IF calls[t].stale THEN committed ELSE Result(job, committed)
  BY CommitIs
<1>2. committed \in Value /\ calls[t] \in CallSet
  BY DEF Base, Types, CallsTyped
<1>3. "reorder" \in Ops
  <2>1. calls[t].op \in Ops \cup {"none", "restore"}
    BY <1>2, CallIs
  <2>. QED BY <2>1
<1>4. job.do # "append" /\ job.do # "delete" /\ Placed(job, committed)
  BY <1>1, <1>3 DEF JobOf, ReorderAlone, PlacedInv
<1> HIDE DEF job
<1>5. Has(Result(job, committed)) = Has(committed)
  <2>1. /\ Has(committed) \ Taken(job) \subseteq Has(Result(job, committed))
        /\ job.do # "append" => Has(Result(job, committed)) \subseteq Has(committed)
    BY <1>1, <1>2, <1>4, ResultIs
  <2>2. Taken(job) = {}
    BY <1>4 DEF Taken
  <2>. QED BY <1>4, <2>1, <2>2
<1>. QED BY <1>1, <1>5

(* reorder() keeps every item of the list, also when the list changed      *)
(* between the request and the closure.                                    *)
THEOREM ProfilesReorder ==
  ASSUME ReorderAlone
  PROVE  Spec => ReorderKeeps
<1>1. Init => Base /\ PlacedInv
  BY ProfilesAssumption, BaseInit, PlacedInit
<1>2. Base /\ PlacedInv /\ [Next]_vars => (Base /\ PlacedInv)'
  BY ProfilesAssumption, BaseStep, PlacedStep
<1> DEFINE A == \A t \in Tasks : Commit(t) /\ calls[t].op = "reorder" => Has(committed') = Has(committed)
<1>3. Base /\ PlacedInv /\ [Next]_vars => [A]_vars
  BY ProfilesAssumption, ReorderStep
<1>4. Spec => [][A]_vars
  BY <1>1, <1>2, <1>3, PTL DEF Spec
<1>. QED BY <1>4 DEF ReorderKeeps

-----------------------------------------------------------------------------
(* Imported profiles keep their files.                                     *)

(* What the user was told is done can only stay when no switch applies an  *)
(* older draft over it (the run profiles_lost shows that one does), when   *)
(* the save of the list itself does not fail, and when reordering does not *)
(* empty the list.                                                         *)
Durable == "switch" \notin Ops /\ "save" \notin Failing /\ ReorderAlone

(* A file that an import has written is removed by a cleanup only when the *)
(* list on disk, which the cleanup goes by, has lost the item.             *)
Lossless == MaxRestarts # 0 => Durable

(* A listed profile's file, that survives a restart.                       *)
Stays(u, v, f, g) == u \in g \/ (u \in f /\ (Durable => u \in Has(v)))

(* Of an import: it still has to append its item, or the item and its file *)
(* are there.                                                              *)
ImportOf(c, v, f, g) ==
  c.op = "import" /\ c.pc # "idle" =>
    \/ \E j \in Range(c.jobs) : j.do = "append" /\ j.uid = c.uid
    \/ Stays(c.uid, v, f, g)

(* Of a closure that has done its steps: the file is written, the list is  *)
(* saved.                                                                  *)
WrittenOf(c, f, d) ==
  c.pc = "closure" /\ c.steps = <<>> =>
    /\ Head(c.jobs).do = "append" => Head(c.jobs).uid \in f
    /\ Durable /\ Head(c.jobs).do \in {"save", "patch"} => d = c.local

(* What the user was told is imported is on disk, and is in the list when  *)
(* nothing takes it away.                                                  *)
FilesInv ==
  /\ \A u \in Mains : <<"in", u>> \in told =>
       /\ Stays(u, committed, files, gone)
       /\ Durable => u \in gone \cup Has(disk)
  /\ \A t \in Tasks : ImportOf(calls[t], committed, files, gone) /\ WrittenOf(calls[t], files, disk)

(* No call imports nothing.                                                *)
LEMMA IdleWritten == ASSUME NEW v, NEW f, NEW g, NEW d PROVE ImportOf(Idle, v, f, g) /\ WrittenOf(Idle, f, d)
<1>1. Idle.pc = "idle"
  BY IdleWell
<1>. QED BY <1>1 DEF ImportOf, WrittenOf

(* Nobody was told of an import at the start.                              *)
LEMMA FilesInit ==
  ASSUME ProfilesAssumption, Init
  PROVE  FilesInv
<1>1. committed \in Value /\ Range(Listed) \subseteq Has(committed)
  BY InitIs
<1>2. /\ disk = committed /\ files = Has(committed)
      /\ calls = [t \in Tasks |-> Idle]
      /\ told = {<<"in", u>> : u \in Range(Listed)} \cup {<<"current", u>> : u \in {committed.current} \ {None}}
  BY DEF Init
<1>3. \A u \in Mains : <<"in", u>> \in told => u \in Range(Listed)
  BY <1>2
<1>. QED BY <1>1, <1>2, <1>3, IdleWritten DEF FilesInv, Stays

(* Others' calls, when a task moves that may touch the list and the files. *)
LEMMA FilesMoves ==
  ASSUME Base, FilesInv, NEW t \in Tasks, OnlyOf(t), gone \subseteq gone',
         \A u \in Mains : Stays(u, committed, files, gone) => Stays(u, committed', files', gone'),
         \A u \in Mains : <<"in", u>> \in told' =>
           /\ <<"in", u>> \in told \/ Stays(u, committed', files', gone')
           /\ Durable => u \in gone' \cup Has(disk'),
         permit = t \/ (files' = files /\ disk' = disk),
         ImportOf(calls'[t], committed', files', gone'), WrittenOf(calls'[t], files', disk')
  PROVE  FilesInv'
<1>1. ASSUME NEW s \in Tasks PROVE ImportOf(calls'[s], committed', files', gone') /\ WrittenOf(calls'[s], files', disk')
  <2>1. CASE s = t
    BY <2>1
  <2>2. CASE s # t
    <3>1. /\ calls'[s] = calls[s] /\ CallOf(calls[s], gone)
          /\ ImportOf(calls[s], committed, files, gone) /\ WrittenOf(calls[s], files, disk)
      BY <2>2 DEF OnlyOf, FilesInv, Base, WellCall
    <3>2. calls[s].pc # "idle" => calls[s].uid \in Mains
      BY <3>1 DEF CallOf
    <3>3. ImportOf(calls[s], committed', files', gone')
      BY <3>1, <3>2 DEF ImportOf
    <3>4. calls[s].pc = "closure" => files' = files /\ disk' = disk
      BY <2>2 DEF Base, Held
    <3>5. WrittenOf(calls[s], files', disk')
      BY <3>1, <3>4 DEF WrittenOf
    <3>. QED BY <3>1, <3>3, <3>5
  <2>. QED BY <2>1, <2>2
<1>2. ASSUME NEW u \in Mains, <<"in", u>> \in told'
      PROVE  Stays(u, committed', files', gone') /\ (Durable => u \in gone' \cup Has(disk'))
  BY <1>2 DEF FilesInv
<1>. QED BY <1>1, <1>2 DEF FilesInv

(* What stays does so when more is deleted.                                *)
LEMMA StaysMore ==
  ASSUME NEW u, NEW v, NEW f, NEW g, NEW h, g \subseteq h, Stays(u, v, f, g)
  PROVE  Stays(u, v, f, h)
BY DEF Stays

(* FilesInv is kept when a command starts.                                 *)
LEMMA FilesCall ==
  ASSUME ProfilesAssumption, Base, FilesInv, NEW t \in Tasks, NEW op, NEW u \in Mains, NEW over \in Mains, Call(t, op, u, over)
  PROVE  FilesInv'
<1>1. /\ Types /\ CallsTyped /\ Called(op, u, over)
      /\ UNCHANGED <<committed, disk, files, told>>
  BY DEF Base, Call
<1>2. op \in Ops /\ gone \subseteq gone'
  BY <1>1, CalledIs
<1> DEFINE d == CallWith(op, "ready", u, Jobs(op, u, over), <<>>, Empty, FALSE)
<1>3. OnlyOf(t) /\ calls'[t] = d
  BY <1>1, CallMade
<1>4. d.op = op /\ d.pc = "ready" /\ d.uid = u /\ d.jobs = Jobs(op, u, over)
  BY DEF CallWith
<1>5. op = "import" => \E j \in Range(Jobs(op, u, over)) : j.do = "append" /\ j.uid = u
  BY <1>2, JobsAre
<1> HIDE DEF d
<1>6. ImportOf(d, committed', files', gone') /\ WrittenOf(d, files', disk')
  BY <1>4, <1>5 DEF ImportOf, WrittenOf
<1>7. \A w \in Mains : Stays(w, committed, files, gone) => Stays(w, committed', files', gone')
  BY <1>1, <1>2, StaysMore
<1>8. \A w \in Mains : <<"in", w>> \in told' =>
        /\ <<"in", w>> \in told
        /\ Durable => w \in gone' \cup Has(disk')
  BY <1>1, <1>2 DEF FilesInv
<1>. QED BY <1>1, <1>2, <1>3, <1>6, <1>7, <1>8, FilesMoves

(* FilesInv is kept when a switch starts.                                  *)
LEMMA FilesCallSwitch ==
  ASSUME ProfilesAssumption, Base, FilesInv, NEW t \in Tasks, NEW u \in Mains, CallSwitch(t, u)
  PROVE  FilesInv'
<1>1. /\ Types /\ CallsTyped /\ Called("switch", u, u)
      /\ UNCHANGED <<committed, disk, files, told>>
  BY DEF Base, CallSwitch
<1>2. gone \subseteq gone'
  BY <1>1, CalledIs
<1> DEFINE d == CallWith("switch", "updating", u, Jobs("switch", u, u), <<>>, committed, FALSE)
<1>3. OnlyOf(t) /\ calls'[t] = d
  BY <1>1, SwitchMade
<1>4. d.op = "switch" /\ d.pc = "updating"
  BY DEF CallWith
<1> HIDE DEF d
<1>6. ImportOf(d, committed', files', gone') /\ WrittenOf(d, files', disk')
  BY <1>4 DEF ImportOf, WrittenOf
<1>7. \A w \in Mains : Stays(w, committed, files, gone) => Stays(w, committed', files', gone')
  BY <1>1, <1>2, StaysMore
<1>8. \A w \in Mains : <<"in", w>> \in told' =>
        /\ <<"in", w>> \in told
        /\ Durable => w \in gone' \cup Has(disk')
  BY <1>1, <1>2 DEF FilesInv
<1>. QED BY <1>1, <1>2, <1>3, <1>6, <1>7, <1>8, FilesMoves

(* Neither a job that fails nor one that is not the last tells anything;   *)
(* a refused job ends the call.                                            *)
LEMMA NotFine ==
  ASSUME CallsTyped, NEW t \in Tasks, Advance(t, FALSE), Head(calls[t].jobs).do # "save"
  PROVE  permit' = None /\ OnlyOf(t) /\ calls'[t] = Idle /\ told' = told
<1> DEFINE ok == FALSE
<1>1. ok \in BOOLEAN /\ Advance(t, ok) /\ ~Fine(calls[t], ok)
  BY DEF Fine
<1> HIDE DEF ok
<1>. QED BY <1>1, AdvanceIs

(* FilesInv is kept when a closure begins.                                 *)
LEMMA FilesBegin ==
  ASSUME ProfilesAssumption, Base, FilesInv, NEW t \in Tasks, Begin(t)
  PROVE  FilesInv'
<1> DEFINE c == calls[t]
           job == Head(c.jobs)
<1>1. /\ c.pc = "ready" /\ UNCHANGED <<committed, disk, files, gone>>
      /\ IF Possible(job, committed) THEN Modify(t) ELSE Advance(t, FALSE)
  BY DEF Begin
<1>2. CallsTyped /\ WellCall(c, committed, gone) /\ gone \subseteq Mains /\ committed \in Value
  BY DEF Base, Types
<1>3. \A w \in Mains : Stays(w, committed, files, gone) => Stays(w, committed', files', gone')
  BY <1>1
<1>4. \A w \in Mains : <<"in", w>> \in told =>
        /\ <<"in", w>> \in told
        /\ Durable => w \in gone' \cup Has(disk')
  BY <1>1 DEF FilesInv
<1>5. CASE ~Possible(job, committed)
  <2>1. job.do # "save" /\ Advance(t, FALSE)
    BY <1>1, <1>5 DEF Possible
  <2>2. OnlyOf(t) /\ calls'[t] = Idle /\ told' = told
    BY <1>2, <2>1, NotFine
  <2>. QED BY <1>1, <1>3, <1>4, <2>2, FilesMoves, IdleWritten
<1>6. CASE Possible(job, committed)
  <2>1. told' = told /\ OnlyOf(t) /\ calls'[t] = InClosure(c, committed)
    BY <1>1, <1>2, <1>6, ModifyIs
  <2>2. job \in Job /\ Proper(job)
    BY <1>1, <1>2, HeadIs DEF WellCall
  <2>3. ImportOf(c, committed, files, gone)
    BY DEF FilesInv
  <2>4. /\ calls'[t].op = c.op /\ calls'[t].uid = c.uid /\ calls'[t].jobs = c.jobs
        /\ calls'[t].steps = Steps(job, committed)
    BY <2>1, ClosureFields
  <2>5. ImportOf(calls'[t], committed', files', gone')
    BY <1>1, <2>3, <2>4 DEF ImportOf
  <2>6. WrittenOf(calls'[t], files', disk')
    <3>1. job.do # "reorder" => Steps(job, committed) # <<>>
      BY <2>2, StepsAre DEF Placed
    <3>. QED BY <2>4, <3>1 DEF WrittenOf
  <2>. QED BY <1>1, <1>3, <1>4, <2>1, <2>5, <2>6, FilesMoves
<1>. QED BY <1>5, <1>6

(* FilesInv is kept when a closure does a step.                            *)
LEMMA FilesDiskStep ==
  ASSUME ProfilesAssumption, Base, Durable => PlacedInv, FilesInv, NEW t \in Tasks, DiskStep(t)
  PROVE  FilesInv'
<1> DEFINE c == calls[t]
           step == Head(c.steps)
           job == Head(c.jobs)
<1>1. /\ c.pc = "closure" /\ c.steps # <<>> /\ UNCHANGED <<committed, told, gone>>
      /\ CASE step[1] = "write" -> files' = files \cup {step[2]} /\ UNCHANGED disk
           [] step[1] = "remove" -> files' = files \ {step[2]} /\ UNCHANGED disk
           [] step[1] = "save" -> disk' = c.local /\ UNCHANGED files
  BY DEF DiskStep
<1>2. /\ CallsTyped /\ c \in CallSet /\ CallOf(c, gone) /\ ClosureOf(c, committed, gone) /\ permit = t
      /\ committed \in Value /\ gone \subseteq Mains
  BY <1>1 DEF Base, Types, Held, WellCall
<1>3. step[1] \in {"write", "remove", "save"} /\ step[2] \in Uids /\ step \in Range(c.steps)
  BY <1>1, <1>2, StepIs
<1>4. OnlyOf(t) /\ calls'[t] = AfterStep(c)
  BY <1>2, StepMade, <1>1
<1>5. job \in Job /\ Proper(job) /\ job \in Range(c.jobs) /\ JobOf(c, job, gone)
  BY <1>1, <1>2, HeadIs
<1>6. \A w \in Mains : Stays(w, committed, files, gone) => Stays(w, committed', files', gone')
  <2>1. step[1] = "remove" => step[2] \in gone \cup Companions
    BY <1>1, <1>2, <1>3 DEF ClosureOf
  <2>2. \A w \in Mains : w \in files => w \in files' \/ w \in gone
    BY <1>1, <1>3, <2>1, Names
  <2>. QED BY <1>1, <2>2 DEF Stays
<1>7. \A w \in Mains : <<"in", w>> \in told =>
        /\ <<"in", w>> \in told
        /\ Durable => w \in gone' \cup Has(disk')
  <2>1. CASE step[1] # "save"
    <3>1. disk' = disk
      BY <1>1, <1>3, <2>1
    <3>. QED BY <1>1, <3>1 DEF FilesInv
  <2>2. CASE step[1] = "save" /\ Durable
    <3>1. disk' = c.local /\ ~c.stale
      BY <1>1, <1>2, <2>2 DEF ClosureOf, Durable
    <3>2. disk' = Result(job, committed) /\ Placed(job, committed)
      BY <1>1, <1>2, <1>5, <2>2, <3>1 DEF ClosureOf, PlacedInv
    <3>3. Has(committed) \ Taken(job) \subseteq Has(disk')
      BY <1>2, <1>5, <3>2, ResultIs
    <3>4. Taken(job) \subseteq gone \cup Companions
      BY <1>5, Names DEF Taken, JobOf, Proper
    <3>5. \A w \in Mains : w \in Has(committed) => w \in gone \cup Has(disk')
      BY <3>3, <3>4, Names
    <3>. QED BY <1>1, <2>2, <3>5 DEF FilesInv, Stays
  <2>3. CASE ~Durable
    BY <2>3
  <2>. QED BY <2>1, <2>2, <2>3
<1>8. /\ calls'[t].op = c.op /\ calls'[t].pc = c.pc /\ calls'[t].uid = c.uid /\ calls'[t].jobs = c.jobs
      /\ calls'[t].steps = Tail(c.steps) /\ calls'[t].local = c.local
  BY <1>4, AfterStepFields
<1>9. ImportOf(calls'[t], committed', files', gone')
  <2>1. ImportOf(c, committed, files, gone) /\ c.uid \in Mains
    BY <1>1, <1>2 DEF FilesInv, CallOf
  <2>2. c.pc # "idle"
    BY <1>1
  <2> HIDE DEF c
  <2>. QED BY <1>6, <1>8, <2>1, <2>2 DEF ImportOf
<1>10. WrittenOf(calls'[t], files', disk')
  <2>1. CASE Tail(c.steps) # <<>>
    BY <1>8, <2>1 DEF WrittenOf
  <2>2. CASE Tail(c.steps) = <<>>
    <3>1. step = Last(c.steps)
      <4>1. c.steps \in Seq(Step)
        BY <1>2, CallIs
      <4>. QED BY <1>1, <2>2, <4>1, TailIs
    <3>2. step = <<IF job.do = "append" THEN "write" ELSE "save", job.uid>>
      BY <1>1, <1>2, <3>1 DEF ClosureOf
    <3>3. step[1] = (IF job.do = "append" THEN "write" ELSE "save") /\ step[2] = job.uid
      BY <3>2
    <3>4. job.do = "append" => job.uid \in files'
      BY <1>1, <3>3
    <3>5. job.do # "append" => disk' = c.local
      BY <1>1, <3>3
    <3>. QED BY <1>8, <3>4, <3>5 DEF WrittenOf
  <2>. QED BY <2>1, <2>2
<1>. QED BY <1>1, <1>2, <1>4, <1>6, <1>7, <1>9, <1>10, FilesMoves

(* A call between two closures has written nothing.                        *)
LEMMA NextWritten ==
  ASSUME NEW c, NEW f, NEW d
  PROVE  WrittenOf(NextJob(c), f, d)
BY NextFields DEF WrittenOf

(* The end of a closure, given that the list keeps what it must, and that  *)
(* an import whose last closure ends has its item listed and saved.        *)
LEMMA FilesAdvance ==
  ASSUME ProfilesAssumption, Base, FilesInv, NEW t \in Tasks, NEW ok \in BOOLEAN, Advance(t, ok),
         calls[t].pc = "closure", UNCHANGED <<disk, files, gone>>,
         \A w \in Mains : Stays(w, committed, files, gone) => Stays(w, committed', files', gone'),
         Durable /\ ok /\ Head(calls[t].jobs).do \in {"append", "save"} => calls[t].steps = <<>> /\ ~calls[t].stale,
         ok /\ Head(calls[t].jobs).do = "append" =>
           Stays(Head(calls[t].jobs).uid, committed', files', gone'),
         ~ok /\ Head(calls[t].jobs).do = "save" => ~Durable
  PROVE  FilesInv'
<1> DEFINE c == calls[t]
           job == Head(c.jobs)
<1>1. /\ CallsTyped /\ c \in CallSet /\ CallOf(c, gone) /\ ClosureOf(c, committed, gone) /\ committed \in Value
      /\ gone \subseteq Mains /\ permit = t /\ c.uid \in Mains
  BY DEF Base, Types, Held, WellCall, CallOf
<1>2. /\ OnlyOf(t)
      /\ \/ calls'[t] = Idle /\ told' = told
         \/ /\ calls'[t] = Idle /\ told' = Tell(c)
            /\ Len(c.jobs) = 1 /\ Fine(c, ok)
         \/ /\ calls'[t] = NextJob(c) /\ told' = told
            /\ Len(c.jobs) # 1 /\ Fine(c, ok)
  BY <1>1, AdvanceIs
<1>3. /\ c.jobs \in Seq(Job) /\ c.jobs # <<>> /\ job \in Job /\ Proper(job)
  BY <1>1, HeadIs
<1>4. ImportOf(c, committed, files, gone) /\ WrittenOf(c, files, disk)
  BY DEF FilesInv
<1>5. \A w \in Mains : <<"in", w>> \in told => (Durable => w \in gone' \cup Has(disk'))
  BY DEF FilesInv
<1>6. CASE calls'[t] = Idle /\ told' = told
  BY <1>1, <1>2, <1>5, <1>6, FilesMoves, IdleWritten
<1>7. CASE calls'[t] = NextJob(c) /\ told' = told /\ Len(c.jobs) # 1 /\ Fine(c, ok)
  <2>1. Range(c.jobs) = {job} \cup Range(Tail(c.jobs))
    BY <1>3, TailIs
  <2>2. /\ calls'[t].op = c.op /\ calls'[t].uid = c.uid /\ calls'[t].jobs = Tail(c.jobs)
    BY <1>7, NextFields
  <2>3. ~ok => job.do # "append"
    BY <1>7 DEF Fine
  <2> HIDE DEF job
  <2>4. ASSUME c.op = "import"
        PROVE  \/ \E j \in Range(Tail(c.jobs)) : j.do = "append" /\ j.uid = c.uid
               \/ Stays(c.uid, committed', files', gone')
    <3>1. \/ \E j \in Range(c.jobs) : j.do = "append" /\ j.uid = c.uid
          \/ Stays(c.uid, committed, files, gone)
      BY <1>4, <2>4 DEF ImportOf
    <3>2. CASE Stays(c.uid, committed, files, gone)
      BY <1>1, <3>2
    <3>3. CASE \E j \in Range(c.jobs) : j.do = "append" /\ j.uid = c.uid
      <4>1. CASE job.do = "append" /\ job.uid = c.uid
        BY <2>3, <4>1 DEF job
      <4>2. CASE ~(job.do = "append" /\ job.uid = c.uid)
        BY <2>1, <3>3, <4>2
      <4>. QED BY <4>1, <4>2
    <3>. QED BY <3>1, <3>2, <3>3
  <2>5. ImportOf(calls'[t], committed', files', gone')
    BY <2>2, <2>4 DEF ImportOf
  <2>6. WrittenOf(calls'[t], files', disk')
    BY <1>7, NextWritten
  <2>. QED BY <1>1, <1>2, <1>5, <1>7, <2>5, <2>6, FilesMoves
<1>8. CASE calls'[t] = Idle /\ told' = Tell(c) /\ Len(c.jobs) = 1 /\ Fine(c, ok)
  <2>1. Last(c.jobs) = job /\ Range(c.jobs) = {job}
    BY <1>3, <1>8, TailIs
  <2>2. ASSUME c.op = "import"
        PROVE  Stays(c.uid, committed', files', gone') /\ (Durable => c.uid \in gone' \cup Has(disk'))
    <3>1. job.do = "save"
      BY <1>1, <2>1, <2>2 DEF CallOf, LastDo
    <3>2. Stays(c.uid, committed, files, gone)
      BY <1>1, <1>4, <2>1, <2>2, <3>1 DEF ImportOf
    <3>3. ASSUME Durable PROVE disk = committed
      <4>1. c.steps = <<>> /\ ~c.stale
        BY <3>1, <3>3
      <4>2. disk = c.local
        BY <1>4, <3>1, <3>3, <4>1 DEF WrittenOf
      <4>3. c.local = Result(job, committed)
        BY <1>1, <4>1 DEF ClosureOf
      <4>. QED BY <1>1, <1>3, <3>1, <4>2, <4>3, ResultIs
    <3>. QED BY <1>1, <3>2, <3>3 DEF Stays
  <2>3. \A w \in Mains : <<"in", w>> \in told' =>
          /\ <<"in", w>> \in told \/ Stays(w, committed', files', gone')
          /\ Durable => w \in gone' \cup Has(disk')
    <3>1. ASSUME NEW w \in Mains, <<"in", w>> \in told'
          PROVE  <<"in", w>> \in told \/ (c.op = "import" /\ w = c.uid)
      <4>1. <<"in", w>> \in Tell(c)
        BY <1>8, <3>1
      <4>2. <<"in", w>> \in told \/ <<"in", w>> = Fact(c.op, c.uid)
        BY <4>1 DEF Tell
      <4>3. Fact(c.op, c.uid) = <<IF c.op = "import" THEN "in" ELSE IF c.op = "patch" THEN "patched" ELSE "current", c.uid>>
        BY DEF Fact
      <4>. QED BY <4>2, <4>3
    <3>. QED BY <1>5, <2>2, <3>1
  <2>. QED BY <1>1, <1>2, <1>8, <2>3, FilesMoves, IdleWritten
<1>9. \/ calls'[t] = Idle /\ told' = told
      \/ calls'[t] = NextJob(c) /\ told' = told /\ Len(c.jobs) # 1 /\ Fine(c, ok)
      \/ calls'[t] = Idle /\ told' = Tell(c) /\ Len(c.jobs) = 1 /\ Fine(c, ok)
  BY <1>2, Zenon
<1>. QED BY <1>6, <1>7, <1>8, <1>9, Zenon

(* FilesInv is kept when a closure fails.                                  *)
LEMMA FilesFailStep ==
  ASSUME ProfilesAssumption, Base, FilesInv, NEW t \in Tasks, FailStep(t)
  PROVE  FilesInv'
<1> DEFINE ok == FALSE
<1>1. /\ calls[t].pc = "closure" /\ Head(calls[t].jobs).do \in Failing /\ Advance(t, ok)
      /\ UNCHANGED <<committed, disk, files, gone>> /\ ~ok /\ ok \in BOOLEAN
  BY DEF FailStep
<1>2. Head(calls[t].jobs).do = "save" => ~Durable
  BY <1>1 DEF Durable
<1> HIDE DEF ok
<1>. QED BY <1>1, <1>2, FilesAdvance

(* FilesInv is kept when a closure ends.                                   *)
LEMMA FilesCommit ==
  ASSUME ProfilesAssumption, Base, Durable => PlacedInv, FilesInv, NEW t \in Tasks, Commit(t)
  PROVE  FilesInv'
<1> DEFINE c == calls[t]
           job == Head(c.jobs)
           ok == ~c.stale
<1>1. /\ c.pc = "closure" /\ c.steps = <<>> /\ ok \in BOOLEAN /\ Advance(t, ok)
      /\ UNCHANGED <<disk, files, gone>> /\ (ok <=> ~c.stale)
  BY DEF Commit
<1>2. /\ job \in Job /\ job \in Range(c.jobs) /\ JobOf(c, job, gone) /\ Proper(job)
      /\ committed' = IF c.stale THEN committed ELSE Result(job, committed)
      /\ c.stale => "switch" \in Ops
  BY CommitIs
<1>3. committed \in Value /\ WrittenOf(c, files, disk)
  BY DEF Base, Types, FilesInv
<1>4. job.do = "append" => job.uid \in files
  BY <1>1, <1>3 DEF WrittenOf
<1> HIDE DEF ok, job
<1>5. Taken(job) \subseteq gone \cup Companions
  BY <1>2, Names DEF Taken, JobOf, Proper
<1>6. ASSUME Durable
      PROVE  ~c.stale /\ \A w \in Mains : w \in Has(committed) => w \in gone \cup Has(committed')
  <2>1. ~c.stale /\ Placed(job, committed)
    BY <1>2, <1>6 DEF Durable, PlacedInv
  <2>2. Has(committed) \ Taken(job) \subseteq Has(committed')
    BY <1>2, <1>3, <2>1, ResultIs
  <2>. QED BY <1>5, <2>1, <2>2, Names
<1>7. \A w \in Mains : Stays(w, committed, files, gone) => Stays(w, committed', files', gone')
  BY <1>1, <1>6 DEF Stays
<1>8. ASSUME ok, job.do = "append" PROVE Stays(job.uid, committed', files', gone')
  <2>1. Has(committed') = Has(committed) \cup {job.uid}
    BY <1>1, <1>2, <1>3, <1>8, ResultIs
  <2>. QED BY <1>1, <1>4, <1>8, <2>1 DEF Stays
<1>9. ~ok => ~Durable
  BY <1>1, <1>6
<1>. QED BY <1>1, <1>7, <1>8, <1>9, FilesAdvance DEF job

(* A switch restarts nothing and takes no file away.                       *)
LEMMA FilesSwitch ==
  ASSUME ProfilesAssumption, Base, FilesInv, NEW t \in Tasks, SwitchOk(t) \/ SwitchRefused(t)
  PROVE  FilesInv'
<1> DEFINE c == calls[t]
<1>1. /\ c.pc = "updating" /\ UNCHANGED <<disk, files, permit, told, gone>>
  BY DEF SwitchOk, SwitchRefused
<1>2. CallsTyped /\ c \in CallSet /\ c.op = "switch"
  BY <1>1 DEF Base, WellCall, CallOf
<1>3. ~Durable
  BY <1>2, CallIs DEF Durable
<1>4. \A s \in Tasks \ {t} : calls'[s] = calls[s] \/ calls'[s] = Staled(calls[s])
  <2>1. CASE SwitchOk(t)
    BY <1>2, <2>1, SwitchOkIs DEF OthersOf
  <2>2. CASE SwitchRefused(t)
    BY <1>2, <2>2, SwitchRefusedIs DEF OthersOf, OnlyOf
  <2>. QED BY <2>1, <2>2
<1>5. calls'[t] \in {Idle, Applied(c), Restored(c)}
  BY <1>2, SwitchOkIs, SwitchRefusedIs
<1>6. \A u \in Mains : Stays(u, committed, files, gone) => Stays(u, committed', files', gone')
  BY <1>1, <1>3 DEF Stays
<1>7. ASSUME NEW s \in Tasks PROVE ImportOf(calls'[s], committed', files', gone') /\ WrittenOf(calls'[s], files', disk')
  <2>1. CASE s = t
    <3>1. calls'[t].op # "import" /\ calls'[t].pc # "closure"
      <4>1. Idle.op = "none" /\ Idle.pc = "idle"
        BY IdleWell
      <4>. QED BY <1>2, <1>5, <4>1, SwitchFields
    <3>. QED BY <2>1, <3>1 DEF ImportOf, WrittenOf
  <2>2. CASE s # t
    <3>1. /\ calls'[s].op = calls[s].op /\ calls'[s].pc = calls[s].pc /\ calls'[s].uid = calls[s].uid
          /\ calls'[s].jobs = calls[s].jobs /\ calls'[s].steps = calls[s].steps
      BY <1>4, <2>2, StaledFields
    <3>2. ImportOf(calls[s], committed, files, gone) /\ WrittenOf(calls[s], files, disk)
          /\ (calls[s].pc # "idle" => calls[s].uid \in Mains)
      BY DEF FilesInv, Base, WellCall, CallOf
    <3>. QED BY <1>1, <1>3, <1>6, <3>1, <3>2 DEF ImportOf, WrittenOf
  <2>. QED BY <2>1, <2>2
<1>. QED BY <1>1, <1>3, <1>6, <1>7 DEF FilesInv

(* FilesInv is kept by a restart and its cleanup.                          *)
LEMMA FilesBoot ==
  ASSUME ProfilesAssumption, Lossless, Base, FilesInv, Crash \/ Quit
  PROVE  FilesInv'
<1>1. /\ MaxRestarts # 0 /\ Durable /\ calls' = [t \in Tasks |-> Idle]
      /\ committed' \in {disk, Latest} /\ disk' = committed' /\ files' = files \cap Has(committed')
      /\ told' = told /\ gone' = gone
  BY DEF Crash, Quit, Boot, Base, Types, Lossless
<1>2. Latest = committed
  BY <1>1 DEF Latest, Base, Durable
<1>3. \A u \in Mains : <<"in", u>> \in told => u \in gone \/ (u \in files /\ u \in Has(committed'))
  BY <1>1, <1>2 DEF FilesInv, Stays
<1>4. \A t \in Tasks : ImportOf(calls'[t], committed', files', gone') /\ WrittenOf(calls'[t], files', disk')
  BY <1>1, IdleWritten
<1>. QED BY <1>1, <1>3, <1>4 DEF FilesInv, Stays

(* FilesInv is kept by every step.                                         *)
LEMMA FilesStep ==
  ASSUME ProfilesAssumption, Lossless, Base, Durable => PlacedInv, FilesInv, [Next]_vars
  PROVE  FilesInv'
<1>1. ASSUME NEW t \in Tasks, NEW op, NEW u \in Mains, NEW over \in Mains, Call(t, op, u, over) PROVE FilesInv'
  BY <1>1, FilesCall
<1>2. ASSUME NEW t \in Tasks, NEW u \in Mains, CallSwitch(t, u) PROVE FilesInv'
  BY <1>2, FilesCallSwitch
<1>3. ASSUME NEW t \in Tasks, Serve(t) PROVE FilesInv'
  BY <1>3, FilesBegin, FilesDiskStep, FilesFailStep, FilesCommit, FilesSwitch DEF Serve
<1>4. CASE Crash \/ Quit
  BY <1>4, FilesBoot
<1>5. CASE UNCHANGED vars
  BY <1>5 DEF vars, FilesInv
<1>. QED BY <1>1, <1>2, <1>3, <1>4, <1>5 DEF Next

(* The cleanup after a restart spares the files of what the user was told  *)
(* is imported and nobody has deleted.                                     *)
THEOREM ProfilesFiles ==
  ASSUME Lossless
  PROVE  Spec => []FilesKept
<1> DEFINE P == Durable => PlacedInv
<1>1. Init => Base /\ P /\ FilesInv
  BY ProfilesAssumption, BaseInit, PlacedInit, FilesInit
<1>2. Base /\ P /\ FilesInv /\ [Next]_vars => (Base /\ P /\ FilesInv)'
  <2>1. P /\ Base /\ [Next]_vars => P'
    BY ProfilesAssumption, PlacedStep DEF Durable
  <2>. QED BY <2>1, ProfilesAssumption, BaseStep, FilesStep
<1>3. Base /\ FilesInv => FilesKept
  <2>1. ASSUME Base, FilesInv, NEW f \in Due({"in"}) PROVE f[2] \in files
    <3>1. f \in {"in", "patched", "current"} \X Mains /\ f[1] = "in" /\ f \in told /\ f[2] \notin gone
      BY <2>1 DEF Due, Base, Types
    <3>2. f = <<"in", f[2]>> /\ f[2] \in Mains
      BY <3>1
    <3>. QED BY <2>1, <3>1, <3>2 DEF FilesInv, Stays
  <2>. QED BY <2>1 DEF FilesKept
<1>. QED BY <1>1, <1>2, <1>3, PTL DEF Spec

-----------------------------------------------------------------------------
(* A switch that was reported done stays in force.                         *)

(* With switches there are no restarts: apply_all_and_save_file on exit    *)
(* persists the draft of a switch that was not yet accepted, and one that  *)
(* was refused comes back.                                                 *)
SwitchAlone == "switch" \in Ops => MaxRestarts = 0

(* A profile is current, or somebody wants it deleted.                     *)
Cur(v, u, g) == u \in g \/ v.current = u

(* Of a switch: while it is updating, the draft has its profile and its    *)
(* call the previous one; once applied, its profile is current until the   *)
(* list is saved.                                                          *)
SwitchOf(c, v, d, f, g) ==
  /\ c.op = "switch" => Len(c.jobs) = 1
  /\ c.op = "switch" /\ c.pc # "updating" => Cur(v, c.uid, g)
  /\ c.pc = "updating" =>
       /\ d # None /\ d.current = c.uid
       /\ \A u \in Mains : <<"current", u>> \in f => Cur(c.local, u, g)

(* One switch is under way at a time and the draft is its own; what the    *)
(* user was told is current is so, in memory and on disk.                  *)
SwitchInv ==
  /\ \A s, t \in Tasks : calls[s].op = "switch" /\ calls[t].op = "switch" => s = t
  /\ draft # None => \E t \in Tasks : calls[t].pc = "updating"
  /\ \A t \in Tasks : SwitchOf(calls[t], committed, draft, told, gone)
  /\ \A u \in Mains : <<"current", u>> \in told =>
       /\ (\A t \in Tasks : calls[t].op = "switch" => calls[t].pc = "updating") => Cur(committed, u, gone)
       /\ MaxRestarts # 0 => Cur(disk, u, gone)

(* What is current or deleted stays so when more is deleted.               *)
LEMMA CurMore ==
  ASSUME NEW u, NEW v, NEW g, NEW h, g \subseteq h, Cur(v, u, g)
  PROVE  Cur(v, u, h)
BY DEF Cur

(* What a closure makes of the current profile: it keeps it or deletes it. *)
LEMMA CurResult ==
  ASSUME ProfilesAssumption, NEW v \in Value, NEW job \in Job, Proper(job), NEW g,
         job.do = "delete" => job.uid \in g, NEW u \in Mains, Cur(v, u, g)
  PROVE  Cur(Result(job, v), u, g)
<1>1. CASE u \in g
  BY <1>1 DEF Cur
<1>2. CASE u \notin g
  <2>1. v.current = u /\ u # None /\ (job.do = "delete" => job.uid # v.current)
    BY <1>2, Names DEF Cur
  <2>2. Result(job, v).current = v.current
    BY <2>1, ResultIs
  <2>. QED BY <2>1, <2>2 DEF Cur
<1>. QED BY <1>1, <1>2

(* Nobody was told of a switch at the start.                               *)
LEMMA SwitchInit ==
  ASSUME ProfilesAssumption, Init
  PROVE  SwitchInv
<1>1. Idle.op = "none" /\ Idle.pc = "idle"
  BY IdleWell
<1>2. /\ disk = committed /\ draft = None /\ \A t \in Tasks : calls[t] = Idle
      /\ told = {<<"in", u>> : u \in Range(Listed)} \cup {<<"current", u>> : u \in {committed.current} \ {None}}
  BY DEF Init
<1>3. \A u \in Mains : <<"current", u>> \in told => committed.current = u
  BY <1>2
<1>. QED BY <1>1, <1>2, <1>3 DEF SwitchInv, SwitchOf, Cur

(* Others' calls, when a task moves that is not a switch and leaves the    *)
(* draft and what was told of switches alone.                              *)
LEMMA SwitchMoves ==
  ASSUME Base, SwitchInv, NEW t \in Tasks, OnlyOf(t), gone \subseteq gone', draft' = draft,
         calls[t].op # "switch", calls'[t].op # "switch",
         calls[t].pc # "updating", calls'[t].pc # "updating",
         \A u \in Mains : <<"current", u>> \in told' <=> <<"current", u>> \in told,
         \A u \in Mains : Cur(committed, u, gone) => Cur(committed', u, gone'),
         \A u \in Mains : <<"current", u>> \in told /\ MaxRestarts # 0 => Cur(disk', u, gone')
  PROVE  SwitchInv'
<1>1. \A s \in Tasks : calls'[s].op = "switch" => s # t /\ calls'[s] = calls[s]
  BY DEF OnlyOf
<1>2. \A s, r \in Tasks : calls'[s].op = "switch" /\ calls'[r].op = "switch" => s = r
  BY <1>1 DEF SwitchInv
<1>3. draft' # None => \E s \in Tasks : calls'[s].pc = "updating"
  BY DEF OnlyOf, SwitchInv
<1>4. ASSUME NEW s \in Tasks PROVE SwitchOf(calls'[s], committed', draft', told', gone')
  <2>1. CASE s = t
    BY <2>1 DEF SwitchOf
  <2>2. CASE s # t
    <3>1. calls'[s] = calls[s] /\ SwitchOf(calls[s], committed, draft, told, gone) /\ CallOf(calls[s], gone)
      BY <2>2 DEF OnlyOf, SwitchInv, Base, WellCall
    <3> DEFINE c == calls[s]
    <3>2. c.op = "switch" /\ c.pc # "updating" => c.uid \in Mains /\ Cur(committed, c.uid, gone)
      <4>1. Idle.op = "none"
        BY IdleWell
      <4>. QED BY <3>1, <4>1 DEF SwitchOf, CallOf
    <3>3. c.pc = "updating" => \A u \in Mains : <<"current", u>> \in told => Cur(c.local, u, gone')
      BY <3>1, CurMore DEF SwitchOf
    <3>. QED BY <3>1, <3>2, <3>3 DEF SwitchOf
  <2>. QED BY <2>1, <2>2
<1>5. ASSUME NEW u \in Mains, <<"current", u>> \in told',
             \A s \in Tasks : calls'[s].op = "switch" => calls'[s].pc = "updating"
      PROVE  Cur(committed', u, gone')
  <2>1. \A s \in Tasks : calls[s].op = "switch" => calls[s].pc = "updating"
    BY <1>5 DEF OnlyOf
  <2>. QED BY <1>5, <2>1 DEF SwitchInv
<1>. QED BY <1>2, <1>3, <1>4, <1>5 DEF SwitchInv

(* SwitchInv is kept when a command starts.                                *)
LEMMA SwitchCall ==
  ASSUME ProfilesAssumption, Base, SwitchInv, NEW t \in Tasks, NEW op, NEW u \in Mains, NEW over \in Mains,
         Call(t, op, u, over)
  PROVE  SwitchInv'
<1>1. /\ Types /\ CallsTyped /\ Called(op, u, over) /\ calls[t] = Idle /\ op # "switch"
      /\ UNCHANGED <<committed, draft, disk, told>>
  BY DEF Base, Call
<1>2. gone \subseteq gone'
  BY <1>1, CalledIs
<1> DEFINE d == CallWith(op, "ready", u, Jobs(op, u, over), <<>>, Empty, FALSE)
<1>3. OnlyOf(t) /\ calls'[t] = d
  BY <1>1, CallMade
<1>4. d.op = op /\ d.pc = "ready" /\ Idle.op = "none" /\ Idle.pc = "idle"
  BY IdleWell DEF CallWith
<1> HIDE DEF d
<1>5. \A w \in Mains : Cur(committed, w, gone) => Cur(committed', w, gone')
  BY <1>1, <1>2, CurMore
<1>6. \A w \in Mains : <<"current", w>> \in told /\ MaxRestarts # 0 => Cur(disk', w, gone')
  BY <1>1, <1>2, CurMore DEF SwitchInv
<1>. QED BY <1>1, <1>2, <1>3, <1>4, <1>5, <1>6, SwitchMoves

(* SwitchInv is kept when a switch starts.                                 *)
LEMMA SwitchCallSwitch ==
  ASSUME ProfilesAssumption, SwitchAlone, Base, SwitchInv, NEW t \in Tasks, NEW u \in Mains, CallSwitch(t, u)
  PROVE  SwitchInv'
<1>1. /\ Types /\ CallsTyped /\ Called("switch", u, u) /\ calls[t] = Idle
      /\ \A s \in Tasks : calls[s].op # "switch"
      /\ draft' = PatchConfig(Latest, u)
      /\ UNCHANGED <<committed, disk, told>>
  BY DEF Base, CallSwitch
<1>2. gone \subseteq gone' /\ "switch" \in Ops /\ u \in Has(committed)
  BY <1>1, CalledIs DEF Called
<1> DEFINE d == CallWith("switch", "updating", u, Jobs("switch", u, u), <<>>, committed, FALSE)
<1>3. OnlyOf(t) /\ calls'[t] = d
  BY <1>1, SwitchMade
<1>4. d.op = "switch" /\ d.pc = "updating" /\ d.uid = u /\ d.jobs = Jobs("switch", u, u) /\ d.local = committed
  BY DEF CallWith
<1>5. Len(Jobs("switch", u, u)) = 1
  BY DEF Jobs
<1> HIDE DEF d
<1>6. \A s \in Tasks : calls[s].pc # "updating"
  BY <1>1 DEF Base, WellCall, CallOf
<1>7. Latest = committed
  BY <1>6 DEF Latest, SwitchInv
<1>8. draft' # None /\ draft'.current = u
  <2>1. committed \in Value
    BY <1>1 DEF Types
  <2>2. draft' \in Value /\ draft'.current = u
    BY <1>1, <1>2, <1>7, <2>1, PatchConfigIs
  <2>. QED BY <2>2, Names
<1>9. \A w \in Mains : <<"current", w>> \in told => Cur(committed, w, gone')
  BY <1>1, <1>2, CurMore DEF SwitchInv
<1>10. SwitchOf(d, committed', draft', told', gone')
  BY <1>1, <1>4, <1>5, <1>8, <1>9 DEF SwitchOf
<1>11. ASSUME NEW s \in Tasks PROVE SwitchOf(calls'[s], committed', draft', told', gone')
  <2>1. CASE s = t
    BY <1>3, <1>10, <2>1
  <2>2. CASE s # t
    BY <1>1, <1>3, <1>6, <2>2 DEF OnlyOf, SwitchOf
  <2>. QED BY <2>1, <2>2
<1>12. \A s, r \in Tasks : calls'[s].op = "switch" /\ calls'[r].op = "switch" => s = r
  BY <1>1, <1>3 DEF OnlyOf
<1>13. \E s \in Tasks : calls'[s].pc = "updating"
  BY <1>3, <1>4
<1>14. MaxRestarts = 0
  BY <1>2 DEF SwitchAlone
<1>. QED BY <1>1, <1>9, <1>11, <1>12, <1>13, <1>14 DEF SwitchInv

(* The end of a job.                                                       *)
LEMMA SwitchAdvance ==
  ASSUME ProfilesAssumption, SwitchAlone, Base, SwitchInv, NEW t \in Tasks, NEW ok \in BOOLEAN, Advance(t, ok),
         calls[t].pc \in {"ready", "closure"}, UNCHANGED <<disk, draft, gone>>,
         \A w \in Mains : Cur(committed, w, gone) => Cur(committed', w, gone')
  PROVE  SwitchInv'
<1> DEFINE c == calls[t]
<1>1. /\ CallsTyped /\ c \in CallSet /\ CallOf(c, gone) /\ c.uid \in Mains /\ c.pc # "updating" /\ c.pc # "idle"
      /\ SwitchOf(c, committed, draft, told, gone)
  BY DEF Base, WellCall, CallOf, SwitchInv
<1>2. /\ OnlyOf(t)
      /\ \/ calls'[t] = Idle /\ told' = told /\ ~Fine(c, ok)
         \/ /\ calls'[t] = Idle /\ told' = Tell(c)
            /\ Len(c.jobs) = 1 /\ Fine(c, ok)
         \/ /\ calls'[t] = NextJob(c) /\ told' = told
            /\ Len(c.jobs) # 1 /\ Fine(c, ok)
  BY <1>1, AdvanceIs
<1>3. /\ c.jobs \in Seq(Job) /\ c.jobs # <<>>
  BY <1>1, CallIs DEF CallOf
<1>4. Idle.op = "none" /\ Idle.pc = "idle"
  BY IdleWell
<1>5. \A w \in Mains : <<"current", w>> \in told /\ MaxRestarts # 0 => Cur(disk', w, gone')
  BY DEF SwitchInv
<1>6. \A w \in Mains : <<"current", w>> \in Tell(c) <=>
                         IF c.op = "switch" THEN w = c.uid ELSE <<"current", w>> \in told
  <2>1. CASE c.op = "switch"
    <3>1. Tell(c) = {f \in told : f[1] # "current"} \cup {<<"current", c.uid>>}
      BY <2>1 DEF Tell, Fact
    <3>. QED BY <2>1, <3>1
  <2>2. CASE c.op = "import"
    <3>1. Tell(c) = told \cup {<<"in", c.uid>>}
      BY <2>2 DEF Tell, Fact
    <3>. QED BY <2>2, <3>1
  <2>3. CASE c.op = "patch"
    <3>1. Tell(c) = told \cup {<<"patched", c.uid>>}
      BY <2>3 DEF Tell, Fact
    <3>. QED BY <2>3, <3>1
  <2>4. CASE c.op \notin {"import", "patch", "switch"}
    BY <2>4 DEF Tell
  <2>. QED BY <2>1, <2>2, <2>3, <2>4
<1>7. CASE c.op # "switch"
  <2>1. calls'[t].op # "switch" /\ calls'[t].pc # "updating"
    BY <1>2, <1>4, <1>7, NextFields
  <2>2. \A w \in Mains : <<"current", w>> \in told' <=> <<"current", w>> \in told
    BY <1>2, <1>6, <1>7
  <2>. QED BY <1>1, <1>2, <1>5, <1>7, <2>1, <2>2, SwitchMoves
<1>8. CASE c.op = "switch"
  <2>1. Len(c.jobs) = 1 /\ Cur(committed, c.uid, gone)
    BY <1>1, <1>8 DEF SwitchOf
  <2>2. Head(c.jobs).do = "save"
    <3>1. Last(c.jobs) = Head(c.jobs)
      BY <1>3, <2>1, TailIs
    <3>. QED BY <1>1, <1>8, <3>1 DEF CallOf, LastDo
  <2>3. Fine(c, ok)
    BY <1>8, <2>2 DEF Fine
  <2>4. calls'[t] = Idle /\ told' = Tell(c)
    BY <1>2, <2>1, <2>3
  <2>5. \A s \in Tasks \ {t} : calls'[s] = calls[s] /\ calls[s].op # "switch"
    BY <1>2, <1>8 DEF OnlyOf, SwitchInv
  <2>6. \A s \in Tasks : calls'[s].op # "switch"
    BY <1>4, <2>4, <2>5
  <2>7. \A s \in Tasks : calls'[s].pc # "updating" /\ calls[s].pc # "updating"
    BY <1>1, <1>4, <2>4, <2>5 DEF Base, WellCall, CallOf
  <2>8. draft' = None
    BY <2>7 DEF SwitchInv
  <2>9. \A s \in Tasks : SwitchOf(calls'[s], committed', draft', told', gone')
    BY <2>6, <2>7 DEF SwitchOf
  <2>10. \A w \in Mains : <<"current", w>> \in told' => Cur(committed', w, gone')
    <3>1. Cur(committed', c.uid, gone')
      BY <1>1, <2>1
    <3>2. \A w \in Mains : <<"current", w>> \in told' => w = c.uid
      BY <1>6, <1>8, <2>4, Zenon
    <3>. QED BY <3>1, <3>2
  <2>11. MaxRestarts = 0
    BY <1>1, <1>8, CallIs DEF SwitchAlone
  <2>. QED BY <2>6, <2>8, <2>9, <2>10, <2>11 DEF SwitchInv
<1>. QED BY <1>7, <1>8

(* A step inside a modification that touches neither the draft nor what    *)
(* was told.                                                               *)
LEMMA SwitchModify ==
  ASSUME ProfilesAssumption, Base, SwitchInv, NEW t \in Tasks, NEW d, OnlyOf(t), calls'[t] = d,
         d.op = calls[t].op, d.uid = calls[t].uid, d.jobs = calls[t].jobs,
         calls[t].pc # "updating", d.pc # "updating",
         UNCHANGED <<committed, draft, told, gone>>,
         \A w \in Mains : <<"current", w>> \in told /\ MaxRestarts # 0 => Cur(disk', w, gone')
  PROVE  SwitchInv'
<1>1. \A s \in Tasks \ {t} : calls'[s] = calls[s]
  BY DEF OnlyOf
<1>2. \A s \in Tasks : /\ calls'[s].op = calls[s].op
                       /\ calls'[s].pc = "updating" <=> calls[s].pc = "updating"
  BY <1>1
<1>3. ASSUME NEW s \in Tasks PROVE SwitchOf(calls'[s], committed', draft', told', gone')
  <2>1. SwitchOf(calls[s], committed, draft, told, gone)
    BY DEF SwitchInv
  <2>2. CASE s = t
    BY <2>1, <2>2 DEF SwitchOf
  <2>3. CASE s # t
    BY <1>1, <2>1, <2>3
  <2>. QED BY <2>2, <2>3
<1>. QED BY <1>2, <1>3 DEF SwitchInv

(* SwitchInv is kept when a closure begins.                                *)
LEMMA SwitchBegin ==
  ASSUME ProfilesAssumption, SwitchAlone, Base, SwitchInv, NEW t \in Tasks, Begin(t)
  PROVE  SwitchInv'
<1> DEFINE c == calls[t]
<1>1. /\ c.pc = "ready" /\ UNCHANGED <<committed, draft, disk, gone>>
      /\ Modify(t) \/ Advance(t, FALSE)
  BY DEF Begin
<1>2. CallsTyped
  BY DEF Base
<1>3. CASE Modify(t)
  <2>1. told' = told /\ OnlyOf(t) /\ calls'[t] = InClosure(c, committed)
    BY <1>2, <1>3, ModifyIs
  <2>2. /\ calls'[t].op = c.op /\ calls'[t].uid = c.uid /\ calls'[t].jobs = c.jobs
        /\ calls'[t].pc = "closure"
    BY <2>1, ClosureFields
  <2>3. \A w \in Mains : <<"current", w>> \in told /\ MaxRestarts # 0 => Cur(disk', w, gone')
    BY <1>1 DEF SwitchInv
  <2>. QED BY <1>1, <2>1, <2>2, <2>3, SwitchModify
<1>4. CASE Advance(t, FALSE)
  <2> DEFINE ok == FALSE
  <2>1. ok \in BOOLEAN /\ Advance(t, ok)
    BY <1>4
  <2> HIDE DEF ok
  <2>. QED BY <1>1, <2>1, SwitchAdvance
<1>. QED BY <1>1, <1>3, <1>4

(* SwitchInv is kept when a closure does a step.                           *)
LEMMA SwitchDiskStep ==
  ASSUME ProfilesAssumption, SwitchAlone, Base, SwitchInv, NEW t \in Tasks, DiskStep(t)
  PROVE  SwitchInv'
<1> DEFINE c == calls[t]
           step == Head(c.steps)
           job == Head(c.jobs)
<1>1. /\ c.pc = "closure" /\ c.steps # <<>> /\ UNCHANGED <<committed, draft, told, gone>>
      /\ CASE step[1] = "write" -> files' = files \cup {step[2]} /\ UNCHANGED disk
           [] step[1] = "remove" -> files' = files \ {step[2]} /\ UNCHANGED disk
           [] step[1] = "save" -> disk' = c.local /\ UNCHANGED files
  BY DEF DiskStep
<1>2. /\ CallsTyped /\ c \in CallSet /\ CallOf(c, gone) /\ ClosureOf(c, committed, gone)
      /\ committed \in Value /\ gone \subseteq Mains
  BY DEF Base, Types, WellCall
<1>3. step[1] \in {"write", "remove", "save"}
  BY <1>1, <1>2, StepIs
<1>4. OnlyOf(t) /\ calls'[t] = AfterStep(c)
  BY <1>2, StepMade
<1>5. job \in Job /\ Proper(job) /\ (job.do = "delete" => job.uid \in gone)
  BY <1>1, <1>2, HeadIs DEF JobOf
<1>6. \A w \in Mains : <<"current", w>> \in told /\ MaxRestarts # 0 => Cur(disk', w, gone')
  <2>1. CASE step[1] # "save"
    <3>1. disk' = disk
      BY <1>1, <1>3, <2>1
    <3>. QED BY <1>1, <3>1 DEF SwitchInv
  <2>2. CASE step[1] = "save" /\ MaxRestarts # 0
    <3>1. "switch" \notin Ops
      BY <2>2 DEF SwitchAlone
    <3>2. disk' = Result(job, committed)
      BY <1>1, <1>2, <2>2, <3>1 DEF ClosureOf
    <3>3. \A s \in Tasks : calls[s].op # "switch"
      <4>1. \A s \in Tasks : calls[s].op \in Ops \cup {"none", "restore"}
        BY <1>2, CallIs DEF CallsTyped
      <4>. QED BY <3>1, <4>1
    <3>4. \A w \in Mains : <<"current", w>> \in told => Cur(committed, w, gone)
      BY <3>3 DEF SwitchInv
    <3> HIDE DEF job
    <3>5. \A w \in Mains : Cur(committed, w, gone) => Cur(disk', w, gone)
      BY <1>2, <1>5, <3>2, CurResult
    <3>. QED BY <1>1, <3>4, <3>5
  <2>. QED BY <2>1, <2>2
<1>7. /\ calls'[t].op = c.op /\ calls'[t].pc = c.pc /\ calls'[t].uid = c.uid /\ calls'[t].jobs = c.jobs
  BY <1>4, AfterStepFields
<1>. QED BY <1>1, <1>4, <1>6, <1>7, SwitchModify

(* SwitchInv is kept when a closure fails.                                 *)
LEMMA SwitchFailStep ==
  ASSUME ProfilesAssumption, SwitchAlone, Base, SwitchInv, NEW t \in Tasks, FailStep(t)
  PROVE  SwitchInv'
<1> DEFINE ok == FALSE
<1>1. /\ calls[t].pc = "closure" /\ Advance(t, ok) /\ UNCHANGED <<committed, draft, disk, gone>> /\ ok \in BOOLEAN
  BY DEF FailStep
<1> HIDE DEF ok
<1>. QED BY <1>1, SwitchAdvance

(* SwitchInv is kept when a closure ends.                                  *)
LEMMA SwitchCommit ==
  ASSUME ProfilesAssumption, SwitchAlone, Base, SwitchInv, NEW t \in Tasks, Commit(t)
  PROVE  SwitchInv'
<1> DEFINE job == Head(calls[t].jobs)
           ok == ~calls[t].stale
<1>1. /\ calls[t].pc = "closure" /\ ok \in BOOLEAN /\ Advance(t, ok) /\ UNCHANGED <<draft, disk, gone>>
  BY DEF Commit
<1>2. /\ job \in Job /\ Proper(job) /\ (job.do = "delete" => job.uid \in gone)
      /\ committed' = IF calls[t].stale THEN committed ELSE Result(job, committed)
  BY CommitIs DEF JobOf
<1>3. committed \in Value
  BY DEF Base, Types
<1> HIDE DEF ok, job
<1>4. \A w \in Mains : Cur(committed, w, gone) => Cur(committed', w, gone)
  <2>1. CASE calls[t].stale
    BY <1>2, <2>1
  <2>2. CASE ~calls[t].stale
    <3>1. committed' = Result(job, committed)
      BY <1>2, <2>2
    <3>. QED BY <1>2, <1>3, <3>1, CurResult
  <2>. QED BY <2>1, <2>2
<1>. QED BY <1>1, <1>4, SwitchAdvance

(* The draft ends; the other calls only become stale.                      *)
LEMMA SwitchEnds ==
  ASSUME ProfilesAssumption, SwitchAlone, Base, SwitchInv, NEW t \in Tasks, calls[t].pc = "updating",
         \A s \in Tasks \ {t} : calls'[s] = calls[s] \/ calls'[s] = Staled(calls[s]),
         calls'[t].op = "switch" => calls'[t].uid = calls[t].uid /\ Len(calls'[t].jobs) = 1,
         calls'[t].op = "switch" => Cur(committed', calls[t].uid, gone),
         calls'[t].pc # "updating",
         calls'[t].op # "switch" => \A w \in Mains : <<"current", w>> \in told => Cur(committed', w, gone),
         draft' = None, UNCHANGED <<told, gone>>
  PROVE  SwitchInv'
<1>1. calls[t].op = "switch" /\ calls[t] \in CallSet
  BY DEF Base, WellCall, CallOf
<1>2. MaxRestarts = 0
  BY <1>1, CallIs DEF SwitchAlone
<1>3. \A s \in Tasks \ {t} : calls[s].op # "switch" /\ calls[s].pc # "updating"
  BY <1>1 DEF SwitchInv, Base, WellCall, CallOf
<1>4. \A s \in Tasks \ {t} : calls'[s].op # "switch" /\ calls'[s].pc # "updating"
  <2>1. ASSUME NEW s \in Tasks \ {t} PROVE calls'[s].op # "switch" /\ calls'[s].pc # "updating"
    <3>1. CASE calls'[s] = calls[s]
      BY <1>3, <3>1
    <3>2. CASE calls'[s] = Staled(calls[s])
      <4>1. calls'[s].op = calls[s].op /\ calls'[s].pc = calls[s].pc
        BY <3>2, StaledFields
      <4>. QED BY <1>3, <4>1
    <3>. QED BY <3>1, <3>2
  <2>. QED BY <2>1
<1>5. \A s \in Tasks : SwitchOf(calls'[s], committed', draft', told', gone')
  BY <1>4 DEF SwitchOf
<1>6. \A s, r \in Tasks : calls'[s].op = "switch" /\ calls'[r].op = "switch" => s = r
  BY <1>4
<1>7. ASSUME NEW w \in Mains, <<"current", w>> \in told',
             \A s \in Tasks : calls'[s].op = "switch" => calls'[s].pc = "updating"
      PROVE  Cur(committed', w, gone')
  BY <1>7
<1>. QED BY <1>2, <1>5, <1>6, <1>7 DEF SwitchInv

(* SwitchInv is kept when a switch succeeds.                               *)
LEMMA SwitchSwitchOk ==
  ASSUME ProfilesAssumption, SwitchAlone, Base, SwitchInv, NEW t \in Tasks, SwitchOk(t)
  PROVE  SwitchInv'
<1> DEFINE c == calls[t]
<1>1. /\ c.pc = "updating" /\ committed' = Latest /\ draft' = None
      /\ UNCHANGED <<told, gone>>
  BY DEF SwitchOk, ApplyAnd
<1>2. CallsTyped /\ SwitchOf(c, committed, draft, told, gone) /\ c.op = "switch"
  BY <1>1 DEF Base, SwitchInv, WellCall, CallOf
<1>3. OthersOf(t, draft # None) /\ calls'[t] = Applied(c)
  BY <1>2, SwitchOkIs
<1>4. calls'[t].op = "switch" /\ calls'[t].pc = "ready" /\ calls'[t].uid = c.uid /\ calls'[t].jobs = c.jobs
  BY <1>2, <1>3, SwitchFields
<1>5. committed' = draft /\ draft.current = c.uid /\ Len(c.jobs) = 1
  BY <1>1, <1>2 DEF SwitchOf, Latest
<1>6. Cur(committed', c.uid, gone)
  BY <1>5 DEF Cur
<1>7. \A s \in Tasks \ {t} : calls'[s] = calls[s] \/ calls'[s] = Staled(calls[s])
  BY <1>3 DEF OthersOf
<1>. QED BY <1>1, <1>4, <1>5, <1>6, <1>7, SwitchEnds

(* SwitchInv is kept when a switch is refused.                             *)
LEMMA SwitchSwitchRefused ==
  ASSUME ProfilesAssumption, SwitchAlone, Base, SwitchInv, NEW t \in Tasks, SwitchRefused(t)
  PROVE  SwitchInv'
<1> DEFINE c == calls[t]
           prev == c.local.current
<1>1. c.pc = "updating" /\ draft' = None /\ UNCHANGED <<told, gone>>
  BY DEF SwitchRefused
<1>2. CallsTyped /\ SwitchOf(c, committed, draft, told, gone) /\ c.op = "switch" /\ committed \in Value
  BY <1>1 DEF Base, Types, SwitchInv, WellCall, CallOf
<1>3. \/ /\ prev = None /\ UNCHANGED committed /\ OnlyOf(t) /\ calls'[t] = Idle
      \/ /\ prev # None /\ committed' = PatchConfig(committed, prev)
         /\ OthersOf(t, TRUE) /\ calls'[t] = Restored(c)
  BY <1>2, SwitchRefusedIs, Zenon
<1>4. calls'[t].op # "switch" /\ calls'[t].pc # "updating"
  <2>1. CASE calls'[t] = Idle
    <3>1. Idle.op = "none" /\ Idle.pc = "idle"
      BY IdleWell
    <3>. QED BY <2>1, <3>1
  <2>2. CASE calls'[t] = Restored(c)
    <3>1. calls'[t].op = "restore" /\ calls'[t].pc = "ready"
      BY <2>2 DEF Restored, CallWith
    <3>. QED BY <3>1
  <2>. QED BY <1>3, <2>1, <2>2
<1>5. \A s \in Tasks \ {t} : calls'[s] = calls[s] \/ calls'[s] = Staled(calls[s])
  BY <1>3 DEF OthersOf, OnlyOf
<1>6. \A s \in Tasks : calls[s].op = "switch" => calls[s].pc = "updating"
  BY <1>1, <1>2 DEF SwitchInv
<1>7. \A w \in Mains : <<"current", w>> \in told => Cur(committed, w, gone) /\ Cur(c.local, w, gone)
  BY <1>1, <1>2, <1>6 DEF SwitchInv, SwitchOf
<1>8. ASSUME NEW w \in Mains, <<"current", w>> \in told PROVE Cur(committed', w, gone)
  <2>1. CASE w \in gone
    BY <2>1 DEF Cur
  <2>2. CASE w \notin gone
    <3>1. committed.current = w /\ prev = w
      BY <1>7, <1>8, <2>2 DEF Cur
    <3>2. w # None
      BY Names
    <3>3. committed' = PatchConfig(committed, w)
      BY <1>3, <3>1, <3>2
    <3>4. committed'.current = w
      BY <1>2, <3>1, <3>3, PatchConfigIs
    <3>. QED BY <3>4 DEF Cur
  <2>. QED BY <2>1, <2>2
<1>. QED BY <1>1, <1>4, <1>5, <1>8, SwitchEnds

(* SwitchInv is kept by a restart.                                         *)
LEMMA SwitchBoot ==
  ASSUME ProfilesAssumption, SwitchAlone, Base, SwitchInv, Crash \/ Quit
  PROVE  SwitchInv'
<1>1. /\ MaxRestarts # 0 /\ calls' = [t \in Tasks |-> Idle]
      /\ committed' \in {disk, Latest} /\ disk' = committed' /\ draft' = None
      /\ told' = told /\ gone' = gone
  BY DEF Crash, Quit, Boot, Base, Types
<1>2. "switch" \notin Ops
  BY <1>1 DEF SwitchAlone
<1>3. Latest = committed
  BY <1>2 DEF Latest, Base
<1>4. \A s \in Tasks : calls[s].op # "switch"
  <2>1. \A s \in Tasks : calls[s].op \in Ops \cup {"none", "restore"}
    BY CallIs DEF Base, CallsTyped
  <2>. QED BY <1>2, <2>1
<1>5. \A w \in Mains : <<"current", w>> \in told => Cur(committed', w, gone')
  BY <1>1, <1>3, <1>4 DEF SwitchInv
<1>6. \A s \in Tasks : calls'[s].op = "none" /\ calls'[s].pc = "idle"
  BY <1>1, IdleWell
<1>7. \A s \in Tasks : SwitchOf(calls'[s], committed', draft', told', gone')
  BY <1>6 DEF SwitchOf
<1>. QED BY <1>1, <1>5, <1>6, <1>7 DEF SwitchInv

(* SwitchInv is kept by every step.                                        *)
LEMMA SwitchStep ==
  ASSUME ProfilesAssumption, SwitchAlone, Base, SwitchInv, [Next]_vars
  PROVE  SwitchInv'
<1>1. ASSUME NEW t \in Tasks, NEW op, NEW u \in Mains, NEW over \in Mains, Call(t, op, u, over) PROVE SwitchInv'
  BY <1>1, SwitchCall
<1>2. ASSUME NEW t \in Tasks, NEW u \in Mains, CallSwitch(t, u) PROVE SwitchInv'
  BY <1>2, SwitchCallSwitch
<1>3. ASSUME NEW t \in Tasks, Serve(t) PROVE SwitchInv'
  BY <1>3, SwitchBegin, SwitchDiskStep, SwitchFailStep, SwitchCommit, SwitchSwitchOk, SwitchSwitchRefused DEF Serve
<1>4. CASE Crash \/ Quit
  BY <1>4, SwitchBoot
<1>5. CASE UNCHANGED vars
  BY <1>5 DEF vars, SwitchInv
<1>. QED BY <1>1, <1>2, <1>3, <1>4, <1>5 DEF Next

(* Once a switch was reported done its profile stays current until the     *)
(* next switch succeeds, also when that one is refused and restores the    *)
(* previous one.                                                           *)
THEOREM ProfilesSwitch ==
  ASSUME SwitchAlone
  PROVE  Spec => []SwitchKept
<1>1. Init => Base /\ SwitchInv
  BY ProfilesAssumption, BaseInit, SwitchInit
<1>2. Base /\ SwitchInv /\ [Next]_vars => (Base /\ SwitchInv)'
  BY ProfilesAssumption, BaseStep, SwitchStep
<1>3. Base /\ SwitchInv => SwitchKept
  <2>1. ASSUME Base, SwitchInv, NEW f \in Due({"current"}),
               \A t \in Tasks : calls[t].op = "switch" => calls[t].pc = "updating"
        PROVE  f \in Facts(committed)
    <3>1. f \in {"in", "patched", "current"} \X Mains /\ f[1] = "current" /\ f \in told /\ f[2] \notin gone
      BY <2>1 DEF Due, Base, Types
    <3>2. f = <<"current", f[2]>> /\ f[2] \in Mains
      BY <3>1
    <3>3. committed.current = f[2]
      BY <2>1, <3>1, <3>2 DEF SwitchInv, Cur
    <3>. QED BY <3>2, <3>3 DEF Facts
  <2>. QED BY <2>1 DEF SwitchKept
<1>. QED BY <1>1, <1>2, <1>3, PTL DEF Spec

-----------------------------------------------------------------------------
(* What was imported or patched stays so.                                  *)

(* Patched options are in the list, in memory and on disk.                 *)
PatchedInv ==
  \A u \in Mains : <<"patched", u>> \in told =>
    u \in gone \/ (u \in committed.patched /\ u \in disk.patched)

(* Keeping what is patched, in memory and on disk.                         *)
LEMMA PatchedMoves ==
  ASSUME PatchedInv, gone \subseteq gone',
         \A w \in Mains : w \in committed.patched => w \in gone' \cup committed'.patched,
         disk' = disk \/ \A w \in Mains : w \in committed.patched => w \in gone' \cup disk'.patched,
         \A w \in Mains : <<"patched", w>> \in told' => <<"patched", w>> \in told
  PROVE  PatchedInv'
BY DEF PatchedInv

(* What a closure makes of the options.                                    *)
LEMMA PatchedResult ==
  ASSUME ProfilesAssumption, NEW v \in Value, NEW job \in Job, Proper(job), NEW g,
         job.do = "delete" => job.uid \in g
  PROVE  \A w \in Mains : w \in v.patched => w \in g \cup Result(job, v).patched
<1>1. Taken(job) \subseteq g \cup Companions
  BY Names DEF Taken, Proper
<1>2. v.patched \ Taken(job) \subseteq Result(job, v).patched
  BY ResultIs
<1>. QED BY <1>1, <1>2, Names

(* A job's end tells of a patch only when it was the patch.                *)
LEMMA PatchedTell ==
  ASSUME Base, NEW t \in Tasks, NEW ok \in BOOLEAN, Advance(t, ok), calls[t].pc # "idle"
  PROVE  \/ \A w \in Mains : <<"patched", w>> \in told' => <<"patched", w>> \in told
         \/ /\ ok /\ Head(calls[t].jobs).do = "patch" /\ Head(calls[t].jobs) \in Range(calls[t].jobs)
            /\ Head(calls[t].jobs).uid = calls[t].uid
            /\ told' = told \cup {<<"patched", calls[t].uid>>}
<1> DEFINE c == calls[t]
           job == Head(c.jobs)
<1>1. CallsTyped /\ c \in CallSet /\ CallOf(c, gone) /\ c.jobs \in Seq(Job) /\ c.jobs # <<>>
  BY CallIs DEF Base, WellCall, CallOf
<1>2. told' = told \/ (told' = Tell(c) /\ Len(c.jobs) = 1 /\ Fine(c, ok))
  BY <1>1, AdvanceIs
<1>3. CASE told' = told
  BY <1>3
<1>4. CASE told' = Tell(c) /\ Len(c.jobs) = 1 /\ Fine(c, ok) /\ c.op = "patch"
  <2>1. Last(c.jobs) = job /\ job \in Range(c.jobs)
    BY <1>1, <1>4, TailIs
  <2>2. job.do = "patch"
    BY <1>1, <1>4, <2>1 DEF CallOf, LastDo
  <2>3. job.uid = c.uid
    BY <1>1, <2>1, <2>2 DEF CallOf, JobOf
  <2>4. ok
    BY <1>4, <2>2 DEF Fine
  <2>5. told' = told \cup {<<"patched", c.uid>>}
    BY <1>4 DEF Tell, Fact
  <2>. QED BY <2>1, <2>2, <2>3, <2>4, <2>5
<1>5. CASE told' = Tell(c) /\ c.op # "patch"
  <2>1. \A w \in Mains : <<"patched", w>> \in Tell(c) => <<"patched", w>> \in told
    BY <1>5 DEF Tell, Fact
  <2>. QED BY <1>5, <2>1
<1>. QED BY <1>2, <1>3, <1>4, <1>5

(* PatchedInv is kept by every step.                                       *)
LEMMA PatchedStep ==
  ASSUME ProfilesAssumption, Durable, Base, FilesInv, PatchedInv, [Next]_vars
  PROVE  PatchedInv'
<1>0. CallsTyped /\ committed \in Value /\ gone \subseteq Mains
  BY DEF Base, Types
<1>1. ASSUME NEW t \in Tasks, NEW op, NEW u \in Mains, NEW over \in Mains, Call(t, op, u, over) PROVE PatchedInv'
  <2>1. UNCHANGED <<committed, disk, told>> /\ Types /\ Called(op, u, over)
    BY <1>1 DEF Base, Call
  <2>2. gone \subseteq gone'
    BY <2>1, CalledIs
  <2>. QED BY <2>1, <2>2, PatchedMoves
<1>2. ASSUME NEW t \in Tasks, NEW u \in Mains, CallSwitch(t, u) PROVE PatchedInv'
  BY <1>2 DEF CallSwitch, Called, Durable
<1>3. ASSUME NEW t \in Tasks, Begin(t) PROVE PatchedInv'
  <2>1. calls[t].pc = "ready" /\ UNCHANGED <<committed, disk, gone>> /\ (Modify(t) \/ Advance(t, FALSE))
    BY <1>3 DEF Begin
  <2>2. CASE Modify(t)
    <3>1. told' = told
      BY <1>0, <2>2, ModifyIs
    <3>. QED BY <2>1, <3>1, PatchedMoves
  <2>3. CASE Advance(t, FALSE)
    <3> DEFINE ok == FALSE
    <3>1. ok \in BOOLEAN /\ Advance(t, ok) /\ ~ok
      BY <2>3
    <3> HIDE DEF ok
    <3>2. \A w \in Mains : <<"patched", w>> \in told' => <<"patched", w>> \in told
      BY <2>1, <3>1, PatchedTell
    <3>. QED BY <2>1, <3>2, PatchedMoves
  <2>. QED BY <2>1, <2>2, <2>3
<1>4. ASSUME NEW t \in Tasks, DiskStep(t) PROVE PatchedInv'
  <2> DEFINE c == calls[t]
             step == Head(c.steps)
             job == Head(c.jobs)
  <2>1. /\ c.pc = "closure" /\ c.steps # <<>> /\ UNCHANGED <<committed, told, gone>>
        /\ CASE step[1] = "write" -> files' = files \cup {step[2]} /\ UNCHANGED disk
             [] step[1] = "remove" -> files' = files \ {step[2]} /\ UNCHANGED disk
             [] step[1] = "save" -> disk' = c.local /\ UNCHANGED files
    BY <1>4 DEF DiskStep
  <2>2. c \in CallSet /\ CallOf(c, gone) /\ ClosureOf(c, committed, gone)
    BY DEF Base, WellCall
  <2>3. step[1] \in {"write", "remove", "save"}
    BY <2>1, <2>2, StepIs
  <2>4. disk' = disk \/ disk' = Result(job, committed)
    <3>1. c.local = Result(job, committed)
      BY <2>1, <2>2 DEF ClosureOf, Durable
    <3>. QED BY <2>1, <2>3, <3>1
  <2>5. job \in Job /\ Proper(job) /\ (job.do = "delete" => job.uid \in gone)
    BY <1>0, <2>1, <2>2, HeadIs DEF JobOf
  <2> HIDE DEF job
  <2>6. \A w \in Mains : w \in committed.patched => w \in gone \cup Result(job, committed).patched
    BY <1>0, <2>5, PatchedResult
  <2>. QED BY <2>1, <2>4, <2>6, PatchedMoves
<1>5. ASSUME NEW t \in Tasks, FailStep(t) PROVE PatchedInv'
  <2> DEFINE ok == FALSE
  <2>1. calls[t].pc = "closure" /\ ok \in BOOLEAN /\ Advance(t, ok) /\ ~ok /\ UNCHANGED <<committed, disk, gone>>
    BY <1>5 DEF FailStep
  <2> HIDE DEF ok
  <2>2. \A w \in Mains : <<"patched", w>> \in told' => <<"patched", w>> \in told
    BY <2>1, PatchedTell
  <2>. QED BY <2>1, <2>2, PatchedMoves
<1>6. ASSUME NEW t \in Tasks, Commit(t) PROVE PatchedInv'
  <2> DEFINE c == calls[t]
             job == Head(c.jobs)
             ok == ~c.stale
  <2>1. c.pc = "closure" /\ c.steps = <<>> /\ ok \in BOOLEAN /\ Advance(t, ok) /\ UNCHANGED <<disk, gone>>
    BY <1>6 DEF Commit
  <2>2. /\ job \in Job /\ Proper(job) /\ (job.do = "delete" => job.uid \in gone)
        /\ committed' = IF c.stale THEN committed ELSE Result(job, committed)
        /\ committed' = IF c.stale THEN committed ELSE c.local
        /\ ~c.stale
    BY <1>6, CommitIs DEF JobOf, Durable
  <2>3. WrittenOf(c, files, disk)
    BY DEF FilesInv
  <2>4. job.do = "patch" => disk = committed'
    BY <2>1, <2>2, <2>3 DEF WrittenOf
  <2> HIDE DEF ok, job
  <2>5. \A w \in Mains : w \in committed.patched => w \in gone \cup committed'.patched
    BY <1>0, <2>2, PatchedResult
  <2>6. CASE \A w \in Mains : <<"patched", w>> \in told' => <<"patched", w>> \in told
    BY <2>1, <2>5, <2>6, PatchedMoves
  <2>7. CASE /\ job.do = "patch" /\ job.uid = c.uid
             /\ told' = told \cup {<<"patched", c.uid>>}
    <3>1. c.uid \in committed'.patched
      BY <1>0, <2>2, <2>7, ResultIs
    <3>2. \A w \in Mains : <<"patched", w>> \in told' => w = c.uid \/ <<"patched", w>> \in told
      BY <2>7
    <3>. QED BY <2>1, <2>4, <2>5, <2>7, <3>1, <3>2 DEF PatchedInv
  <2>. QED BY <2>1, <2>6, <2>7, PatchedTell DEF job
<1>7. ASSUME NEW t \in Tasks, SwitchOk(t) \/ SwitchRefused(t) PROVE PatchedInv'
  <2>1. calls[t].pc = "updating" /\ calls[t] \in CallSet /\ calls[t].op = "switch"
    BY <1>7 DEF SwitchOk, SwitchRefused, Base, WellCall, CallOf
  <2>. QED BY <2>1, CallIs DEF Durable
<1>8. CASE Crash \/ Quit
  <2>1. committed' \in {disk, committed} /\ disk' = committed' /\ told' = told /\ gone' = gone
    BY <1>8 DEF Crash, Quit, Boot, Latest, Base, Durable
  <2>. QED BY <2>1 DEF PatchedInv
<1>9. CASE UNCHANGED vars
  BY <1>9 DEF vars, PatchedInv
<1>. QED BY <1>1, <1>2, <1>3, <1>4, <1>5, <1>6, <1>7, <1>8, <1>9 DEF Next, Serve

(* What the user was told is imported or patched is so for ever, through   *)
(* the failures of every other write and through crashes and exits at any  *)
(* point.                                                                  *)
THEOREM ProfilesKept ==
  ASSUME Durable
  PROVE  Spec => []Kept
<1>1. Init => Base /\ PlacedInv /\ FilesInv /\ PatchedInv
  <2>1. Init => PatchedInv
    BY DEF Init, PatchedInv
  <2>. QED BY <2>1, ProfilesAssumption, BaseInit, PlacedInit, FilesInit
<1>2. Base /\ PlacedInv /\ FilesInv /\ PatchedInv /\ [Next]_vars => (Base /\ PlacedInv /\ FilesInv /\ PatchedInv)'
  <2>1. Lossless /\ ReorderAlone
    BY DEF Lossless, Durable
  <2>. QED BY <2>1, ProfilesAssumption, BaseStep, PlacedStep, FilesStep, PatchedStep
<1>3. Base /\ FilesInv /\ PatchedInv => Kept
  <2>1. ASSUME Base, FilesInv, PatchedInv, NEW f \in Due({"in", "patched"}) PROVE f \in Facts(committed)
    <3>1. /\ f \in {"in", "patched", "current"} \X Mains /\ f[1] \in {"in", "patched"} /\ f \in told
          /\ f[2] \notin gone
      BY <2>1 DEF Due, Base, Types
    <3>2. f = <<f[1], f[2]>> /\ f[2] \in Mains
      BY <3>1
    <3>3. CASE f[1] = "in"
      <4>1. f[2] \in Has(committed)
        BY <2>1, <3>1, <3>2, <3>3 DEF FilesInv, Stays
      <4>. QED BY <3>2, <3>3, <4>1 DEF Facts
    <3>4. CASE f[1] = "patched"
      <4>1. f[2] \in committed.patched
        BY <2>1, <3>1, <3>2, <3>4 DEF PatchedInv
      <4>. QED BY <3>2, <3>4, <4>1 DEF Facts
    <3>. QED BY <3>1, <3>3, <3>4
  <2>. QED BY <2>1 DEF Kept
<1>. QED BY <1>1, <1>2, <1>3, PTL DEF Spec

-----------------------------------------------------------------------------
(* The file follows the list.                                              *)

(* A call that will save the list as it is in memory.                      *)
Saves(c) ==
  \/ c.pc = "closure" /\ ~c.stale /\ Head(c.jobs).do # "append"
  \/ /\ c.pc = "ready" \/ (c.pc = "closure" /\ ~c.stale)
     /\ \A j \in Range(c.jobs) : j.do \in {"append", "save"}

(* Some call will save the list; some call that has not begun its closure  *)
(* will.                                                                   *)
SomeSaves == \E s \in Tasks : Saves(calls[s])
SomeReady == \E s \in Tasks : calls[s].pc = "ready" /\ Saves(calls[s])

(* Of a closure that has done its steps: the list it saved is its own.     *)
SavedOf(c, d) == c.pc = "closure" /\ c.steps = <<>> /\ Head(c.jobs).do # "append" => d = c.local

(* Where profiles.yaml is behind, a call that will save the list is under  *)
(* way; and where a closure is about to fail its commit, so is one that    *)
(* has yet to begin, so the older list that was written is overwritten.    *)
DiskInv ==
  /\ disk = committed \/ SomeSaves
  /\ \A t \in Tasks : calls[t].pc = "closure" /\ calls[t].stale => SomeReady
  /\ \A t \in Tasks : SavedOf(calls[t], disk)

(* The file is the list at the start.                                      *)
LEMMA DiskInit ==
  ASSUME ProfilesAssumption, Init
  PROVE  DiskInv
<1>1. disk = committed /\ \A t \in Tasks : calls[t] = Idle
  BY DEF Init
<1>. QED BY <1>1, IdleWell DEF DiskInv, SavedOf

(* A new call.                                                             *)
LEMMA DiskCalled ==
  ASSUME DiskInv, NEW t \in Tasks, OnlyOf(t), calls[t] = Idle, calls'[t].pc # "closure", UNCHANGED <<committed, disk>>
  PROVE  DiskInv'
<1>1. Idle.pc = "idle" /\ ~Saves(Idle)
  BY IdleWell DEF Saves
<1>2. \A s \in Tasks \ {t} : calls'[s] = calls[s]
  BY DEF OnlyOf
<1>3. SomeSaves => SomeSaves'
  BY <1>1, <1>2 DEF SomeSaves
<1>4. SomeReady => SomeReady'
  BY <1>1, <1>2 DEF SomeReady
<1>5. \A s \in Tasks : calls'[s].pc = "closure" => calls'[s] = calls[s]
  BY <1>2
<1>. QED BY <1>3, <1>4, <1>5 DEF DiskInv, SavedOf

(* DiskInv is kept when a closure begins.                                  *)
LEMMA DiskBegin ==
  ASSUME ProfilesAssumption, ReorderAlone, Base, PlacedInv, DiskInv, NEW t \in Tasks, Begin(t)
  PROVE  DiskInv'
<1> DEFINE c == calls[t]
           job == Head(c.jobs)
<1>1. /\ c.pc = "ready" /\ permit = None /\ UNCHANGED <<committed, disk>>
      /\ IF Possible(job, committed) THEN Modify(t) ELSE Advance(t, FALSE)
  BY DEF Begin
<1>2. CallsTyped /\ c \in CallSet /\ CallOf(c, gone) /\ gone \subseteq Mains /\ committed \in Value
  BY DEF Base, Types, WellCall
<1>3. job \in Job /\ job \in Range(c.jobs) /\ Proper(job)
  BY <1>1, <1>2, HeadIs
<1>4. \A s \in Tasks : calls[s].pc # "closure"
  BY <1>1, Names DEF Base, Held
<1>5. CASE ~Possible(job, committed)
  <2>1. job.do \in {"delete", "patch", "update"} /\ Advance(t, FALSE)
    BY <1>1, <1>5 DEF Possible
  <2>2. OnlyOf(t) /\ calls'[t] = Idle
    BY <1>2, <2>1, NotFine
  <2>3. ~Saves(c)
    BY <1>1, <1>3, <2>1 DEF Saves
  <2>4. SomeSaves => SomeSaves'
    BY <2>2, <2>3 DEF SomeSaves, OnlyOf
  <2>5. \A s \in Tasks : calls'[s].pc # "closure"
    BY <1>4, <2>2, IdleWell DEF OnlyOf
  <2>. QED BY <1>1, <2>4, <2>5 DEF DiskInv, SavedOf
<1>6. CASE Possible(job, committed)
  <2>1. OnlyOf(t) /\ calls'[t] = InClosure(c, committed)
    BY <1>1, <1>2, <1>6, ModifyIs
  <2>2. /\ calls'[t].jobs = c.jobs /\ calls'[t].pc = "closure" /\ calls'[t].steps = Steps(job, committed)
        /\ calls'[t].stale = FALSE
    BY <2>1 DEF InClosure, CallWith
  <2>3. Saves(c) => Saves(calls'[t])
    BY <1>1, <2>2 DEF Saves
  <2>4. SomeSaves => SomeSaves'
    BY <2>1, <2>3 DEF SomeSaves, OnlyOf
  <2>5. \A s \in Tasks : calls'[s].pc = "closure" => s = t
    BY <1>4, <2>1 DEF OnlyOf
  <2>6. Steps(job, committed) # <<>>
    <3>1. Placed(job, committed)
      BY <1>3 DEF PlacedInv
    <3>. QED BY <1>3, <3>1, StepsAre
  <2>. QED BY <1>1, <2>2, <2>4, <2>5, <2>6 DEF DiskInv, SavedOf
<1>. QED BY <1>5, <1>6

(* DiskInv is kept when a closure does a step.                             *)
LEMMA DiskDiskStep ==
  ASSUME ProfilesAssumption, Base, DiskInv, NEW t \in Tasks, DiskStep(t)
  PROVE  DiskInv'
<1> DEFINE c == calls[t]
           step == Head(c.steps)
<1>1. /\ c.pc = "closure" /\ c.steps # <<>> /\ UNCHANGED committed
      /\ CASE step[1] = "write" -> files' = files \cup {step[2]} /\ UNCHANGED disk
           [] step[1] = "remove" -> files' = files \ {step[2]} /\ UNCHANGED disk
           [] step[1] = "save" -> disk' = c.local /\ UNCHANGED files
  BY DEF DiskStep
<1>2. CallsTyped /\ c \in CallSet /\ c.steps \in Seq(Step) /\ ClosureOf(c, committed, gone) /\ permit = t
  BY <1>1, CallIs DEF Base, WellCall, Held
<1>3. step[1] \in {"write", "remove", "save"} /\ step \in Range(c.steps)
  BY <1>1, <1>2, StepIs
<1>4. OnlyOf(t) /\ calls'[t] = AfterStep(c)
  BY <1>2, StepMade
<1>5. /\ calls'[t].pc = c.pc /\ calls'[t].jobs = c.jobs /\ calls'[t].steps = Tail(c.steps)
      /\ calls'[t].local = c.local /\ calls'[t].stale = c.stale
  BY <1>4, AfterStepFields
<1>6. Saves(calls'[t]) <=> Saves(c)
  BY <1>5 DEF Saves
<1>7. SomeSaves => SomeSaves'
  BY <1>4, <1>6 DEF SomeSaves, OnlyOf
<1>8. SomeReady => SomeReady'
  BY <1>4, <1>5, <1>6 DEF SomeReady, OnlyOf
<1>9. SomeReady => SomeSaves
  BY DEF SomeReady, SomeSaves
<1>10. disk' = committed' \/ SomeSaves'
  <2>1. CASE step[1] # "save"
    BY <1>1, <1>3, <1>7, <2>1 DEF DiskInv
  <2>2. CASE step[1] = "save" /\ ~c.stale
    <3>1. Head(c.jobs).do # "append"
      BY <1>1, <1>2, <1>3, <2>2 DEF ClosureOf
    <3>2. Saves(c)
      BY <1>1, <2>2, <3>1 DEF Saves
    <3>. QED BY <1>7, <3>2 DEF SomeSaves
  <2>3. CASE c.stale
    BY <1>1, <1>7, <1>9, <2>3 DEF DiskInv
  <2>. QED BY <2>1, <2>2, <2>3
<1>11. \A s \in Tasks \ {t} : calls'[s] = calls[s] /\ calls[s].pc # "closure"
  BY <1>2, <1>4 DEF OnlyOf, Base, Held
<1>12. SavedOf(calls'[t], disk')
  <2>1. CASE Tail(c.steps) # <<>>
    BY <1>5, <2>1 DEF SavedOf
  <2>2. CASE Tail(c.steps) = <<>>
    <3>1. step = Last(c.steps)
      BY <1>1, <1>2, <2>2, TailIs
    <3>2. step = <<IF Head(c.jobs).do = "append" THEN "write" ELSE "save", Head(c.jobs).uid>>
      BY <1>1, <1>2, <3>1 DEF ClosureOf
    <3>3. step[1] = (IF Head(c.jobs).do = "append" THEN "write" ELSE "save")
      BY <3>2
    <3>4. Head(c.jobs).do # "append" => disk' = c.local
      BY <1>1, <3>3
    <3>. QED BY <1>5, <3>4 DEF SavedOf
  <2>. QED BY <2>1, <2>2
<1>13. \A s \in Tasks : SavedOf(calls'[s], disk')
  BY <1>11, <1>12 DEF SavedOf
<1>14. \A s \in Tasks : calls'[s].pc = "closure" /\ calls'[s].stale => SomeReady'
  BY <1>1, <1>5, <1>8, <1>11 DEF DiskInv
<1>. QED BY <1>10, <1>13, <1>14 DEF DiskInv

(* DiskInv is kept when a closure ends.                                    *)
LEMMA DiskCommit ==
  ASSUME ProfilesAssumption, Base, DiskInv, NEW t \in Tasks, Commit(t)
  PROVE  DiskInv'
<1> DEFINE c == calls[t]
           job == Head(c.jobs)
           ok == ~c.stale
<1>1. /\ c.pc = "closure" /\ c.steps = <<>> /\ ok \in BOOLEAN /\ Advance(t, ok) /\ UNCHANGED disk
      /\ committed' = IF c.stale THEN committed ELSE c.local
  BY DEF Commit
<1>2. /\ CallsTyped /\ c \in CallSet /\ CallOf(c, gone) /\ permit = t /\ gone \subseteq Mains
      /\ SavedOf(c, disk)
  BY <1>1 DEF Base, Types, WellCall, Held, DiskInv
<1>3. /\ c.jobs \in Seq(Job) /\ c.jobs # <<>> /\ job \in Range(c.jobs) /\ JobOf(c, job, gone)
  BY <1>1, <1>2, HeadIs
<1> HIDE DEF ok
<1>4. /\ OnlyOf(t)
      /\ \/ calls'[t] = Idle /\ ~Fine(c, ok)
         \/ calls'[t] = Idle /\ Len(c.jobs) = 1
         \/ calls'[t] = NextJob(c) /\ Len(c.jobs) # 1
  BY <1>1, <1>2, AdvanceIs
<1>5. \A s \in Tasks : calls'[s].pc # "closure"
  <2>1. calls'[t].pc # "closure"
    BY <1>4, IdleWell, NextFields
  <2>2. \A s \in Tasks \ {t} : calls'[s].pc # "closure"
    BY <1>2, <1>4 DEF OnlyOf, Base, Held
  <2>. QED BY <2>1, <2>2
<1>6. disk' = committed' \/ SomeSaves'
  <2>1. CASE c.stale
    <3>1. PICK s \in Tasks : calls[s].pc = "ready" /\ Saves(calls[s])
      BY <1>1, <2>1 DEF DiskInv, SomeReady
    <3>2. s # t /\ calls'[s] = calls[s]
      BY <1>1, <1>4, <3>1 DEF OnlyOf
    <3>. QED BY <3>1, <3>2 DEF SomeSaves
  <2>2. CASE ~c.stale /\ job.do # "append"
    BY <1>1, <1>2, <2>2 DEF SavedOf
  <2>3. CASE ~c.stale /\ job.do = "append"
    <3>1. c.op = "import" /\ \A j \in Range(c.jobs) : j.do \in {"append", "save"}
      BY <1>1, <1>2, <1>3, <2>3 DEF CallOf, JobOf
    <3>2. Len(c.jobs) # 1
      <4>1. Len(c.jobs) = 1 => Last(c.jobs) = job
        BY <1>3, TailIs
      <4>. QED BY <1>1, <1>2, <2>3, <3>1, <4>1 DEF CallOf, LastDo
    <3>3. Fine(c, ok)
      BY <2>3 DEF Fine, ok
    <3>4. calls'[t] = NextJob(c)
      BY <1>4, <3>2, <3>3
    <3>5. calls'[t].pc = "ready" /\ calls'[t].jobs = Tail(c.jobs)
      BY <3>4, NextFields
    <3>6. Range(Tail(c.jobs)) \subseteq Range(c.jobs)
      BY <1>3, TailIs
    <3>7. Saves(calls'[t])
      BY <3>1, <3>5, <3>6 DEF Saves
    <3>. QED BY <3>7 DEF SomeSaves
  <2>. QED BY <2>1, <2>2, <2>3
<1>. QED BY <1>5, <1>6 DEF DiskInv, SavedOf

(* A switch that ends saves the list next; until then others may have      *)
(* become stale.                                                           *)
LEMMA DiskSwitch ==
  ASSUME ProfilesAssumption, Base, DiskInv, NEW t \in Tasks, SwitchOk(t) \/ SwitchRefused(t)
  PROVE  DiskInv'
<1> DEFINE c == calls[t]
<1>1. c.pc = "updating" /\ UNCHANGED disk
  BY DEF SwitchOk, SwitchRefused
<1>2. CallsTyped /\ c \in CallSet /\ CallOf(c, gone) /\ c.op = "switch"
  BY <1>1 DEF Base, WellCall, CallOf
<1>3. \A j \in Range(c.jobs) : j.do = "save"
  BY <1>2 DEF CallOf, JobOf
<1>4. ~Saves(c)
  BY <1>1 DEF Saves
<1>5. CASE /\ UNCHANGED committed /\ OnlyOf(t) /\ calls'[t] = Idle
  <2>1. (SomeSaves => SomeSaves') /\ (SomeReady => SomeReady')
    BY <1>1, <1>4, <1>5 DEF SomeSaves, SomeReady, OnlyOf
  <2>2. \A s \in Tasks : calls'[s].pc = "closure" => calls'[s] = calls[s]
    BY <1>5, IdleWell DEF OnlyOf
  <2>. QED BY <1>1, <1>5, <2>1, <2>2 DEF DiskInv, SavedOf
<1>6. CASE /\ \A s \in Tasks \ {t} : calls'[s] = calls[s] \/ calls'[s] = Staled(calls[s])
           /\ calls'[t] \in {Applied(c), Restored(c)}
  <2>1. calls'[t].pc = "ready" /\ calls'[t].jobs = c.jobs
    <3>1. CASE calls'[t] = Applied(c)
      BY <3>1 DEF Applied, CallWith
    <3>2. CASE calls'[t] = Restored(c)
      BY <3>2 DEF Restored, CallWith
    <3>. QED BY <1>6, <3>1, <3>2
  <2>2. Saves(calls'[t])
    BY <1>3, <2>1 DEF Saves
  <2>3. SomeSaves' /\ SomeReady'
    BY <2>1, <2>2 DEF SomeSaves, SomeReady
  <2>4. ASSUME NEW s \in Tasks PROVE SavedOf(calls'[s], disk')
    <3>1. CASE s = t
      BY <2>1, <3>1 DEF SavedOf
    <3>2. CASE s # t
      <4>1. /\ calls'[s].pc = calls[s].pc /\ calls'[s].jobs = calls[s].jobs /\ calls'[s].steps = calls[s].steps
            /\ calls'[s].local = calls[s].local
        BY <1>6, <3>2, StaledFields
      <4>. QED BY <1>1, <4>1 DEF DiskInv, SavedOf
    <3>. QED BY <3>1, <3>2
  <2>. QED BY <2>3, <2>4 DEF DiskInv
<1>7. CASE SwitchOk(t)
  BY <1>2, <1>6, <1>7, SwitchOkIs DEF OthersOf
<1>8. CASE SwitchRefused(t)
  BY <1>2, <1>5, <1>6, <1>8, SwitchRefusedIs DEF OthersOf
<1>. QED BY <1>7, <1>8

(* DiskInv is kept by every step.                                          *)
LEMMA DiskStepIs ==
  ASSUME ProfilesAssumption, ReorderAlone, Failing = {}, Base, PlacedInv, DiskInv, [Next]_vars
  PROVE  DiskInv'
<1>0. CallsTyped
  BY DEF Base
<1>1. ASSUME NEW t \in Tasks, NEW op, NEW u \in Mains, NEW over \in Mains, Call(t, op, u, over) PROVE DiskInv'
  <2>1. OnlyOf(t) /\ calls'[t] = CallWith(op, "ready", u, Jobs(op, u, over), <<>>, Empty, FALSE)
    BY <1>0, <1>1, CallMade
  <2>2. calls'[t].pc = "ready"
    BY <2>1 DEF CallWith
  <2>. QED BY <1>1, <2>1, <2>2, DiskCalled DEF Call
<1>2. ASSUME NEW t \in Tasks, NEW u \in Mains, CallSwitch(t, u) PROVE DiskInv'
  <2>1. OnlyOf(t) /\ calls'[t] = CallWith("switch", "updating", u, Jobs("switch", u, u), <<>>, committed, FALSE)
    BY <1>0, <1>2, SwitchMade
  <2>2. calls'[t].pc = "updating"
    BY <2>1 DEF CallWith
  <2>. QED BY <1>2, <2>1, <2>2, DiskCalled DEF CallSwitch
<1>3. ASSUME NEW t \in Tasks, Serve(t) PROVE DiskInv'
  <2>1. ~FailStep(t)
    BY DEF FailStep
  <2>. QED BY <1>3, <2>1, DiskBegin, DiskDiskStep, DiskCommit, DiskSwitch DEF Serve
<1>4. CASE Crash \/ Quit
  <2>1. disk' = committed' /\ \A t \in Tasks : calls'[t] = Idle
    BY <1>4 DEF Crash, Quit, Boot
  <2>. QED BY <2>1, IdleWell DEF DiskInv, SavedOf
<1>5. CASE UNCHANGED vars
  BY <1>5 DEF vars, DiskInv, SomeSaves, SomeReady
<1>. QED BY <1>1, <1>2, <1>3, <1>4, <1>5 DEF Next

(* When nothing fails and no call is under way, profiles.yaml is the list  *)
(* in memory, although two saves may cross a commit.                       *)
THEOREM ProfilesDisk ==
  ASSUME Failing = {}, ReorderAlone
  PROVE  Spec => []DiskInStep
<1>1. Init => Base /\ PlacedInv /\ DiskInv
  BY ProfilesAssumption, BaseInit, PlacedInit, DiskInit
<1>2. Base /\ PlacedInv /\ DiskInv /\ [Next]_vars => (Base /\ PlacedInv /\ DiskInv)'
  BY ProfilesAssumption, BaseStep, PlacedStep, DiskStepIs
<1>3. DiskInv => DiskInStep
  BY IdleWell DEF DiskInv, DiskInStep, SomeSaves, Saves
<1>. QED BY <1>1, <1>2, <1>3, PTL DEF Spec

-----------------------------------------------------------------------------
(* The items have their files.                                             *)

(* No profile is taken out of the list: delete_item removes the files      *)
(* before it saves the list, so the files may be gone when the save fails. *)
NothingLeaves == {"delete", "switch"} \cap Ops = {}

(* The lists in memory and on disk have their files, and so has an item    *)
(* about to be appended.                                                   *)
HaveInv ==
  /\ Has(committed) \subseteq files /\ Has(disk) \subseteq files
  /\ \A t \in Tasks : calls[t].pc = "closure" /\ calls[t].steps = <<>> /\ Head(calls[t].jobs).do = "append"
                        => Head(calls[t].jobs).uid \in files

(* Without a deletion files are only added.                                *)
LEMMA HaveMoves ==
  ASSUME Base, HaveInv, NEW t \in Tasks, OnlyOf(t), files \subseteq files',
         Has(committed') \subseteq files', Has(disk') \subseteq files',
         calls'[t].pc = "closure" /\ calls'[t].steps = <<>> /\ Head(calls'[t].jobs).do = "append"
           => Head(calls'[t].jobs).uid \in files'
  PROVE  HaveInv'
BY DEF HaveInv, OnlyOf

(* After a modification no closure of the task runs.                       *)
LEMMA AdvanceLeaves ==
  ASSUME Base, NEW t \in Tasks, NEW ok \in BOOLEAN, Advance(t, ok)
  PROVE  OnlyOf(t) /\ calls'[t].pc # "closure"
<1>1. OnlyOf(t) /\ (calls'[t] = Idle \/ calls'[t] = NextJob(calls[t]))
  BY AdvanceIs DEF Base
<1>2. CASE calls'[t] = Idle
  BY <1>1, <1>2, IdleWell
<1>3. CASE calls'[t] = NextJob(calls[t])
  BY <1>1, <1>3, NextFields
<1>. QED BY <1>1, <1>2, <1>3

(* HaveInv is kept by every step.                                          *)
LEMMA HaveStep ==
  ASSUME ProfilesAssumption, NothingLeaves, Base, HaveInv, [Next]_vars
  PROVE  HaveInv'
<1>0. CallsTyped /\ committed \in Value /\ gone \subseteq Mains
  BY DEF Base, Types
<1>1. ASSUME NEW t \in Tasks, NEW op, NEW u \in Mains, NEW over \in Mains, Call(t, op, u, over) PROVE HaveInv'
  <2>1. OnlyOf(t) /\ calls'[t] = CallWith(op, "ready", u, Jobs(op, u, over), <<>>, Empty, FALSE)
    BY <1>0, <1>1, CallMade
  <2>2. calls'[t].pc = "ready"
    BY <2>1 DEF CallWith
  <2>3. UNCHANGED <<committed, disk, files>>
    BY <1>1 DEF Call
  <2>. QED BY <2>1, <2>2, <2>3, HaveMoves DEF HaveInv
<1>2. ASSUME NEW t \in Tasks, NEW u \in Mains, CallSwitch(t, u) PROVE HaveInv'
  BY <1>2 DEF CallSwitch, Called, NothingLeaves
<1>3. ASSUME NEW t \in Tasks, Begin(t) PROVE HaveInv'
  <2>1. /\ calls[t].pc = "ready" /\ UNCHANGED <<committed, disk, files>> /\ (Modify(t) \/ Advance(t, FALSE))
    BY <1>3 DEF Begin
  <2>2. CASE Modify(t)
    <3>1. OnlyOf(t) /\ calls'[t] = InClosure(calls[t], committed)
      BY <1>0, <2>2, ModifyIs
    <3>2. calls'[t].jobs = calls[t].jobs /\ calls'[t].steps = Steps(Head(calls[t].jobs), committed)
      BY <3>1, ClosureFields
    <3>3. Head(calls[t].jobs) \in Job /\ Proper(Head(calls[t].jobs))
      BY <1>0, <2>1, HeadIs DEF Base, WellCall
    <3>4. Head(calls[t].jobs).do = "append" => Steps(Head(calls[t].jobs), committed) # <<>>
      BY <3>3, StepsAre DEF Placed
    <3>. QED BY <2>1, <3>1, <3>2, <3>4, HaveMoves DEF HaveInv
  <2>3. CASE Advance(t, FALSE)
    <3> DEFINE ok == FALSE
    <3>1. ok \in BOOLEAN /\ Advance(t, ok)
      BY <2>3
    <3> HIDE DEF ok
    <3>2. OnlyOf(t) /\ calls'[t].pc # "closure"
      BY <2>1, <3>1, AdvanceLeaves
    <3>. QED BY <2>1, <3>2, HaveMoves DEF HaveInv
  <2>. QED BY <2>1, <2>2, <2>3
<1>4. ASSUME NEW t \in Tasks, DiskStep(t) PROVE HaveInv'
  <2> DEFINE c == calls[t]
             step == Head(c.steps)
             job == Head(c.jobs)
  <2>1. /\ c.pc = "closure" /\ c.steps # <<>> /\ UNCHANGED committed
        /\ CASE step[1] = "write" -> files' = files \cup {step[2]} /\ UNCHANGED disk
             [] step[1] = "remove" -> files' = files \ {step[2]} /\ UNCHANGED disk
             [] step[1] = "save" -> disk' = c.local /\ UNCHANGED files
    BY <1>4 DEF DiskStep
  <2>2. /\ c \in CallSet /\ c.steps \in Seq(Step) /\ CallOf(c, gone) /\ ClosureOf(c, committed, gone)
    BY CallIs DEF Base, WellCall
  <2>3. step[1] \in {"write", "remove", "save"} /\ step \in Range(c.steps)
    BY <2>1, <2>2, StepIs
  <2>4. job \in Job /\ Proper(job) /\ job \in Range(c.jobs) /\ JobOf(c, job, gone)
    BY <1>0, <2>1, <2>2, HeadIs
  <2>5. OnlyOf(t) /\ calls'[t] = AfterStep(c)
    BY <1>0, <1>4, StepMade
  <2>6. calls'[t].jobs = c.jobs /\ calls'[t].steps = Tail(c.steps)
    BY <2>5, AfterStepFields
  <2>7. c.local = Result(job, committed) /\ step[1] # "remove"
    <3>1. ~c.stale
      BY <2>1, <2>2 DEF ClosureOf, NothingLeaves
    <3>2. job.do # "delete"
      BY <2>4 DEF JobOf, NothingLeaves
    <3>. QED BY <2>1, <2>2, <2>3, <3>1, <3>2 DEF ClosureOf
  <2>8. Has(c.local) \subseteq Has(committed) \cup {job.uid} /\ (job.do # "append" => Has(c.local) \subseteq Has(committed))
    BY <1>0, <2>4, <2>7, ResultIs
  <2>9. step[1] = "save" => job.do # "append"
    BY <2>1, <2>2, <2>3 DEF ClosureOf
  <2>10. files \subseteq files' /\ Has(committed') \subseteq files' /\ Has(disk') \subseteq files'
    <3>1. CASE step[1] = "write"
      BY <2>1, <3>1 DEF HaveInv
    <3>2. CASE step[1] = "save"
      BY <2>1, <2>8, <2>9, <3>2 DEF HaveInv
    <3>. QED BY <2>3, <2>7, <3>1, <3>2
  <2>11. Tail(c.steps) = <<>> /\ job.do = "append" => job.uid \in files'
    <3>1. SUFFICES ASSUME Tail(c.steps) = <<>>, job.do = "append" PROVE job.uid \in files'
      OBVIOUS
    <3>2. step = Last(c.steps)
      BY <2>1, <2>2, <3>1, TailIs
    <3>3. step = <<"write", job.uid>>
      BY <2>1, <2>2, <3>1, <3>2 DEF ClosureOf
    <3>4. step[1] = "write" /\ step[2] = job.uid
      BY <3>3
    <3>. QED BY <2>1, <3>4
  <2>. QED BY <2>5, <2>6, <2>10, <2>11, HaveMoves
<1>5. ASSUME NEW t \in Tasks, FailStep(t) PROVE HaveInv'
  <2> DEFINE ok == FALSE
  <2>1. calls[t].pc = "closure" /\ ok \in BOOLEAN /\ Advance(t, ok) /\ UNCHANGED <<committed, disk, files>>
    BY <1>5 DEF FailStep
  <2> HIDE DEF ok
  <2>2. OnlyOf(t) /\ calls'[t].pc # "closure"
    BY <2>1, AdvanceLeaves
  <2>. QED BY <2>1, <2>2, HaveMoves DEF HaveInv
<1>6. ASSUME NEW t \in Tasks, Commit(t) PROVE HaveInv'
  <2> DEFINE c == calls[t]
             job == Head(c.jobs)
             ok == ~c.stale
  <2>1. c.pc = "closure" /\ c.steps = <<>> /\ ok \in BOOLEAN /\ Advance(t, ok) /\ UNCHANGED <<disk, files>>
    BY <1>6 DEF Commit
  <2>2. /\ job \in Job /\ Proper(job)
        /\ committed' = IF c.stale THEN committed ELSE Result(job, committed)
    BY <1>6, CommitIs
  <2>3. job.do = "append" => job.uid \in files
    BY <2>1 DEF HaveInv
  <2> HIDE DEF ok, job
  <2>4. OnlyOf(t) /\ calls'[t].pc # "closure"
    BY <2>1, AdvanceLeaves
  <2>5. Has(committed') \subseteq files
    <3>1. Has(Result(job, committed)) \subseteq Has(committed) \cup {job.uid}
          /\ (job.do # "append" => Has(Result(job, committed)) \subseteq Has(committed))
      BY <1>0, <2>2, ResultIs
    <3>. QED BY <2>2, <2>3, <3>1 DEF HaveInv
  <2>. QED BY <2>1, <2>4, <2>5, HaveMoves DEF HaveInv
<1>7. ASSUME NEW t \in Tasks, SwitchOk(t) \/ SwitchRefused(t) PROVE HaveInv'
  <2>1. calls[t].pc = "updating" /\ calls[t] \in CallSet /\ calls[t].op = "switch"
    BY <1>7 DEF SwitchOk, SwitchRefused, Base, WellCall, CallOf
  <2>. QED BY <2>1, CallIs DEF NothingLeaves
<1>8. CASE Crash \/ Quit
  <2>1. /\ committed' \in {disk, committed} /\ disk' = committed' /\ files' = files \cap Has(committed')
        /\ \A t \in Tasks : calls'[t] = Idle
    BY <1>8 DEF Crash, Quit, Boot, Latest, Base, NothingLeaves
  <2>. QED BY <2>1, IdleWell DEF HaveInv
<1>9. CASE UNCHANGED vars
  BY <1>9 DEF vars, HaveInv
<1>. QED BY <1>1, <1>2, <1>3, <1>4, <1>5, <1>6, <1>7, <1>8, <1>9 DEF Next, Serve

(* Every item of the list has its file, whatever fails and whenever the    *)
(* process dies.                                                           *)
THEOREM ProfilesFilesExist ==
  ASSUME NothingLeaves
  PROVE  Spec => []FilesExist
<1>1. Init => Base /\ HaveInv
  BY ProfilesAssumption, BaseInit, IdleWell DEF Init, HaveInv
<1>2. Base /\ HaveInv /\ [Next]_vars => (Base /\ HaveInv)'
  BY ProfilesAssumption, BaseStep, HaveStep
<1>3. HaveInv => FilesExist
  BY DEF HaveInv, FilesExist
<1>. QED BY <1>1, <1>2, <1>3, PTL DEF Spec
=============================================================================

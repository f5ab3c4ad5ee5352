------------------------- MODULE SampleSetsRefinement -------------------------
(***************************************************************************)
(* SampleSets implements SetQueue: the linked list, malloc and free keep   *)
(* what the queue of sample sets promises, for any number of records and   *)
(* any commands, until one is served where it does harm.                   *)
(***************************************************************************)
EXTENDS SampleSetsProofs, FiniteSetTheorems

----------------------------------------------------------------------------
(* The invariant: the counts in the records *)

\* Between the last count and the store of the new head the set is over.
Over == pc \in {"rm", "next", "store"}

Counts ==
    /\ Over => queue # NULL /\ num[queue] = 0
    /\ pc = "count" => d = queue
    /\ \A c \in Range(order) : num[c] > 0 \/ (c = queue /\ Over)
    /\ handler = "walk" => \E r \in Requests : Acceptable(r) /\ r.num = num[new]

USE CellsAssumption

CInv == IInv /\ (overlap = "none" => Counts)

\* What the queue promises to hold
sets == [k \in DOMAIN order |-> num[order[k]]]

----------------------------------------------------------------------------
(* Sequences and cardinalities *)

\* The ghost queue is a sequence; its first record is the list's head.
LEMMA OrderFacts ==
    ASSUME TypeOK, Linked
    PROVE  /\ order \in Seq(Cells) /\ Len(order) \in Nat /\ DOMAIN order = 1 .. Len(order)
           /\ \A k \in DOMAIN order : order[k] \in Cells /\ order[k] \in Range(order)
           /\ queue = NULL <=> order = <<>>
           /\ queue # NULL => 1 \in DOMAIN order /\ queue = order[1] /\ queue \in Range(order)
  <1>1. order \in Seq(Cells) /\ Len(order) \in Nat /\ DOMAIN order = 1 .. Len(order)
    BY DEF TypeOK
  <1>2. \A k \in DOMAIN order : order[k] \in Cells /\ order[k] \in Range(order)
    BY <1>1 DEF Range
  <1>3. order # <<>> => 1 \in DOMAIN order
    BY <1>1, TailFacts
  <1> QED BY <1>1, <1>2, <1>3 DEF Linked

\* As many sets are queued as records are linked.
LEMMA LinkedRecords ==
    ASSUME TypeOK, Linked
    PROVE  IsFiniteSet(Range(order)) /\ Cardinality(Range(order)) = Len(order)
  <1>1. order \in [1 .. Len(order) -> Range(order)] /\ Len(order) \in Nat
    BY OrderFacts DEF Range
  <1>2. order \in Bijection(1 .. Len(order), Range(order))
    <2>1. order \in Injection(1 .. Len(order), Range(order))
      BY <1>1, OrderFacts DEF Injection, IsInjective, Linked
    <2>2. \A c \in Range(order) : \E k \in 1 .. Len(order) : order[k] = c
      BY OrderFacts DEF Range
    <2> QED BY <1>1, <2>1, <2>2 DEF Bijection, Surjection
  <1>3. IsFiniteSet(1 .. Len(order)) /\ Cardinality(1 .. Len(order)) = Len(order)
    <2>1. 1 \in Int /\ Len(order) \in Int
      BY <1>1
    <2>2. /\ IsFiniteSet(1 .. Len(order))
          /\ Cardinality(1 .. Len(order)) = IF 1 > Len(order) THEN 0 ELSE Len(order) - 1 + 1
      BY <2>1, FS_Interval
    <2> QED BY <1>1, <2>2
  <1> QED BY <1>2, <1>3, FS_Bijection DEF ExistsBijection

\* The heap holds them and the leaked ones.
LEMMA Taken ==
    ASSUME TypeOK, Linked, Accounted
    PROVE  /\ IsFiniteSet(Range(order) \cup lost) /\ IsFiniteSet(lost)
           /\ Cardinality(lost) \in Nat
           /\ Cardinality(Range(order) \cup lost) = Len(order) + Cardinality(lost)
  <1>1. IsFiniteSet(lost) /\ Cardinality(lost) \in Nat
    BY FS_Subset, FS_CardinalityType DEF TypeOK
  <1>2. Cardinality(Range(order) \cap lost) = 0
    BY FS_EmptySet DEF Accounted
  <1>3. Len(order) \in Nat
    BY OrderFacts
  <1> QED BY <1>1, <1>2, <1>3, LinkedRecords, FS_Union

\* A record that is in neither is room for one more.
LEMMA Room ==
    ASSUME TypeOK, Linked, Accounted, NEW c \in Cells, c \notin Range(order), c \notin lost
    PROVE  Len(order) + Cardinality(lost) < Cardinality(Cells)
  <1>1. Range(order) \cup lost \subseteq Cells \ {c}
    BY OrderFacts DEF Range, TypeOK
  <1>2. IsFiniteSet(Cells \ {c}) /\ Cardinality(Cells \ {c}) = Cardinality(Cells) - 1
    BY FS_RemoveElement
  <1>3. Cardinality(Range(order) \cup lost) <= Cardinality(Cells) - 1
    BY <1>1, <1>2, FS_Subset
  <1>4. Cardinality(Cells) \in Nat
    BY FS_CardinalityType
  <1> QED BY <1>3, <1>4, Taken, OrderFacts

----------------------------------------------------------------------------
(* The counts *)

LEMMA CountsInit == Init => Counts
  BY DEF Init, Counts, Over, Range

\* As long as no command does harm, what has been counted is as it should be.
LEMMA CountsStep ==
    ASSUME IInv, IInv', Counts, overlap = "none", overlap' = "none", [Next]_vars
    PROVE  Counts'
  <1> USE DEF Counts, Over
  <1>a. TypeOK /\ TypeOK' /\ Linked /\ Linked' /\ Accounted /\ Hands
    BY DEF IInv
  <1>b. \A c \in Cells : num[c] \in 0 .. UINT32_MAX
    BY <1>a DEF TypeOK
  <1>c. Range(order) \subseteq Cells
    BY <1>a, OrderFacts DEF Range
  <1>1. ASSUME NEW r \in Requests, Add(r) PROVE Counts'
    <2>1. PICK c \in Cells \ allocated :
             /\ num' = [num EXCEPT ![c] = r.num]
             /\ IF queue = NULL
                THEN /\ queue' = c /\ order' = Append(order, c)
                     /\ UNCHANGED isr
                ELSE /\ handler' = "walk" /\ new' = c
                     /\ UNCHANGED <<queue, order>>
      BY <1>1 DEF Add
    <2>2. /\ handler = "none" /\ UNCHANGED <<pc, d>> /\ Acceptable(r)
          /\ r.num > 0 /\ num' \in [Cells -> 0 .. UINT32_MAX] /\ c \notin Range(order)
      BY <1>1, <2>1, <1>a DEF Add, Command, main, Acceptable, Accounted, TypeOK
    <2>3. \A e \in Range(order) : num'[e] = num[e]
      BY <1>a, <1>c, <2>1, <2>2 DEF TypeOK
    <2>4. num'[c] = r.num
      BY <1>a, <2>1 DEF TypeOK
    <2>5. CASE queue = NULL
      <3>1. Range(order) = {} /\ order \in Seq(Cells)
        BY <1>a, <2>5, OrderFacts DEF Range
      <3>2. order' = Append(order, c) /\ handler' = "none"
        BY <2>1, <2>2, <2>5 DEF isr
      <3>4. Range(order') = {c}
        BY <3>1, <3>2, AppendRange
      <3>3. pc # "count"
        BY <1>a, <2>5 DEF TypeOK
      <3> QED BY <2>1, <2>2, <2>4, <2>5, <3>2, <3>3, <3>4
    <2>6. CASE queue # NULL
      <3>1. UNCHANGED <<queue, order>> /\ handler' = "walk" /\ new' = c
        BY <2>1, <2>6
      <3>2. queue \in Range(order)
        BY <1>a, <2>6, OrderFacts
      <3> QED BY <2>2, <2>3, <2>4, <3>1, <3>2
    <2> QED BY <2>5, <2>6
  <1>2. CASE AddLink
    <2>1. /\ handler = "walk" /\ handler' = "none" /\ order' = Append(order, new)
          /\ UNCHANGED <<queue, num, pc, d>>
      BY <1>2 DEF AddLink, Returns, main
    <2>2. new \in Cells /\ order \in Seq(Cells)
      BY <1>a, <2>1 DEF TypeOK
    <2>3. Range(order') = Range(order) \cup {new}
      BY <2>1, <2>2, AppendRange
    <2>4. num[new] > 0
      BY <2>1 DEF Acceptable
    <2> QED BY <2>1, <2>3, <2>4
  <1>3. CASE Rm
    <2>1. /\ UNCHANGED <<num, pc, d, handler>> /\ handler = "none"
          /\ IF queue = NULL THEN UNCHANGED <<queue, order>>
             ELSE queue' = next[queue] /\ order' = Shorter /\ next' = next
      BY <1>3 DEF Rm, main, isr, Command
    <2>2. CASE queue = NULL
      BY <2>1, <2>2
    <2>3. CASE queue # NULL
      <3>1. ~RmHurts
        BY <1>3, <2>3 DEF Rm, Overlaps
      <3>2. Range(order') = Range(order) \ {queue}
        BY <1>a, <2>1, <2>3, Unlink
      <3> QED BY <2>1, <2>3, <3>1, <3>2 DEF RmHurts
    <2> QED BY <2>2, <2>3
  <1>4. CASE DecCount
    <2>1. /\ num' = [num EXCEPT ![d] = IF @ = 0 THEN UINT32_MAX ELSE @ - 1]
          /\ pc = "count" /\ handler = "none" /\ handler' = "none"
          /\ pc' = IF num'[d] = 0 THEN "rm" ELSE "out"
          /\ UNCHANGED <<queue, order>>
      BY <1>4 DEF DecCount, Step, Goes, isr, ghosts
    <2>2. d \in Cells /\ d = queue
      BY <1>a, <2>1 DEF TypeOK
    <2>3. num[d] > 0
      BY <1>a, <2>1, <2>2, OrderFacts, CellsAssumption
    <2>4. \A c \in Range(order) : c # d => num'[c] = num[c]
      BY <1>a, <1>c, <2>1 DEF TypeOK
    <2>5. num'[d] = num[d] - 1 /\ num'[d] \in Nat
      BY <1>a, <2>1, <2>2, <2>3 DEF TypeOK
    <2>6. ASSUME NEW c \in Range(order) PROVE num'[c] > 0 \/ (c = queue /\ pc' = "rm")
      <3>1. CASE c = d
        <4>1. num'[d] = 0 \/ num'[d] > 0
          <5>1. \A m \in Nat : m = 0 \/ m > 0
            OBVIOUS
          <5> QED BY <2>5, <5>1
        <4>2. CASE num'[d] = 0
          <5>1. pc' = "rm"
            BY <2>1, <4>2
          <5>2. c = queue
            BY <2>2, <3>1
          <5> QED BY <5>1, <5>2
        <4>3. CASE num'[d] > 0
          BY <3>1, <4>3
        <4> QED BY <4>1, <4>2, <4>3
      <3>2. CASE c # d
        BY <2>1, <2>2, <2>4, <2>6, <3>2, <1>b, <1>c
      <3> QED BY <3>1, <3>2
    <2>7. pc' = "rm" => queue # NULL /\ num'[queue] = 0
      BY <2>1, <2>2, CellsAssumption
    <2> QED BY <2>1, <2>6, <2>7
  <1>5. CASE RmStore
    <2>1. /\ pc = "store" /\ pc' = "free" /\ queue' = nx /\ order' = Shorter /\ next' = next
          /\ handler = "none" /\ handler' = "none" /\ num' = num
      BY <1>5 DEF RmStore, Step, Goes, isr
    <2>2. queue # NULL /\ queue' = next[queue]
      BY <1>a, <2>1 DEF Hands
    <2>3. Range(order') = Range(order) \ {queue}
      BY <1>a, <2>1, <2>2, Unlink
    <2> QED BY <2>1, <2>3
  <1>6. CASE DecLoad
    BY <1>6, <1>a DEF DecLoad, Step, Goes, heap, list, isr, ghosts
  <1>7. CASE RmLoad \/ RmNext \/ RmFree \/ Test \/ Overflow \/ Enter \/ Use
    BY <1>7 DEF RmLoad, RmNext, RmFree, Test, Overflow, Enter, Use, Step, Goes,
                heap, list, isr, ghosts
  <1>8. CASE AddFull \/ (\E r \in Requests : AddInvalid(r)) \/ (\E n \in Positions : Qry(n))
    BY <1>8 DEF AddFull, AddInvalid, Qry, Command, heap, list, main, isr, ghosts
  <1>9. CASE AddWalk \/ FindStep \/ FindEnds \/ UNCHANGED vars
    BY <1>9 DEF AddWalk, FindStep, FindEnds, Returns, heap, list, main, isr, ghosts, vars
  <1> QED BY <1>1, <1>2, <1>3, <1>4, <1>5, <1>6, <1>7, <1>8, <1>9 DEF Next, Handler, Host, Main

LEMMA CountsInvariance == Spec => []CInv
  <1>1. Init => overlap = "none"
    BY DEF Init
  <1>2. CInv /\ IInv' /\ [Next]_vars => CInv'
    <2> SUFFICES ASSUME CInv, IInv', [Next]_vars, overlap' = "none" PROVE Counts'
      BY DEF CInv
    <2>1. overlap = "none"
      BY DEF Next, Handler, Host, Main, AddFull, Rm, Add, AddInvalid, Qry, AddWalk, AddLink,
             FindStep, FindEnds, Test, Overflow, Enter, DecLoad, DecCount, RmLoad, RmNext,
             RmStore, RmFree, Use, Overlaps, vars, ghosts
    <2> QED BY <2>1, CountsStep DEF CInv
  <1>3. Init /\ IInv => CInv
    BY CountsInit DEF CInv
  <1> QED BY <1>2, <1>3, Invariance, PTL DEF Spec

----------------------------------------------------------------------------
(* The steps *)

Kept == IInv /\ IInv' /\ Counts /\ overlap = "none" /\ overlap' = "none"

\* What Kept gives the steps
LEMMA KeptFacts ==
    ASSUME Kept
    PROVE  /\ TypeOK /\ Linked /\ Accounted /\ Hands /\ TypeOK' /\ Linked'
           /\ Counts /\ overlap = "none" /\ overlap' = "none"
  BY DEF Kept, IInv

\* A step that leaves the queue, its counts and the answer alone
LEMMA Stutters ==
    ASSUME order' = order, \A k \in DOMAIN order : num'[order[k]] = num[order[k]],
           lost' = lost, overlap' = overlap, answer' = answer
    PROVE  UNCHANGED Promise!vars
  BY DEF Promise!vars

\* ADD with a free record
LEMMA AddKeeps ==
    ASSUME Kept, NEW r \in Requests, Add(r)
    PROVE  Promise!Next
  <1>a. TypeOK /\ Linked /\ Accounted /\ overlap = "none" /\ overlap' = "none"
    BY KeptFacts
  <1>1. PICK c \in Cells \ allocated :
           /\ num' = [num EXCEPT ![c] = r.num]
           /\ IF queue = NULL
              THEN order' = Append(order, c) /\ answer' = "OK"
              ELSE answer' = "none" /\ order' = order
    BY DEF Add
  <1>2. Acceptable(r) /\ lost' = lost
    BY DEF Add
  <1>3. c \notin Range(order) /\ c \notin lost
    BY <1>a, <1>1 DEF Accounted
  <1>4. \A k \in DOMAIN order : num'[order[k]] = num[order[k]]
    BY <1>a, <1>1, <1>3, OrderFacts DEF TypeOK
  <1>5. CASE queue = NULL
    <2>1. order = <<>> /\ order' = <<c>>
      BY <1>a, <1>1, <1>5, OrderFacts
    <2>2. num'[c] = r.num
      BY <1>a, <1>1 DEF TypeOK
    <2>3. sets = <<>>
      BY <2>1 DEF sets
    <2>4. sets' = <<r.num>>
      BY <2>1, <2>2 DEF sets
    <2>5. sets' = Append(sets, r.num) /\ Len(sets) = Len(order)
      BY <2>1, <2>3, <2>4
    <2>6. Len(sets) + Cardinality(lost) < Cardinality(Cells)
      BY <1>a, <1>3, <2>5, Room
    <2>7. Promise!Accept(r)
      BY <1>1, <1>2, <1>5, <1>a, <2>5, <2>6 DEF Promise!Accept, sets
    <2> QED BY <2>7 DEF Promise!Next
  <1>6. CASE queue # NULL
    <2>1. sets' = sets
      BY <1>1, <1>4, <1>6 DEF sets
    <2> QED BY <1>1, <1>2, <1>6, <1>a, <2>1 DEF Promise!Next, Promise!Ask, sets
  <1> QED BY <1>5, <1>6

\* ADD behind the walk
LEMMA AddLinkKeeps ==
    ASSUME Kept, AddLink
    PROVE  Promise!Next
  <1>a. TypeOK /\ Linked /\ Accounted /\ overlap = "none" /\ overlap' = "none"
    BY KeptFacts
  <1>1. /\ handler = "walk" /\ order' = Append(order, new) /\ answer' = "OK"
        /\ num' = num /\ lost' = lost
    BY DEF AddLink
  <1>2. PICK r \in Requests : Acceptable(r) /\ r.num = num[new]
    BY <1>1, KeptFacts DEF Counts
  <1>3. new \in Cells /\ new \notin Range(order) /\ new \notin lost
    BY <1>a, <1>1 DEF TypeOK, Accounted
  <1>4. order \in Seq(Cells) /\ Len(order) \in Nat /\ DOMAIN order = 1 .. Len(order)
    BY <1>a, OrderFacts
  <1>5. \A k \in 1 .. Len(order) : num[order[k]] \in Nat
    BY <1>a, <1>4 DEF TypeOK
  <1>6. sets \in Seq(Nat) /\ Len(sets) = Len(order)
    BY <1>4, <1>5 DEF sets
  <1>7. sets' = Append(sets, r.num)
    <2>1. DOMAIN order' = 1 .. Len(order) + 1
      BY <1>1, <1>3, <1>4, AppendFacts
    <2>2. sets' = [k \in 1 .. Len(order) + 1 |-> num[Append(order, new)[k]]]
      BY <1>1, <2>1 DEF sets
    <2>3. \A k \in 1 .. Len(order) : num[Append(order, new)[k]] = sets[k]
      BY <1>3, <1>4, AppendFacts DEF sets
    <2>4. num[Append(order, new)[Len(order) + 1]] = r.num
      BY <1>2, <1>3, <1>4, AppendFacts
    <2>5. Append(sets, r.num) =
             [k \in 1 .. Len(order) + 1 |-> IF k = Len(order) + 1 THEN r.num ELSE sets[k]]
      BY <1>6
    <2>6. \A k \in 1 .. Len(order) + 1 : k \in 1 .. Len(order) \/ k = Len(order) + 1
      BY <1>4
    <2> QED BY <2>2, <2>3, <2>4, <2>5, <2>6
  <1>8. Len(sets) + Cardinality(lost) < Cardinality(Cells)
    BY <1>a, <1>3, <1>6, Room
  <1>9. Promise!Accept(r)
    BY <1>a, <1>1, <1>2, <1>7, <1>8 DEF Promise!Accept, sets
  <1> QED BY <1>9 DEF Promise!Next

\* ADD is refused, and keeps the record
LEMMA AddInvalidKeeps ==
    ASSUME Kept, NEW r \in Requests, AddInvalid(r)
    PROVE  Promise!Next
  <1>a. TypeOK /\ Linked /\ Accounted /\ overlap = "none" /\ overlap' = "none"
    BY KeptFacts
  <1>1. /\ ~Acceptable(r) /\ answer' = "INVALID" /\ order' = order /\ num' = num
        /\ \E c \in Cells \ allocated : lost' = lost \cup {c}
    BY DEF AddInvalid, list, ghosts
  <1>2. PICK c \in Cells : c \notin Range(order) /\ c \notin lost /\ lost' = lost \cup {c}
    BY <1>a, <1>1 DEF Accounted
  <1>3. Cardinality(lost') = Cardinality(lost) + 1
    BY <1>a, <1>2, Taken, FS_AddElement
  <1>4. DOMAIN order = 1 .. Len(order) /\ Len(order) \in Nat
    BY <1>a, OrderFacts
  <1>5. Len(sets) = Len(order)
    BY <1>4 DEF sets
  <1>6. Len(sets) + Cardinality(lost) < Cardinality(Cells)
    BY <1>a, <1>2, <1>5, Room
  <1>7. Promise!Refuse(r)
    BY <1>a, <1>1, <1>3, <1>6 DEF Promise!Refuse, sets
  <1> QED BY <1>7 DEF Promise!Next

\* FULL is answered only when every record is taken.
LEMMA AddFullKeeps ==
    ASSUME Kept, AddFull
    PROVE  Promise!Next
  <1>a. TypeOK /\ Linked /\ Accounted /\ overlap = "none" /\ overlap' = "none"
    BY KeptFacts
  <1>1. /\ allocated = Cells /\ answer' = "FULL" /\ order' = order /\ num' = num
        /\ lost' = lost /\ pc # "free" /\ handler = "none"
    BY <1>a DEF AddFull, heap, list, Overlaps, Command
  <1>2. Cells = Range(order) \cup lost
    BY <1>a, <1>1 DEF Accounted
  <1>3. DOMAIN order = 1 .. Len(order) /\ Len(order) \in Nat
    BY <1>a, OrderFacts
  <1>4. Len(sets) = Len(order)
    BY <1>3 DEF sets
  <1>5. Len(sets) + Cardinality(lost) = Cardinality(Cells)
    BY <1>a, <1>2, <1>4, Taken
  <1>6. Promise!Full
    BY <1>a, <1>1, <1>5 DEF Promise!Full, sets
  <1> QED BY <1>6 DEF Promise!Next

\* A function on an initial segment is a sequence.
LEMMA FunctionIsSeq ==
    ASSUME NEW n \in Nat, NEW f \in [1 .. n -> Nat]
    PROVE  f \in Seq(Nat) /\ Len(f) = n
  OBVIOUS

\* The oldest set goes.
LEMMA SetsShorter ==
    ASSUME TypeOK, Linked, queue # NULL, order' = Shorter, num' = num
    PROVE  sets # <<>> /\ sets' = Tail(sets) /\ sets[1] = num[queue]
  <1>1. order \in Seq(Cells) /\ order # <<>> /\ order' = Tail(order) /\ queue = order[1]
    BY OrderFacts DEF Shorter
  <1>2. /\ DOMAIN order = 1 .. Len(order) /\ Len(order) \in Nat \ {0}
        /\ DOMAIN order' = 1 .. Len(order) - 1
        /\ \A k \in 1 .. Len(order) - 1 : order'[k] = order[k + 1]
    BY <1>1, TailFacts, OrderFacts
  <1>3. \A k \in 1 .. Len(order) : num[order[k]] \in Nat
    BY <1>1, <1>2, OrderFacts DEF TypeOK
  <1>4. /\ sets \in Seq(Nat) /\ Len(sets) = Len(order)
        /\ \A k \in 1 .. Len(order) : sets[k] = num[order[k]]
    BY <1>2, <1>3 DEF sets
  <1>5. sets # <<>> /\ sets[1] = num[queue]
    BY <1>1, <1>2, <1>4
  <1>6. /\ Tail(sets) \in Seq(Nat) /\ Len(Tail(sets)) = Len(order) - 1
        /\ \A k \in 1 .. Len(order) - 1 : Tail(sets)[k] = sets[k + 1]
    BY <1>2, <1>4, <1>5
  <1>7. sets' = [k \in 1 .. Len(order) - 1 |-> num[order'[k]]]
    BY <1>2 DEF sets
  <1>8. \A k \in 1 .. Len(order) - 1 : num[order'[k]] = sets[k + 1]
    BY <1>2, <1>4
  <1>9. /\ sets' \in Seq(Nat) /\ Len(sets') = Len(order) - 1
        /\ \A k \in 1 .. Len(order) - 1 : sets'[k] = Tail(sets)[k]
    <2>1. \A k \in 1 .. Len(order) - 1 : num[order'[k]] \in Nat /\ num[order'[k]] = Tail(sets)[k]
      BY <1>2, <1>3, <1>6, <1>8
    <2>2. sets' = [k \in 1 .. Len(order) - 1 |-> Tail(sets)[k]]
      BY <1>7, <2>1
    <2>3. \A k \in 1 .. Len(order) - 1 : Tail(sets)[k] \in Nat
      BY <2>1
    <2>4. Len(order) - 1 \in Nat
      BY <1>2
    <2>5. [k \in 1 .. Len(order) - 1 |-> Tail(sets)[k]] \in [1 .. Len(order) - 1 -> Nat]
      BY <2>3
    <2>6. sets' \in Seq(Nat) /\ Len(sets') = Len(order) - 1
      BY <2>2, <2>4, <2>5, FunctionIsSeq
    <2> QED BY <2>2, <2>6
  <1>10. sets' = Tail(sets)
    BY <1>6, <1>9, SeqEqual
  <1> QED BY <1>5, <1>10

LEMMA RmKeeps ==
    ASSUME Kept, Rm
    PROVE  Promise!Next
  <1>a. TypeOK /\ Linked /\ overlap = "none" /\ overlap' = "none" /\ TypeOK' /\ Linked'
    BY KeptFacts
  <1>1. /\ IF queue = NULL THEN UNCHANGED <<queue, order>> ELSE order' = Shorter
        /\ answer' = IF queue' = NULL THEN "EMPTY" ELSE "REMOVED"
        /\ num' = num /\ lost' = lost
    BY DEF Rm
  <1>2. queue' = NULL <=> order' = <<>>
    BY <1>a, OrderFacts DEF Linked, TypeOK
  <1>3. sets' = <<>> <=> order' = <<>>
    BY DEF sets
  <1>4. sets' = IF sets = <<>> THEN sets ELSE Tail(sets)
    <2>1. CASE queue = NULL
      <3>1. order = <<>> /\ order' = <<>>
        BY <1>a, <1>1, <2>1, OrderFacts
      <3> QED BY <3>1 DEF sets
    <2>2. CASE queue # NULL
      BY <1>a, <1>1, <2>2, SetsShorter
    <2> QED BY <2>1, <2>2
  <1>5. Promise!Remove
    BY <1>a, <1>1, <1>2, <1>3, <1>4 DEF Promise!Remove, sets
  <1> QED BY <1>5 DEF Promise!Next

\* dec() counts a sample of the oldest set.
LEMMA CountKeeps ==
    ASSUME Kept, DecCount
    PROVE  Promise!Next
  <1>a. TypeOK /\ Linked /\ Counts /\ overlap = "none" /\ overlap' = "none"
    BY KeptFacts
  <1>1. /\ num' = [num EXCEPT ![d] = IF @ = 0 THEN UINT32_MAX ELSE @ - 1]
        /\ pc = "count" /\ order' = order /\ lost' = lost /\ answer' = answer
    BY DEF DecCount, Step, ghosts
  <1>2. d \in Cells /\ d = queue /\ queue # NULL
    BY <1>a, <1>1 DEF TypeOK, Counts
  <1>3. /\ DOMAIN order = 1 .. Len(order) /\ 1 \in DOMAIN order /\ order[1] = d
        /\ d \in Range(order) /\ \A k \in DOMAIN order : order[k] \in Cells
    BY <1>a, <1>2, OrderFacts
  <1>4. num[d] > 0 /\ num[d] \in Nat
    BY <1>a, <1>1, <1>2, <1>3 DEF Counts, Over, TypeOK
  <1>5. \A k \in DOMAIN order : k # 1 => order[k] # d
    BY <1>a, <1>3 DEF Linked
  <1>6. /\ num'[d] = num[d] - 1
        /\ \A k \in DOMAIN order : k # 1 => num'[order[k]] = num[order[k]]
    BY <1>a, <1>1, <1>2, <1>3, <1>4, <1>5 DEF TypeOK
  <1>7. sets # <<>> /\ sets[1] = num[d] /\ DOMAIN sets = DOMAIN order
    BY <1>3 DEF sets
  <1>8. sets' = [sets EXCEPT ![1] = @ - 1]
    BY <1>1, <1>3, <1>6 DEF sets
  <1>9. Promise!Sampled
    BY <1>a, <1>1, <1>4, <1>7, <1>8 DEF Promise!Sampled, sets
  <1> QED BY <1>9 DEF Promise!Next

\* rm() at the end of a set
LEMMA StoreKeeps ==
    ASSUME Kept, RmStore
    PROVE  Promise!Next
  <1>a. TypeOK /\ Linked /\ Counts /\ overlap = "none" /\ overlap' = "none"
    BY KeptFacts
  <1>1. order' = Shorter /\ num' = num /\ lost' = lost /\ answer' = answer /\ pc = "store"
    BY DEF RmStore, Step
  <1>2. queue # NULL /\ num[queue] = 0
    BY <1>a, <1>1 DEF Counts, Over
  <1>3. sets # <<>> /\ sets' = Tail(sets) /\ sets[1] = 0
    BY <1>a, <1>1, <1>2, SetsShorter
  <1>4. Promise!Ended
    BY <1>a, <1>1, <1>3 DEF Promise!Ended, sets
  <1> QED BY <1>4 DEF Promise!Next

\* QRY is taken; the answer is still to come.
LEMMA QryKeeps ==
    ASSUME Kept, NEW n \in Positions, Qry(n)
    PROVE  Promise!Next
  <1>a. overlap = "none" /\ overlap' = "none"
    BY KeptFacts
  <1>1. answer' = "none" /\ order' = order /\ num' = num /\ lost' = lost
    BY DEF Qry, heap, list, ghosts
  <1>2. Promise!Ask
    BY <1>a, <1>1 DEF Promise!Ask
  <1> QED BY <1>2 DEF Promise!Next

\* The other steps are not seen from outside.
LEMMA OthersStutter ==
    ASSUME \/ AddWalk \/ FindStep \/ FindEnds \/ UNCHANGED vars
           \/ Test \/ Overflow \/ Enter \/ DecLoad \/ RmLoad \/ RmNext \/ RmFree \/ Use
    PROVE  UNCHANGED Promise!vars
  <1>1. UNCHANGED <<order, num, lost, overlap, answer>>
    BY DEF AddWalk, FindStep, FindEnds, Test, Overflow, Enter, DecLoad, RmLoad, RmNext,
           RmFree, Use, Step, heap, list, ghosts, vars
  <1> QED BY <1>1 DEF Promise!vars

LEMMA StepKept == CInv /\ CInv' /\ [Next]_vars => [Promise!Next]_(Promise!vars)
  <1> SUFFICES ASSUME CInv, CInv', [Next]_vars
               PROVE  Promise!Next \/ UNCHANGED Promise!vars
    OBVIOUS
  <1>1. CASE overlap = "none" /\ overlap' = "none"
    <2>1. Kept
      BY <1>1 DEF Kept, CInv
    <2> QED BY <2>1, AddKeeps, AddLinkKeeps, AddInvalidKeeps, AddFullKeeps, RmKeeps, CountKeeps,
               StoreKeeps, QryKeeps, OthersStutter DEF Next, Handler, Host, Main
  <1>2. CASE overlap # "none"
    <2>1. overlap' # "none"
      BY <1>2 DEF Next, Handler, Host, Main, AddFull, Rm, Add, AddInvalid, Qry, AddWalk, AddLink,
             FindStep, FindEnds, Test, Overflow, Enter, DecLoad, DecCount, RmLoad, RmNext,
             RmStore, RmFree, Use, Overlaps, vars, ghosts
    <2> QED BY <1>2, <2>1 DEF Promise!Next, Promise!Spoilt
  <1>3. CASE overlap' # "none"
    BY <1>3 DEF Promise!Next, Promise!Spoil
  <1> QED BY <1>1, <1>2, <1>3

\* The list of structure.c is the queue of SetQueue: sets are sampled in the order
\* of their ADDs, each for its count, and FULL means that no record is free.
THEOREM Refines == Spec => KeepsPromise
  <1>1. Init => Promise!Init
    <2> SUFFICES ASSUME Init PROVE Promise!Init
      OBVIOUS
    <2>1. order = <<>> /\ lost = {} /\ answer = "none" /\ overlap = "none"
      BY DEF Init
    <2>2. sets = <<>>
      BY <2>1 DEF sets
    <2>3. Cardinality(lost) = 0
      BY <2>1, FS_EmptySet
    <2> QED BY <2>1, <2>2, <2>3 DEF Promise!Init, sets
  <1> QED BY <1>1, CountsInvariance, StepKept, PTL DEF Spec, KeepsPromise, Promise!Spec
=============================================================================

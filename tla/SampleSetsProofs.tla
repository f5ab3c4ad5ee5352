--------------------------- MODULE SampleSetsProofs ---------------------------
(***************************************************************************)
(* Proofs about SampleSets: for any number of records and any commands,    *)
(* the list is the queue and the heap is accounted for until a command is  *)
(* served where it does harm, which needs an overflow first.               *)
(***************************************************************************)
EXTENDS SampleSets, SequenceTheorems, FiniteSetTheorems, Induction, TLAPS

----------------------------------------------------------------------------
(* The invariant *)

\* What the main loop and the handler hold in their registers
Hands ==
    /\ pc \in {"next", "store"} => temp = queue
    /\ pc = "store" => nx = next[temp]
    /\ pc = "use" => queue # NULL
    /\ handler = "walk" => end \in Range(order) /\ next[new] = NULL
    /\ handler = "find" =>
          i <= pos /\ end = IF i < Len(order) THEN order[i + 1] ELSE NULL

\* A section that masks interrupts keeps the handler out.
Masks == ~unmasked => overlap = "none" /\ (handler # "none" => pc \in Outside)

IInv == TypeOK /\ Masks /\ (overlap = "none" => Linked /\ Accounted /\ Hands)

----------------------------------------------------------------------------
(* Sequences of records *)

\* The oldest record goes: the others move up.
LEMMA TailFacts ==
    ASSUME NEW s \in Seq(Cells), s # <<>>
    PROVE  /\ Tail(s) \in Seq(Cells) /\ Len(Tail(s)) = Len(s) - 1
           /\ Len(s) \in Nat \ {0} /\ s[1] \in Cells
           /\ \A k \in 1 .. Len(s) - 1 : Tail(s)[k] = s[k + 1]
  OBVIOUS

\* A record is added: the others stay where they are.
LEMMA AppendFacts ==
    ASSUME NEW s \in Seq(Cells), NEW c \in Cells
    PROVE  /\ Append(s, c) \in Seq(Cells) /\ Len(Append(s, c)) = Len(s) + 1
           /\ Len(s) \in Nat
           /\ \A k \in 1 .. Len(s) : Append(s, c)[k] = s[k]
           /\ Append(s, c)[Len(s) + 1] = c
  OBVIOUS

\* Of records that are all different, the oldest is not among the others.
LEMMA TailRange ==
    ASSUME NEW s \in Seq(Cells), s # <<>>,
           \A j, k \in DOMAIN s : s[j] = s[k] => j = k
    PROVE  Range(Tail(s)) = Range(s) \ {s[1]}
  <1>1. DOMAIN s = 1 .. Len(s) /\ DOMAIN Tail(s) = 1 .. Len(s) - 1
    BY TailFacts
  <1>2. ASSUME NEW c \in Range(Tail(s)) PROVE c \in Range(s) \ {s[1]}
    <2>1. PICK k \in 1 .. Len(s) - 1 : c = s[k + 1]
      BY <1>1, <1>2, TailFacts DEF Range
    <2>2. k + 1 \in DOMAIN s /\ 1 \in DOMAIN s /\ k + 1 # 1
      BY <1>1, TailFacts
    <2> QED BY <2>1, <2>2 DEF Range
  <1>3. ASSUME NEW c \in Range(s), c # s[1] PROVE c \in Range(Tail(s))
    <2>1. PICK k \in 1 .. Len(s) : c = s[k]
      BY <1>1, <1>3 DEF Range
    <2>2. k # 1
      BY <1>3, <2>1
    <2>3. k - 1 \in 1 .. Len(s) - 1 /\ (k - 1) + 1 = k
      BY <2>2, TailFacts
    <2>4. Tail(s)[k - 1] = c
      BY <2>1, <2>3, TailFacts
    <2> QED BY <1>1, <2>3, <2>4 DEF Range
  <1> QED BY <1>2, <1>3

LEMMA AppendRange ==
    ASSUME NEW s \in Seq(Cells), NEW c \in Cells
    PROVE  Range(Append(s, c)) = Range(s) \cup {c}
  <1>1. DOMAIN s = 1 .. Len(s) /\ DOMAIN Append(s, c) = 1 .. Len(s) + 1
    BY AppendFacts
  <1>2. ASSUME NEW e \in Range(s) PROVE e \in Range(Append(s, c))
    <2>1. PICK k \in 1 .. Len(s) : e = s[k]
      BY <1>1, <1>2 DEF Range
    <2>2. k \in 1 .. Len(s) + 1 /\ Append(s, c)[k] = e
      BY <2>1, AppendFacts
    <2> QED BY <1>1, <2>2 DEF Range
  <1>3. c \in Range(Append(s, c))
    BY <1>1, AppendFacts DEF Range
  <1>4. ASSUME NEW e \in Range(Append(s, c)) PROVE e \in Range(s) \cup {c}
    <2>1. PICK k \in 1 .. Len(s) + 1 : e = Append(s, c)[k]
      BY <1>1, <1>4 DEF Range
    <2>2. CASE k = Len(s) + 1
      BY <2>1, <2>2, AppendFacts
    <2>3. CASE k # Len(s) + 1
      <3>1. k \in 1 .. Len(s)
        BY <2>3, AppendFacts
      <3> QED BY <1>1, <2>1, <3>1, AppendFacts DEF Range
    <2> QED BY <2>2, <2>3
  <1> QED BY <1>2, <1>3, <1>4

----------------------------------------------------------------------------
(* Every variable keeps its type *)

USE CellsAssumption

LEMMA TypeInit == Init => TypeOK
  <1> SUFFICES ASSUME Init PROVE TypeOK
    OBVIOUS
  <1>1. 0 \in 0 .. UINT32_MAX
    BY RequestsAssumption
  <1>2. num \in [Cells -> 0 .. UINT32_MAX] /\ next \in [Cells -> Cells \cup {NULL}]
    BY <1>1 DEF Init
  <1>3. order \in Seq(Cells)
    BY DEF Init
  <1> QED BY <1>2, <1>3 DEF Init, TypeOK, Outside

LEMMA TypeStep == TypeOK /\ [Next]_vars => TypeOK'
  <1> SUFFICES ASSUME TypeOK, [Next]_vars PROVE TypeOK'
    OBVIOUS
  <1> USE DEF TypeOK, Outside
  <1>1. CASE AddFull
    BY <1>1 DEF AddFull, Overlaps, heap, list, main, isr
  <1>2. ASSUME NEW r \in Requests, AddInvalid(r) PROVE TypeOK'
    BY <1>2 DEF AddInvalid, list, main, isr
  <1>3. ASSUME NEW r \in Requests, Add(r) PROVE TypeOK'
    <2>1. r.num \in 0 .. UINT32_MAX
      BY RequestsAssumption
    <2>2. PICK c \in Cells \ allocated :
             /\ allocated' = allocated \cup {c}
             /\ num' = [num EXCEPT ![c] = r.num]
             /\ next' = [next EXCEPT ![c] = NULL]
             /\ IF queue = NULL
                THEN /\ queue' = c /\ order' = Append(order, c) /\ answer' = "OK"
                     /\ UNCHANGED isr
                ELSE /\ handler' = "walk" /\ new' = c /\ end' = queue /\ answer' = "none"
                     /\ UNCHANGED <<queue, order, i, pos>>
      BY <1>3 DEF Add
    <2>3. Append(order, c) \in Seq(Cells)
      BY AppendFacts
    <2>4. order' \in Seq(Cells)
      BY <2>2, <2>3
    <2> QED BY <1>3, <2>1, <2>2, <2>4 DEF Add, main, isr
  <1>4. CASE AddWalk
    <2>1. end' \in Cells
      BY <1>4 DEF AddWalk
    <2> QED BY <1>4, <2>1 DEF AddWalk, heap, list, main, ghosts
  <1>5. CASE AddLink
    <2>1. order' \in Seq(Cells)
      BY <1>5, AppendFacts DEF AddLink
    <2> QED BY <1>5, <2>1 DEF AddLink, Returns, Overlaps, main
  <1>6. CASE Rm
    <2>1. order' \in Seq(Cells)
      BY <1>6, TailFacts DEF Rm, Shorter
    <2> QED BY <1>6, <2>1 DEF Rm, Overlaps, main, isr
  <1>7. ASSUME NEW n \in Positions, Qry(n) PROVE TypeOK'
    BY <1>7, PositionsAssumption DEF Qry, heap, list, main, ghosts
  <1>8. CASE FindStep
    BY <1>8 DEF FindStep, heap, list, main, ghosts
  <1>9. CASE FindEnds
    BY <1>9 DEF FindEnds, Returns, heap, list, main, ghosts
  <1>10. CASE Test \/ Overflow \/ Enter \/ Use
    BY <1>10 DEF Test, Overflow, Enter, Use, Step, heap, list, isr, ghosts
  <1>11. CASE DecLoad
    BY <1>11 DEF DecLoad, Step, Goes, heap, list, isr, ghosts
  <1>12. CASE DecCount
    BY <1>12, RequestsAssumption DEF DecCount, Step, Goes, isr, ghosts
  <1>13. CASE RmLoad \/ RmNext
    BY <1>13 DEF RmLoad, RmNext, Step, Goes, heap, list, isr, ghosts
  <1>14. CASE RmStore
    <2>1. order' \in Seq(Cells)
      BY <1>14, TailFacts DEF RmStore, Shorter
    <2> QED BY <1>14, <2>1 DEF RmStore, Step, Goes, isr
  <1>15. CASE RmFree
    BY <1>15 DEF RmFree, Step, Goes, list, isr, ghosts
  <1>16. CASE UNCHANGED vars
    BY <1>16 DEF vars, heap, list, main, isr, ghosts
  <1> QED BY <1>1, <1>2, <1>3, <1>4, <1>5, <1>6, <1>7, <1>8, <1>9, <1>10, <1>11,
             <1>12, <1>13, <1>14, <1>15, <1>16 DEF Next, Handler, Host, Main

\* TypeOK is inductive: the registers hold records when the main loop or the
\* handler uses one, also after sections no longer mask interrupts (dec and rm
\* test for NULL before they follow a pointer).
THEOREM TypeCorrectness == Spec => []TypeOK
  BY TypeInit, TypeStep, PTL DEF Spec

----------------------------------------------------------------------------
(* The list is the queue *)

\* The records of s are linked in their order by the next fields nxt, each once;
\* head points to the first.
Chains(head, nxt, s) ==
    /\ head = IF s = <<>> THEN NULL ELSE s[1]
    /\ \A k \in DOMAIN s : nxt[s[k]] = IF k = Len(s) THEN NULL ELSE s[k + 1]
    /\ \A j, k \in DOMAIN s : s[j] = s[k] => j = k

LEMMA ChainOfQueue == Linked <=> Chains(queue, next, order)
  BY DEF Linked, Chains

\* Without its first record a chain is one still.
LEMMA ChainTail ==
    ASSUME NEW head, NEW nxt, NEW s \in Seq(Cells), Chains(head, nxt, s), head # NULL
    PROVE  /\ s # <<>> /\ head = s[1] /\ Chains(nxt[head], nxt, Tail(s))
           /\ Range(Tail(s)) = Range(s) \ {head} /\ head \in Range(s)
  <1> DEFINE t == Tail(s)
  <1>1. s # <<>> /\ head = s[1]
    BY DEF Chains
  <1>2. DOMAIN s = 1 .. Len(s) /\ DOMAIN t = 1 .. Len(s) - 1
    BY <1>1, TailFacts
  <1>3. \A k \in DOMAIN t : t[k] = s[k + 1]
    BY <1>1, <1>2, TailFacts
  <1>4. nxt[head] = IF t = <<>> THEN NULL ELSE t[1]
    <2>1. 1 \in DOMAIN s
      BY <1>1, <1>2, TailFacts
    <2>2. nxt[head] = IF 1 = Len(s) THEN NULL ELSE s[1 + 1]
      BY <1>1, <2>1 DEF Chains
    <2>3. t = <<>> <=> Len(s) = 1
      <3>1. t \in Seq(Cells) /\ Len(t) = Len(s) - 1 /\ Len(s) \in Nat
        BY <1>1, TailFacts
      <3>2. t # <<>> => Len(t) # 0
        BY <3>1, EmptySeq
      <3>3. t = <<>> => Len(t) = 0
        BY EmptySeq
      <3> QED BY <3>1, <3>2, <3>3
    <2>4. CASE Len(s) = 1
      BY <2>2, <2>3, <2>4
    <2>5. CASE Len(s) # 1
      <3>1. 1 \in DOMAIN t
        BY <1>1, <1>2, <2>5, TailFacts
      <3> QED BY <1>3, <2>2, <2>3, <2>5, <3>1
    <2> QED BY <2>4, <2>5
  <1>5. ASSUME NEW k \in DOMAIN t
        PROVE  nxt[t[k]] = IF k = Len(t) THEN NULL ELSE t[k + 1]
    <2>1. k + 1 \in DOMAIN s /\ Len(t) = Len(s) - 1
      BY <1>1, <1>2, TailFacts
    <2>2. nxt[s[k + 1]] = IF k + 1 = Len(s) THEN NULL ELSE s[(k + 1) + 1]
      BY <2>1 DEF Chains
    <2>3. CASE k = Len(t)
      BY <1>1, <1>3, <2>1, <2>2, <2>3, TailFacts
    <2>4. CASE k # Len(t)
      <3>1. k + 1 \in DOMAIN t /\ k + 1 # Len(s)
        BY <1>1, <1>2, <2>1, <2>4, TailFacts
      <3> QED BY <1>3, <2>2, <2>4, <3>1
    <2> QED BY <2>3, <2>4
  <1>6. ASSUME NEW j \in DOMAIN t, NEW k \in DOMAIN t, t[j] = t[k]
        PROVE  j = k
    <2>1. j + 1 \in DOMAIN s /\ k + 1 \in DOMAIN s /\ j \in Nat /\ k \in Nat
      BY <1>1, <1>2, TailFacts
    <2>2. j + 1 = k + 1
      BY <1>3, <1>6, <2>1 DEF Chains
    <2> QED BY <2>1, <2>2
  <1>7. head \in Range(s)
    BY <1>1, <1>2, TailFacts DEF Range
  <1>8. Range(t) = Range(s) \ {head}
    BY <1>1, TailRange DEF Chains
  <1> QED BY <1>1, <1>4, <1>5, <1>6, <1>7, <1>8 DEF Chains

\* c, which is not of the chain s, is linked behind e, its last: t is the longer one.
Links(head, nxt, after, s, t, c, e) ==
    /\ Chains(head, nxt, s)
    /\ c \notin Range(s) /\ e \in Range(s) /\ nxt[e] = NULL /\ nxt[c] = NULL
    /\ after = [nxt EXCEPT ![e] = c] /\ t = Append(s, c)

\* The chain is then one still, and longer by c.
LEMMA ChainAppend ==
    ASSUME NEW head, NEW nxt \in [Cells -> Cells \cup {NULL}], NEW s \in Seq(Cells),
           NEW c \in Cells, NEW e \in Cells, NEW after, NEW t \in Seq(Cells),
           Links(head, nxt, after, s, t, c, e)
    PROVE  Chains(head, after, t)
  <1>1. /\ Chains(head, nxt, s)
        /\ c \notin Range(s) /\ e \in Range(s) /\ nxt[e] = NULL /\ nxt[c] = NULL
        /\ after = [nxt EXCEPT ![e] = c] /\ t = Append(s, c)
    BY DEF Links
  <1>2. DOMAIN s = 1 .. Len(s) /\ DOMAIN t = 1 .. Len(s) + 1
        /\ Len(s) \in Nat /\ Len(t) = Len(s) + 1
    BY <1>1, AppendFacts
  <1>3. /\ \A k \in DOMAIN s : t[k] = s[k] /\ s[k] \in Cells
        /\ t[Len(s) + 1] = c
    BY <1>1, <1>2, AppendFacts
  <1>4. PICK m \in DOMAIN s : e = s[m]
    BY <1>1 DEF Range
  <1>5. m = Len(s)
    <2>1. SUFFICES ASSUME m # Len(s) PROVE FALSE
      OBVIOUS
    <2>2. m + 1 \in DOMAIN s /\ nxt[s[m]] = s[m + 1]
      BY <1>1, <1>2, <2>1 DEF Chains
    <2> QED BY <1>1, <1>3, <1>4, <2>2
  <1>6. head = IF t = <<>> THEN NULL ELSE t[1]
    <2>1. 1 \in DOMAIN s /\ s # <<>> /\ t # <<>>
      BY <1>2, <1>4
    <2> QED BY <1>1, <1>3, <2>1 DEF Chains
  <1>7. ASSUME NEW k \in DOMAIN t
        PROVE  after[t[k]] = IF k = Len(t) THEN NULL ELSE t[k + 1]
    <2>1. CASE k = Len(s) + 1
      <3>1. c # e
        BY <1>1
      <3> QED BY <1>1, <1>2, <1>3, <2>1, <3>1
    <2>2. CASE k = Len(s)
      <3>1. k \in DOMAIN s /\ t[k] = e /\ t[k + 1] = c
        BY <1>3, <1>4, <1>5, <2>2
      <3>2. k # Len(t)
        <4>1. Len(t) = k + 1 /\ k \in Nat
          BY <1>2, <2>2
        <4>2. Len(t) # k
          BY <4>1
        <4> QED BY <4>2
      <3> QED BY <1>1, <3>1, <3>2
    <2>3. CASE k \in 1 .. Len(s) /\ k # Len(s)
      <3>1. k \in DOMAIN s /\ k + 1 \in DOMAIN s /\ k # Len(t)
        BY <1>2, <2>3
      <3>2. s[k] # e
        BY <1>1, <1>4, <1>5, <2>3, <3>1 DEF Chains
      <3>3. after[s[k]] = s[k + 1]
        BY <1>1, <1>3, <2>3, <3>1, <3>2 DEF Chains
      <3> QED BY <1>3, <3>1, <3>3
    <2> QED BY <1>2, <2>1, <2>2, <2>3
  <1>8. ASSUME NEW j \in DOMAIN t, NEW k \in DOMAIN t, t[j] = t[k]
        PROVE  j = k
    <2>1. \A n \in DOMAIN s : s[n] # c
      BY <1>1 DEF Range
    <2>2. \A n \in DOMAIN t : n = Len(s) + 1 \/ n \in DOMAIN s
      BY <1>2
    <2>3. CASE j \in DOMAIN s /\ k \in DOMAIN s
      BY <1>1, <1>3, <1>8, <2>3 DEF Chains
    <2>4. CASE j \notin DOMAIN s \/ k \notin DOMAIN s
      BY <1>3, <1>8, <2>1, <2>2, <2>4
    <2> QED BY <2>3, <2>4
  <1> QED BY <1>6, <1>7, <1>8 DEF Chains

\* The oldest record leaves the list and stays out of it.
LEMMA Unlink ==
    ASSUME TypeOK, Linked, queue # NULL,
           order' = Shorter, queue' = next[queue], next' = next
    PROVE  /\ order # <<>> /\ queue = order[1] /\ order' = Tail(order)
           /\ Linked'
           /\ Range(order') = Range(order) \ {queue} /\ queue \in Range(order)
  <1>1. order \in Seq(Cells) /\ Chains(queue, next, order)
    BY ChainOfQueue DEF TypeOK
  <1>2. /\ order # <<>> /\ queue = order[1] /\ Chains(next[queue], next, Tail(order))
        /\ Range(Tail(order)) = Range(order) \ {queue} /\ queue \in Range(order)
    BY <1>1, ChainTail
  <1>3. order' = Tail(order)
    BY <1>2 DEF Shorter
  <1>4. Chains(queue', next', order')
    BY <1>2, <1>3
  <1> QED BY <1>2, <1>3, <1>4 DEF Linked, Chains

\* A record that is in no list is linked behind the last one.
LEMMA Link ==
    ASSUME TypeOK, Linked, NEW c \in Cells, NEW e \in Cells, c \notin Range(order),
           e \in Range(order), next[e] = NULL, next[c] = NULL,
           order' = Append(order, c), queue' = queue,
           next' = [next EXCEPT ![e] = c]
    PROVE  Linked' /\ Range(order') = Range(order) \cup {c}
  <1>1. /\ order \in Seq(Cells) /\ next \in [Cells -> Cells \cup {NULL}]
        /\ Chains(queue, next, order)
    BY ChainOfQueue DEF TypeOK
  <1>2. Links(queue, next, next', order, order', c, e)
    BY <1>1 DEF Links
  <1>3. order' \in Seq(Cells)
    BY <1>1, AppendFacts
  <1>4. Chains(queue, next', order')
    BY <1>1, <1>2, <1>3, ChainAppend
  <1>5. Range(order') = Range(order) \cup {c}
    BY <1>1, AppendRange
  <1>6. Chains(queue', next', order')
    BY <1>4
  <1> QED BY <1>5, <1>6 DEF Linked, Chains

\* As long as sections mask interrupts no command is served where it does harm.
LEMMA MasksStep == ASSUME IInv, [Next]_vars PROVE Masks'
  <1> USE DEF IInv, Masks, Outside
  <1>1. CASE AddFull \/ Rm
    BY <1>1 DEF AddFull, Rm, Command, Overlaps, RmHurts, main, isr
  <1>2. ASSUME NEW r \in Requests, Add(r) \/ AddInvalid(r) PROVE Masks'
    BY <1>2 DEF Add, AddInvalid, Command, main, isr
  <1>3. ASSUME NEW n \in Positions, Qry(n) PROVE Masks'
    BY <1>3 DEF Qry, Command, main, ghosts
  <1>4. CASE AddWalk \/ FindStep \/ FindEnds
    BY <1>4 DEF AddWalk, FindStep, FindEnds, Returns, main, ghosts
  <1>5. CASE AddLink
    BY <1>5 DEF AddLink, Returns, Overlaps, AddHurts, main
  <1>6. CASE Main
    BY <1>6 DEF Main, Test, Overflow, Enter, DecLoad, DecCount, RmLoad, RmNext, RmStore,
                RmFree, Use, Step, Goes, isr, ghosts
  <1>7. CASE UNCHANGED vars
    BY <1>7 DEF vars, main, isr, ghosts
  <1> QED BY <1>1, <1>2, <1>3, <1>4, <1>5, <1>6, <1>7 DEF Next, Handler, Host

Good == Linked /\ Accounted /\ Hands

\* ADD with a record to spare
LEMMA AddStep ==
    ASSUME TypeOK, TypeOK', Good, overlap = "none", NEW r \in Requests, Add(r)
    PROVE  Good'
  <1> USE DEF TypeOK
  <1>1. PICK c \in Cells \ allocated :
           /\ allocated' = allocated \cup {c}
           /\ next' = [next EXCEPT ![c] = NULL]
           /\ IF queue = NULL
              THEN /\ queue' = c /\ order' = Append(order, c) /\ answer' = "OK"
                   /\ UNCHANGED isr
              ELSE /\ handler' = "walk" /\ new' = c /\ end' = queue /\ answer' = "none"
                   /\ UNCHANGED <<queue, order, i, pos>>
    BY DEF Add
  <1>2. /\ handler = "none" /\ UNCHANGED <<main, lost, overlap>>
        /\ UNCHANGED <<pc, d, temp, nx, unmasked>>
    BY DEF Add, Command, main
  <1>3. c \notin Range(order) /\ c \notin lost /\ (pc = "free" => c # temp)
    BY <1>1 DEF Good, Accounted
  <1>4. \A k \in DOMAIN order : order[k] \in Cells /\ order[k] # c
    BY <1>3 DEF Range
  <1>5. CASE queue = NULL
    <2>1. order = <<>>
      <3>1. SUFFICES ASSUME order # <<>> PROVE FALSE
        OBVIOUS
      <3>2. 1 \in DOMAIN order
        BY <3>1, TailFacts
      <3> QED BY <1>4, <1>5, <3>1, <3>2 DEF Good, Linked
    <2>2. order' = <<c>> /\ queue' = c /\ handler' = "none"
      BY <1>1, <1>2, <1>5, <2>1 DEF isr
    <2>3. Linked'
      BY <1>1, <2>2 DEF Linked
    <2>4. Range(order) = {} /\ Range(order') = {c}
      BY <2>1, <2>2 DEF Range
    <2>5. Accounted'
      <3>1. allocated' = Range(order') \cup lost' \cup (IF pc' = "free" THEN {temp'} ELSE {})
        BY <1>1, <1>2, <2>4 DEF Good, Accounted
      <3>2. Range(order') \cap lost' = {}
        BY <1>2, <1>3, <2>4
      <3>3. pc' = "free" => temp' \notin Range(order') \cup lost'
        BY <1>2, <1>3, <2>4 DEF Good, Accounted
      <3> QED BY <2>2, <3>1, <3>2, <3>3 DEF Accounted
    <2>6. Hands'
      BY <1>2, <1>5, <2>2 DEF Good, Hands
    <2> QED BY <2>3, <2>5, <2>6 DEF Good
  <1>6. CASE queue # NULL
    <2>1. UNCHANGED <<queue, order>> /\ handler' = "walk" /\ new' = c /\ end' = queue
      BY <1>1, <1>6
    <2>2. queue \in Range(order)
      <3>1. order # <<>> /\ queue = order[1]
        BY <1>6 DEF Good, Linked
      <3>2. 1 \in DOMAIN order
        BY <3>1, TailFacts
      <3> QED BY <3>1, <3>2 DEF Range
    <2>3. Linked'
      BY <1>1, <1>4, <2>1 DEF Good, Linked
    <2>4. Accounted'
      BY <1>1, <1>2, <1>3, <2>1 DEF Good, Accounted
    <2>5. next'[new'] = NULL /\ (pc = "store" => next'[temp] = next[temp])
      BY <1>1, <1>3, <2>1, <2>2 DEF Good, Hands
    <2>6. Hands'
      BY <1>2, <2>1, <2>2, <2>5 DEF Good, Hands
    <2> QED BY <2>3, <2>4, <2>6 DEF Good
  <1> QED BY <1>5, <1>6

\* The rest of ADD, behind the walk
LEMMA AddLinkStep ==
    ASSUME TypeOK, TypeOK', Good, overlap = "none", overlap' = "none", AddLink
    PROVE  Good'
  <1> USE DEF TypeOK
  <1>1. /\ handler = "walk" /\ handler' = "none" /\ next[end] = NULL
        /\ next' = [next EXCEPT ![end] = new] /\ order' = Append(order, new)
        /\ UNCHANGED <<queue, allocated, pc, d, temp, nx, lost>>
        /\ new \in Cells /\ end \in Cells
    BY DEF AddLink, Returns, main
  <1>2. ~(pc = "store" /\ end = temp)
    BY DEF AddLink, Overlaps, AddHurts
  <1>3. Linked' /\ Range(order') = Range(order) \cup {new}
    BY <1>1, Link DEF Good, Accounted, Hands
  <1>4. Accounted'
    <2>1. Accounted
      BY DEF Good
    <2>2. allocated' = Range(order') \cup lost' \cup (IF pc' = "free" THEN {temp'} ELSE {})
      BY <1>1, <1>3, <2>1 DEF Accounted
    <2>3. Range(order') \cap lost' = {}
      BY <1>1, <1>3, <2>1 DEF Accounted
    <2>4. pc' = "free" => temp' \notin Range(order') \cup lost'
      BY <1>1, <1>3, <2>1 DEF Accounted
    <2> QED BY <1>1, <2>2, <2>3, <2>4 DEF Accounted
  <1>5. Hands'
    BY <1>1, <1>2 DEF Good, Hands
  <1> QED BY <1>3, <1>4, <1>5 DEF Good

\* RM by the host, and the main loop's unlinking
LEMMA RmStep ==
    ASSUME TypeOK, TypeOK', Good, overlap = "none", overlap' = "none", Rm
    PROVE  Good'
  <1> USE DEF TypeOK
  <1>1. /\ handler = "none" /\ handler' = "none"
        /\ UNCHANGED <<next, pc, d, temp, nx, lost>>
    BY DEF Rm, Command, main, isr
  <1>2. CASE queue = NULL
    <2>1. UNCHANGED <<queue, allocated, order>>
      BY <1>2 DEF Rm
    <2> QED BY <1>1, <2>1 DEF Good, Linked, Accounted, Hands
  <1>3. CASE queue # NULL
    <2>1. queue' = next[queue] /\ allocated' = allocated \ {queue} /\ order' = Shorter
      BY <1>3 DEF Rm
    <2>2. pc \notin {"count", "rm", "next", "store", "use"}
      BY <1>3 DEF Rm, Overlaps, RmHurts
    <2>3. /\ Linked' /\ Range(order') = Range(order) \ {queue}
          /\ queue \in Range(order)
      BY <1>1, <1>3, <2>1, Unlink DEF Good
    <2>4. Accounted'
      <3>1. Accounted
        BY DEF Good
      <3>2. allocated' = Range(order') \cup lost' \cup (IF pc' = "free" THEN {temp'} ELSE {})
        BY <1>1, <2>1, <2>3, <3>1 DEF Accounted
      <3>3. Range(order') \cap lost' = {}
        BY <1>1, <2>3, <3>1 DEF Accounted
      <3>4. pc' = "free" => temp' \notin Range(order') \cup lost'
        BY <1>1, <2>3, <3>1 DEF Accounted
      <3> QED BY <1>1, <3>2, <3>3, <3>4 DEF Accounted
    <2>5. Hands'
      BY <1>1, <2>2 DEF Hands
    <2> QED BY <2>3, <2>4, <2>5 DEF Good
  <1> QED BY <1>2, <1>3

LEMMA RmStoreStep ==
    ASSUME TypeOK, TypeOK', Good, overlap = "none", RmStore
    PROVE  Good'
  <1> USE DEF TypeOK
  <1>1. /\ pc = "store" /\ pc' = "free" /\ handler = "none" /\ handler' = "none"
        /\ temp' = temp /\ queue' = nx /\ order' = Shorter
        /\ UNCHANGED <<next, allocated, lost>>
    BY DEF RmStore, Step, Goes, isr
  <1>2. temp = queue /\ nx = next[queue] /\ queue # NULL
    BY <1>1 DEF Good, Hands
  <1>3. /\ Linked' /\ Range(order') = Range(order) \ {queue}
        /\ queue \in Range(order)
    BY <1>1, <1>2, Unlink DEF Good
  <1>4. Accounted'
    <2>1. pc = "store" /\ handler = "none" /\ Accounted
      BY <1>1 DEF Good
    <2>2. allocated' = Range(order') \cup lost' \cup {temp'}
      BY <1>1, <1>2, <1>3, <2>1 DEF Accounted
    <2>3. Range(order') \cap lost' = {}
      BY <1>1, <1>2, <1>3, <2>1 DEF Accounted
    <2>4. temp' \notin Range(order') \cup lost'
      BY <1>1, <1>2, <1>3, <2>1 DEF Accounted
    <2> QED BY <1>1, <2>2, <2>3, <2>4 DEF Accounted
  <1>5. Hands'
    BY <1>1 DEF Hands
  <1> QED BY <1>3, <1>4, <1>5 DEF Good

LEMMA NextIndex ==
    ASSUME NEW n \in Nat, NEW k \in 1 .. n, k # n
    PROVE  k + 1 \in 1 .. n
  OBVIOUS

\* The walks of ADD and QRY stay on the list.
LEMMA WalkStep ==
    ASSUME TypeOK, TypeOK', Good, AddWalk \/ FindStep
    PROVE  Good'
  <1> USE DEF TypeOK
  <1>1. /\ UNCHANGED <<queue, next, allocated, pc, d, temp, nx, order, lost, handler, new, pos>>
        /\ Linked /\ order \in Seq(Cells)
    BY DEF AddWalk, FindStep, heap, list, main, ghosts, Good
  <1>2. Linked' /\ Accounted'
    BY <1>1 DEF Good, Linked, Accounted
  <1>3. DOMAIN order = 1 .. Len(order) /\ Len(order) \in Nat
    BY <1>1
  <1>4. CASE AddWalk
    <2>1. end \in Range(order) /\ end' = next[end] /\ end' # NULL
      BY <1>4 DEF AddWalk, Good, Hands
    <2>2. PICK k \in DOMAIN order : end = order[k]
      BY <2>1 DEF Range
    <2>3. k # Len(order) /\ end' = order[k + 1] /\ k + 1 \in DOMAIN order
      <3>1. next[order[k]] = IF k = Len(order) THEN NULL ELSE order[k + 1]
        BY <1>1, <2>2 DEF Linked
      <3>2. k # Len(order) /\ end' = order[k + 1]
        BY <2>1, <2>2, <3>1
      <3>3. k \in 1 .. Len(order)
        BY <1>3
      <3>4. k + 1 \in 1 .. Len(order)
        BY <1>3, <3>2, <3>3, NextIndex
      <3>5. k + 1 \in DOMAIN order
        BY <1>3, <3>4
      <3> QED BY <3>2, <3>5
    <2>4. end' \in Range(order')
      BY <1>1, <2>3 DEF Range
    <2> QED BY <1>1, <1>2, <1>4, <2>4 DEF Good, Hands, AddWalk
  <1>5. CASE FindStep
    <2>1. i < pos /\ end' = next[end] /\ end # NULL /\ i' = i + 1 /\ i \in Nat
      BY <1>5 DEF FindStep
    <2>2. end = IF i < Len(order) THEN order[i + 1] ELSE NULL
      BY <1>5 DEF FindStep, Good, Hands
    <2>3. i + 1 \in DOMAIN order /\ end = order[i + 1]
      <3>1. i < Len(order) /\ end = order[i + 1]
        BY <2>1, <2>2
      <3>2. i + 1 \in 1 .. Len(order)
        BY <1>3, <2>1, <3>1
      <3> QED BY <1>3, <3>1, <3>2
    <2>4. end' = IF i + 1 = Len(order) THEN NULL ELSE order[(i + 1) + 1]
      BY <1>1, <2>1, <2>3 DEF Linked
    <2>5. end' = IF i' < Len(order') THEN order'[i' + 1] ELSE NULL
      BY <1>1, <1>3, <2>1, <2>3, <2>4
    <2>6. i' <= pos'
      BY <1>1, <2>1
    <2> QED BY <1>1, <1>2, <1>5, <2>5, <2>6 DEF Good, Hands, FindStep
  <1> QED BY <1>4, <1>5

\* The commands that change no list and the main loop's other steps
LEMMA OtherStep ==
    ASSUME TypeOK, TypeOK', Good, overlap = "none",
           \/ AddFull \/ FindEnds \/ UNCHANGED vars
           \/ \E r \in Requests : AddInvalid(r)
           \/ \E n \in Positions : Qry(n)
           \/ Test \/ Overflow \/ Enter \/ Use
           \/ DecLoad \/ DecCount \/ RmLoad \/ RmNext \/ RmFree
    PROVE  Good'
  <1> USE DEF TypeOK
  <1>1. UNCHANGED <<queue, next, order>>
    BY DEF AddFull, AddInvalid, Qry, FindEnds, Test, Overflow, Enter, Use, DecLoad,
           DecCount, RmLoad, RmNext, RmFree, vars, heap, list, ghosts
  <1>2. Linked'
    BY <1>1 DEF Good, Linked
  <1>3. CASE AddFull \/ FindEnds \/ UNCHANGED vars
    BY <1>1, <1>2, <1>3 DEF AddFull, FindEnds, Returns, vars, heap, list, main, isr, ghosts,
                            Good, Accounted, Hands
  <1>4. ASSUME NEW r \in Requests, AddInvalid(r) PROVE Good'
    <2>1. PICK c \in Cells \ allocated : allocated' = allocated \cup {c} /\ lost' = lost \cup {c}
      BY <1>4 DEF AddInvalid
    <2>2. UNCHANGED <<main, isr>>
      BY <1>4 DEF AddInvalid
    <2>3. Accounted'
      BY <1>1, <2>1, <2>2 DEF Good, Accounted, main, isr
    <2>4. Hands'
      BY <1>1, <2>2 DEF Good, Hands, main, isr
    <2> QED BY <1>2, <2>3, <2>4 DEF Good
  <1>5. ASSUME NEW n \in Positions, Qry(n) PROVE Good'
    <2>1. /\ UNCHANGED <<allocated, main, lost, new>> /\ handler = "none"
          /\ handler' = "find" /\ end' = queue /\ i' = 0 /\ pos' = n
      BY <1>5 DEF Qry, Command, heap, ghosts
    <2>2. queue = IF 0 < Len(order) THEN order[0 + 1] ELSE NULL
      <3>1. order # <<>> <=> 0 < Len(order)
        <4>1. order # <<>> => Len(order) \in Nat \ {0}
          BY EmptySeq
        <4>2. order = <<>> => Len(order) = 0
          BY EmptySeq
        <4> QED BY <4>1, <4>2
      <3> QED BY <3>1 DEF Good, Linked
    <2>3. Accounted'
      BY <1>1, <2>1 DEF Good, Accounted, main
    <2>4. n \in Nat
      BY PositionsAssumption
    <2>5. Hands'
      BY <1>1, <2>1, <2>2, <2>4 DEF Good, Hands, main
    <2> QED BY <1>2, <2>3, <2>5 DEF Good
  <1>6. CASE Test \/ Overflow \/ Enter \/ Use \/ DecLoad \/ DecCount \/ RmLoad \/ RmNext
    <2>1. /\ UNCHANGED <<allocated, lost, isr>> /\ handler = "none"
          /\ pc # "free" /\ pc' # "free"
      BY <1>6 DEF Test, Overflow, Enter, Use, DecLoad, DecCount, RmLoad, RmNext, Step, Goes,
                  heap, ghosts
    <2>2. Accounted'
      BY <1>1, <2>1 DEF Good, Accounted, isr
    <2>3. Hands'
      BY <1>1, <1>6, <2>1 DEF Good, Hands, Test, Overflow, Enter, Use, DecLoad, DecCount,
                              RmLoad, RmNext, Step, Goes, isr
    <2> QED BY <1>2, <2>2, <2>3 DEF Good
  <1>7. CASE RmFree
    <2>1. /\ UNCHANGED <<lost, isr>> /\ handler = "none" /\ pc = "free"
          /\ allocated' = allocated \ {temp}
          /\ pc' = IF queue = NULL THEN "out" ELSE "use"
      BY <1>7 DEF RmFree, Step, Goes, ghosts
    <2>2. Accounted'
      BY <1>1, <2>1 DEF Good, Accounted, isr
    <2>3. Hands'
      BY <1>1, <2>1 DEF Good, Hands, isr
    <2> QED BY <1>2, <2>2, <2>3 DEF Good
  <1> QED BY <1>3, <1>4, <1>5, <1>6, <1>7

\* The invariant holds from the start and no step breaks it.
LEMMA Invariance == Spec => []IInv
  <1>1. Init => IInv
    <2> SUFFICES ASSUME Init PROVE Linked /\ Accounted /\ Hands /\ Masks
      BY TypeInit DEF IInv
    <2> QED BY DEF Init, Linked, Accounted, Hands, Masks, Range, Outside
  <1>2. IInv /\ [Next]_vars => IInv'
    <2> SUFFICES ASSUME IInv, [Next]_vars, overlap' = "none" PROVE Good'
      BY TypeStep, MasksStep DEF IInv, Good
    <2>1. TypeOK /\ TypeOK'
      BY TypeStep DEF IInv
    <2>2. overlap = "none"
      BY DEF Next, Handler, Host, Main, AddFull, Rm, Add, AddInvalid, Qry, AddWalk, AddLink,
             FindStep, FindEnds, Test, Overflow, Enter, DecLoad, DecCount, RmLoad, RmNext,
             RmStore, RmFree, Use, Overlaps, vars, ghosts
    <2>3. Good
      BY <2>2 DEF IInv, Good
    <2> QED BY <2>1, <2>2, <2>3, AddStep, AddLinkStep, RmStep, RmStoreStep, WalkStep, OtherStep
            DEF Next, Handler, Host, Main
  <1> QED BY <1>1, <1>2, PTL DEF Spec

\* The list is the queue until a command is served where it does harm
\* (add's and rm's relinking, whoever calls them).
THEOREM ListCorrect == Spec => []ListIsFifo
  <1>1. IInv => ListIsFifo
    BY DEF IInv, Masks, ListIsFifo, Intact
  <1> QED BY <1>1, Invariance, PTL

\* No record is lost, freed twice or freed while linked until then (malloc and
\* free in add and rm).
THEOREM HeapCorrect == Spec => []HeapAccounted
  <1>1. IInv => HeapAccounted
    BY DEF IInv, Masks, HeapAccounted, Intact
  <1> QED BY <1>1, Invariance, PTL

\* QRY finds the set at its position until then (findSet).
THEOREM FindCorrect == Spec => []FindsByPosition
  <1>1. IInv => FindsByPosition
    <2> SUFFICES ASSUME TypeOK, Linked, Hands, handler = "find", i >= pos \/ end = NULL
                 PROVE  end = IF pos < Len(order) THEN order[pos + 1] ELSE NULL
      BY DEF IInv, Masks, FindsByPosition, Intact
    <2>1. i <= pos /\ (end = IF i < Len(order) THEN order[i + 1] ELSE NULL)
      BY DEF Hands
    <2>2. i \in Nat /\ pos \in Nat /\ order \in Seq(Cells) /\ Len(order) \in Nat
      BY DEF TypeOK
    <2>3. CASE i = pos
      BY <2>1, <2>3
    <2>4. CASE i # pos
      <3>1. end = NULL
        BY <2>1, <2>2, <2>4
      <3>2. ~(i < Len(order))
        <4>1. SUFFICES ASSUME i < Len(order) PROVE FALSE
          OBVIOUS
        <4>2. i + 1 \in 1 .. Len(order) /\ end = order[i + 1]
          BY <2>1, <2>2, <4>1
        <4>3. order[i + 1] \in Cells
          BY <2>2, <4>2
        <4> QED BY <3>1, <4>2, <4>3
      <3> QED BY <2>1, <2>2, <3>1, <3>2
    <2> QED BY <2>3, <2>4
  <1> QED BY <1>1, Invariance, PTL

----------------------------------------------------------------------------
(* The list when an ADD was served where it does harm.  order is then no   *)
(* longer what the list holds, but some sequence of records still is, and  *)
(* the registers of rm and add fit it.                                     *)

Held(s) ==
    /\ Range(s) \subseteq allocated
    /\ pc \in {"next", "store"} => temp = queue
    /\ pc = "store" => nx = NULL \/ nx = next[temp]
    /\ pc = "free" => temp \in allocated \ Range(s)
    /\ handler = "walk" =>
          /\ new \in allocated \ Range(s) /\ next[new] = NULL /\ end \in Range(s)
          /\ pc = "free" => new # temp
    /\ handler = "find" => end = IF i < Len(s) THEN s[i + 1] ELSE NULL

SomeList == \E s \in Seq(Cells) : Chains(queue, next, s) /\ Held(s)

ListInv == TypeOK /\ (overlap # "RM" => SomeList)

LEMMA ChainNil ==
    ASSUME NEW head, NEW nxt, NEW s \in Seq(Cells), Chains(head, nxt, s)
    PROVE  /\ head = NULL <=> s = <<>>
           /\ head # NULL => head \in Range(s)
  <1>1. s # <<>> => 1 \in DOMAIN s /\ s[1] \in Cells
    BY TailFacts
  <1>2. s # <<>> => s[1] \in Range(s)
    BY <1>1 DEF Range
  <1> QED BY <1>1, <1>2 DEF Chains

LEMMA LastOrBefore ==
    ASSUME NEW n \in Nat, NEW k \in Nat, k - 1 < n
    PROVE  k < n <=> k # n
  OBVIOUS

\* The records of a chain but the last have a next one in it.
LEMMA ChainNext ==
    ASSUME NEW head, NEW nxt, NEW s \in Seq(Cells), Chains(head, nxt, s),
           NEW e \in Range(s), nxt[e] # NULL
    PROVE  nxt[e] \in Range(s)
  <1>1. DOMAIN s = 1 .. Len(s) /\ Len(s) \in Nat
    OBVIOUS
  <1>2. PICK k \in DOMAIN s : e = s[k]
    BY DEF Range
  <1>3. nxt[s[k]] = IF k = Len(s) THEN NULL ELSE s[k + 1]
    BY <1>2 DEF Chains
  <1>4. k # Len(s) /\ nxt[e] = s[k + 1]
    BY <1>2, <1>3
  <1>5. k \in 1 .. Len(s)
    BY <1>1
  <1>6. k + 1 \in 1 .. Len(s)
    BY <1>1, <1>4, <1>5, NextIndex
  <1>7. k + 1 \in DOMAIN s
    BY <1>1, <1>6
  <1> QED BY <1>4, <1>7 DEF Range

\* A record that is in no chain may change.
LEMMA ChainElsewhere ==
    ASSUME NEW head, NEW nxt \in [Cells -> Cells \cup {NULL}], NEW s \in Seq(Cells),
           Chains(head, nxt, s), NEW c \in Cells, c \notin Range(s),
           NEW after, after = [nxt EXCEPT ![c] = NULL]
    PROVE  Chains(head, after, s)
  <1>1. \A k \in DOMAIN s : s[k] \in Cells /\ s[k] # c
    BY DEF Range
  <1>2. \A k \in DOMAIN s : after[s[k]] = nxt[s[k]]
    BY <1>1
  <1> QED BY <1>2 DEF Chains

LEMMA ChainOfOne ==
    ASSUME NEW c \in Cells, NEW nxt, nxt[c] = NULL
    PROVE  Chains(c, nxt, <<c>>) /\ <<c>> \in Seq(Cells) /\ Range(<<c>>) = {c}
  <1>1. DOMAIN <<c>> = {1} /\ Len(<<c>>) = 1 /\ <<c>>[1] = c /\ <<c>> # <<>>
    OBVIOUS
  <1> QED BY <1>1 DEF Chains, Range

\* ADD with a record to spare
LEMMA AddKeepsList ==
    ASSUME TypeOK, NEW s \in Seq(Cells), Chains(queue, next, s), Held(s),
           NEW r \in Requests, Add(r)
    PROVE  SomeList'
  <1> USE DEF TypeOK
  <1>1. PICK c \in Cells \ allocated :
           /\ allocated' = allocated \cup {c}
           /\ next' = [next EXCEPT ![c] = NULL]
           /\ IF queue = NULL
              THEN /\ queue' = c /\ order' = Append(order, c) /\ answer' = "OK"
                   /\ UNCHANGED isr
              ELSE /\ handler' = "walk" /\ new' = c /\ end' = queue /\ answer' = "none"
                   /\ UNCHANGED <<queue, order, i, pos>>
    BY DEF Add
  <1>2. handler = "none" /\ UNCHANGED <<pc, temp, nx>>
    BY DEF Add, Command, main
  <1>3. c \notin Range(s) /\ next'[c] = NULL /\ (pc = "free" => c # temp)
    BY <1>1 DEF Held
  <1>4. CASE queue = NULL
    <2>1. handler' = "none" /\ queue' = c
      BY <1>1, <1>2, <1>4 DEF isr
    <2>2. pc \notin {"next", "store"}
      BY <1>4 DEF Held
    <2>3. Chains(queue', next', <<c>>) /\ <<c>> \in Seq(Cells) /\ Range(<<c>>) = {c}
      BY <1>3, <2>1, ChainOfOne
    <2>4. Held(<<c>>)'
      BY <1>1, <1>2, <1>3, <2>1, <2>2, <2>3 DEF Held
    <2> QED BY <2>3, <2>4 DEF SomeList
  <1>5. CASE queue # NULL
    <2>1. handler' = "walk" /\ new' = c /\ end' = queue /\ queue' = queue
      BY <1>1, <1>5
    <2>2. Chains(queue', next', s)
      BY <1>1, <1>3, <2>1, ChainElsewhere
    <2>3. queue \in Range(s)
      BY <1>5, ChainNil
    <2>4. pc = "store" => nx = NULL \/ nx = next'[temp]
      <3>1. pc = "store" => temp = queue /\ temp # c
        BY <1>3, <2>3 DEF Held
      <3>2. pc = "store" => next'[temp] = next[temp]
        BY <1>1, <3>1
      <3> QED BY <3>2 DEF Held
    <2>5. Held(s)'
      BY <1>1, <1>2, <1>3, <2>1, <2>3, <2>4 DEF Held
    <2> QED BY <2>2, <2>5 DEF SomeList
  <1> QED BY <1>4, <1>5

\* QRY begins at the first record, and its search goes from one to the next.
LEMMA FindKeepsList ==
    ASSUME TypeOK, NEW s \in Seq(Cells), Chains(queue, next, s), Held(s),
           FindStep \/ \E n \in Positions : Qry(n)
    PROVE  SomeList'
  <1>1. /\ UNCHANGED <<queue, next, allocated, pc, temp, nx>> /\ handler' = "find"
        /\ Len(s) \in Nat /\ DOMAIN s = 1 .. Len(s)
    BY DEF FindStep, Qry, heap, list, main
  <1>2. end' = IF i' < Len(s) THEN s[i' + 1] ELSE NULL
    <2>1. ASSUME NEW n \in Positions, Qry(n) PROVE end' = IF i' < Len(s) THEN s[i' + 1] ELSE NULL
      <3>1. end' = queue /\ i' = 0
        BY <2>1 DEF Qry
      <3>2. s # <<>> => Len(s) \in Nat \ {0}
        BY EmptySeq
      <3>3. s = <<>> => Len(s) = 0
        BY EmptySeq
      <3> QED BY <3>1, <3>2, <3>3 DEF Chains
    <2>2. CASE FindStep
      <3>1. end' = next[end] /\ end # NULL /\ i' = i + 1 /\ handler = "find" /\ i \in Nat
        BY <2>2 DEF FindStep, TypeOK
      <3>2. i < Len(s) /\ end = s[i + 1]
        BY <3>1 DEF Held
      <3>3. i + 1 \in DOMAIN s
        BY <1>1, <3>1, <3>2
      <3>4. end' = IF i' = Len(s) THEN NULL ELSE s[i' + 1]
        BY <3>1, <3>2, <3>3 DEF Chains
      <3>5. i' < Len(s) <=> i' # Len(s)
        <4>1. i' \in Nat /\ Len(s) \in Nat /\ i' - 1 < Len(s)
          BY <1>1, <3>1, <3>2
        <4> QED BY <4>1, LastOrBefore, Zenon
      <3> QED BY <3>4, <3>5
    <2> QED BY <2>1, <2>2
  <1>3. Chains(queue', next', s)
    BY <1>1
  <1>4. Held(s)'
    BY <1>1, <1>2 DEF Held
  <1> QED BY <1>3, <1>4 DEF SomeList

\* The walk of ADD, to the end of the list
LEMMA AddWalkKeepsList ==
    ASSUME TypeOK, NEW s \in Seq(Cells), Chains(queue, next, s), Held(s), AddWalk
    PROVE  SomeList'
  <1>1. /\ UNCHANGED <<queue, next, allocated, pc, temp, nx, handler, new>>
        /\ handler = "walk" /\ end' = next[end] /\ next[end] # NULL
    BY DEF AddWalk, heap, list, main
  <1>2. end \in Range(s)
    BY <1>1 DEF Held
  <1>3. end' \in Range(s)
    BY <1>1, <1>2, ChainNext
  <1>4. Chains(queue', next', s)
    BY <1>1
  <1>5. Held(s)'
    BY <1>1, <1>3 DEF Held
  <1> QED BY <1>4, <1>5 DEF SomeList

\* ADD links its record: behind the one that rm unlinks, it may be.
LEMMA AddLinkKeepsList ==
    ASSUME TypeOK, NEW s \in Seq(Cells), Chains(queue, next, s), Held(s), AddLink
    PROVE  SomeList'
  <1> USE DEF TypeOK
  <1>1. /\ UNCHANGED <<queue, allocated, pc, temp, nx>>
        /\ handler = "walk" /\ handler' = "none"
        /\ next[end] = NULL /\ next' = [next EXCEPT ![end] = new]
    BY DEF AddLink, Returns, main
  <1>2. /\ new \in Cells /\ end \in Cells /\ end \in Range(s)
        /\ new \in allocated \ Range(s) /\ next[new] = NULL
    BY <1>1 DEF Held
  <1>3. PICK t \in Seq(Cells) : t = Append(s, new) /\ Range(t) = Range(s) \cup {new}
    BY <1>2, AppendFacts, AppendRange
  <1>4. Links(queue, next, next', s, t, new, end)
    BY <1>1, <1>2, <1>3 DEF Links
  <1>5. Chains(queue, next', t)
    BY <1>2, <1>3, <1>4, ChainAppend
  <1>6. Chains(queue', next', t)
    BY <1>1, <1>5
  <1>7. pc = "store" => nx = NULL \/ nx = next'[temp]
    <2>1. CASE temp = end
      BY <1>1, <2>1 DEF Held
    <2>2. CASE temp # end
      <3>1. pc = "store" => next'[temp] = next[temp]
        BY <1>1, <1>2, <2>2
      <3> QED BY <3>1 DEF Held
    <2> QED BY <2>1, <2>2
  <1>8. Held(t)'
    BY <1>1, <1>2, <1>3, <1>7 DEF Held
  <1> QED BY <1>3, <1>6, <1>8 DEF SomeList

\* RM by the host, where it does no harm
LEMMA RmKeepsList ==
    ASSUME TypeOK, NEW s \in Seq(Cells), Chains(queue, next, s), Held(s), Rm,
           overlap' # "RM"
    PROVE  SomeList'
  <1>1. handler = "none" /\ handler' = "none" /\ UNCHANGED <<next, pc, temp, nx>>
    BY DEF Rm, Command, main, isr
  <1>2. CASE queue = NULL
    <2>1. queue' = queue /\ allocated' = allocated
      BY <1>2 DEF Rm
    <2>2. Chains(queue', next', s)
      BY <1>1, <2>1
    <2>3. Held(s)'
      BY <1>1, <2>1 DEF Held
    <2> QED BY <2>2, <2>3 DEF SomeList
  <1>3. CASE queue # NULL
    <2>1. queue' = next[queue] /\ allocated' = allocated \ {queue}
      BY <1>3 DEF Rm
    <2>2. pc \notin {"next", "store"}
      BY <1>3 DEF Rm, Overlaps, RmHurts
    <2>3. /\ s # <<>> /\ Chains(next[queue], next, Tail(s))
          /\ Range(Tail(s)) = Range(s) \ {queue} /\ queue \in Range(s)
      BY <1>3, ChainTail
    <2>4. Tail(s) \in Seq(Cells)
      BY <2>3, TailFacts
    <2>5. Chains(queue', next', Tail(s))
      BY <1>1, <2>1, <2>3
    <2>6. Held(Tail(s))'
      BY <1>1, <2>1, <2>2, <2>3 DEF Held
    <2> QED BY <2>4, <2>5, <2>6 DEF SomeList
  <1> QED BY <1>2, <1>3

\* The main loop unlinks the oldest record, and with it all that an ADD hung on
\* it since next was read.
LEMMA RmStoreKeepsList ==
    ASSUME TypeOK, NEW s \in Seq(Cells), Chains(queue, next, s), Held(s), RmStore
    PROVE  SomeList'
  <1>1. /\ pc = "store" /\ pc' = "free" /\ handler = "none" /\ handler' = "none"
        /\ temp' = temp /\ queue' = nx /\ UNCHANGED <<next, allocated>>
    BY DEF RmStore, Step, Goes, isr
  <1>2. temp = queue /\ queue \in Cells /\ queue # NULL
    BY <1>1 DEF Held, TypeOK
  <1>3. /\ s # <<>> /\ Chains(next[queue], next, Tail(s))
        /\ Range(Tail(s)) = Range(s) \ {queue} /\ queue \in Range(s)
    BY <1>2, ChainTail
  <1>4. CASE nx = next[temp]
    <2>1. Tail(s) \in Seq(Cells)
      BY <1>3, TailFacts
    <2>2. Chains(queue', next', Tail(s))
      BY <1>1, <1>2, <1>3, <1>4
    <2>3. Held(Tail(s))'
      BY <1>1, <1>2, <1>3 DEF Held
    <2> QED BY <2>1, <2>2, <2>3 DEF SomeList
  <1>5. CASE nx = NULL
    <2>1. <<>> \in Seq(Cells) /\ Range(<<>>) = {}
      BY DEF Range
    <2>2. Chains(queue', next', <<>>)
      BY <1>1, <1>5 DEF Chains
    <2>3. Held(<<>>)'
      BY <1>1, <1>2, <1>3, <2>1 DEF Held
    <2> QED BY <2>1, <2>2, <2>3 DEF SomeList
  <1> QED BY <1>1, <1>4, <1>5 DEF Held

\* The steps that neither link nor unlink a record
LEMMA OthersKeepList ==
    ASSUME TypeOK, NEW s \in Seq(Cells), Chains(queue, next, s), Held(s),
           \/ AddFull \/ FindEnds \/ UNCHANGED vars
           \/ \E r \in Requests : AddInvalid(r)
           \/ Test \/ Overflow \/ Enter \/ Use
           \/ DecLoad \/ DecCount \/ RmLoad \/ RmNext \/ RmFree
    PROVE  SomeList'
  <1>1. UNCHANGED <<queue, next>>
    BY DEF AddFull, AddInvalid, FindEnds, Test, Overflow, Enter, Use,
           DecLoad, DecCount, RmLoad, RmNext, RmFree, vars, heap, list
  <1>2. SUFFICES Held(s)'
    BY <1>1 DEF SomeList
  <1>3. CASE AddFull \/ UNCHANGED vars
    BY <1>1, <1>3 DEF AddFull, vars, heap, main, isr, Held
  <1>4. CASE FindEnds
    BY <1>1, <1>4 DEF FindEnds, Returns, heap, main, Held
  <1>5. ASSUME NEW r \in Requests, AddInvalid(r) PROVE Held(s)'
    <2>1. PICK c \in Cells \ allocated : allocated' = allocated \cup {c}
      BY <1>5 DEF AddInvalid
    <2> QED BY <1>1, <1>5, <2>1 DEF AddInvalid, main, isr, Held
  <1>6. CASE Test \/ Overflow \/ Enter \/ Use \/ DecLoad \/ DecCount
    BY <1>1, <1>6 DEF Test, Overflow, Enter, Use, DecLoad, DecCount, Step, Goes, heap, isr,
                      Held, TypeOK, Outside
  <1>7. CASE RmLoad \/ RmNext
    BY <1>1, <1>7 DEF RmLoad, RmNext, Step, Goes, heap, isr, Held
  <1>8. CASE RmFree
    <2>1. /\ UNCHANGED isr /\ handler = "none" /\ pc' \in {"out", "use"}
          /\ temp \notin Range(s) /\ allocated' = allocated \ {temp}
      BY <1>8 DEF RmFree, Step, Goes, Held
    <2> QED BY <1>1, <2>1 DEF Held, isr
  <1> QED BY <1>3, <1>4, <1>5, <1>6, <1>7, <1>8

LEMMA ListInvariant == Spec => []ListInv
  <1>1. Init => ListInv
    <2> SUFFICES ASSUME Init PROVE SomeList
      BY TypeInit DEF ListInv
    <2>1. <<>> \in Seq(Cells) /\ Range(<<>>) = {}
      BY DEF Range
    <2>2. Chains(queue, next, <<>>)
      BY DEF Init, Chains
    <2>3. Held(<<>>)
      BY <2>1 DEF Init, Held
    <2> QED BY <2>1, <2>2, <2>3 DEF SomeList
  <1>2. ListInv /\ [Next]_vars => ListInv'
    <2> SUFFICES ASSUME ListInv, [Next]_vars, overlap' # "RM" PROVE SomeList'
      BY TypeStep DEF ListInv
    <2>1. overlap # "RM"
      BY DEF Next, Handler, Host, Main, AddFull, Rm, Add, AddInvalid, Qry, AddWalk, AddLink,
             FindStep, FindEnds, Test, Overflow, Enter, DecLoad, DecCount, RmLoad, RmNext,
             RmStore, RmFree, Use, Overlaps, vars, ghosts
    <2>2. PICK s \in Seq(Cells) : Chains(queue, next, s) /\ Held(s)
      BY <2>1 DEF ListInv, SomeList
    <2> QED BY <2>2, AddKeepsList, FindKeepsList, AddWalkKeepsList, AddLinkKeepsList, RmKeepsList,
               RmStoreKeepsList, OthersKeepList DEF ListInv, Next, Handler, Host, Main
  <1> QED BY <1>1, <1>2, PTL DEF Spec

\* A list of records that are all different has no more of them than there are.
LEMMA ChainFits ==
    ASSUME NEW head, NEW nxt, NEW s \in Seq(Cells), Chains(head, nxt, s)
    PROVE  Len(s) <= Cardinality(Cells) /\ Len(s) \in Nat /\ Cardinality(Cells) \in Nat
  <1> DEFINE n == Len(s)
             N == Cardinality(Cells)
  <1>1. n \in Nat /\ s \in [1 .. n -> Cells]
    OBVIOUS
  <1>2. N \in Nat
    BY FS_CardinalityType
  <1>3. \A j, k \in 1 .. n : s[j] = s[k] => j = k
    BY <1>1 DEF Chains
  <1>4. IsFiniteSet(1 .. n) /\ Cardinality(1 .. n) = n
    BY <1>1, FS_Interval
  <1> HIDE DEF n, N
  <1>5. ~ (N < n)
    <2> SUFFICES ASSUME N < n PROVE FALSE
      OBVIOUS
    <2>1. Cardinality(Cells) < Cardinality(1 .. n)
      BY <1>4 DEF N
    <2>2. \E x, y \in 1 .. n : x # y /\ s[x] = s[y]
      BY <1>1, <1>4, <2>1, FS_PigeonHole
    <2> QED BY <1>3, <2>2
  <1> QED BY <1>1, <1>2, <1>5 DEF n, N

\* Where the list leads to, step by step: to the records of s, and to none then.
LEMMA TrailOfChain ==
    ASSUME NEW s \in Seq(Cells), Chains(queue, next, s)
    PROVE  /\ DOMAIN Trail = 0 .. Cardinality(Cells)
           /\ \A k \in DOMAIN Trail : Trail[k] = IF k < Len(s) THEN s[k + 1] ELSE NULL
  <1> DEFINE N == Cardinality(Cells)
             at == [k \in 0 .. N |-> IF k < Len(s) THEN s[k + 1] ELSE NULL]
             Body(f) == [k \in 0 .. N |->
                            IF k = 0 THEN queue
                            ELSE IF f[k - 1] = NULL THEN NULL ELSE next[f[k - 1]]]
             path == CHOOSE f : f = Body(f)
  <1>1. N \in Nat /\ Len(s) \in Nat /\ DOMAIN s = 1 .. Len(s)
    BY ChainFits
  <1>2. at[0] = queue
    <2>1. s = <<>> <=> Len(s) = 0
      BY EmptySeq
    <2> QED BY <1>1, <2>1 DEF Chains
  <1>3. ASSUME NEW k \in 1 .. N
        PROVE  at[k] = IF at[k - 1] = NULL THEN NULL ELSE next[at[k - 1]]
    <2>1. k - 1 \in 0 .. N /\ k \in 0 .. N /\ (k - 1) + 1 = k
      BY <1>1
    <2>2. CASE k - 1 < Len(s)
      <3>1. k \in DOMAIN s /\ at[k - 1] = s[k] /\ s[k] \in Cells
        BY <1>1, <2>1, <2>2
      <3>2. next[s[k]] = IF k = Len(s) THEN NULL ELSE s[k + 1]
        BY <3>1 DEF Chains
      <3>3. at[k] = IF k < Len(s) THEN s[k + 1] ELSE NULL
        BY <2>1
      <3>4. k < Len(s) <=> k # Len(s)
        <4>1. k \in Nat /\ Len(s) \in Nat
          BY <1>1
        <4> QED BY <2>2, <4>1, LastOrBefore, Zenon
      <3> QED BY <3>1, <3>2, <3>3, <3>4
    <2>3. CASE ~(k - 1 < Len(s))
      BY <1>1, <2>1, <2>3
    <2> QED BY <2>2, <2>3
  <1>4. at = Body(at)
    BY <1>2, <1>3
  <1>5. path = Body(path)
    BY <1>4
  <1> HIDE DEF at, path
  <1>6. path[0] = queue /\ DOMAIN path = 0 .. N
    BY <1>1, <1>5
  <1>7. ASSUME NEW k \in 1 .. N
        PROVE  path[k] = IF path[k - 1] = NULL THEN NULL ELSE next[path[k - 1]]
    BY <1>1, <1>5
  <1>8. \A k \in 0 .. N : path[k] = at[k]
    <2> DEFINE S == {k \in 0 .. N : path[k] = at[k]}
    <2>1. 0 \in S
      BY <1>1, <1>2, <1>6
    <2>2. ASSUME NEW k \in 0 .. (N - 1), k \in S PROVE k + 1 \in S
      <3>1. k + 1 \in 1 .. N /\ (k + 1) - 1 = k /\ k + 1 \in 0 .. N
        BY <1>1
      <3>2. path[k + 1] = IF path[k] = NULL THEN NULL ELSE next[path[k]]
        BY <1>7, <3>1
      <3>3. at[k + 1] = IF at[k] = NULL THEN NULL ELSE next[at[k]]
        BY <1>3, <3>1
      <3> QED BY <2>2, <3>1, <3>2, <3>3
    <2> HIDE DEF S
    <2>3. 0 .. N \subseteq S
      BY <1>1, <2>1, <2>2, UpTo
    <2> QED BY <2>3 DEF S
  <1>9. Trail = path
    BY DEF Trail, path
  <1> QED BY <1>6, <1>8, <1>9 DEF at

\* The list ends and leads to allocated records, also after ADDs that were
\* served where they do harm (rm's and add's relinking against each other).
THEOREM ListEnds == Spec => []StillAList
  <1>1. ListInv => StillAList
    <2> SUFFICES ASSUME ListInv, overlap # "RM"
                 PROVE  /\ Trail[Cardinality(Cells)] = NULL
                        /\ Range(Trail) \ {NULL} \subseteq allocated
      BY DEF StillAList
    <2>1. PICK s \in Seq(Cells) : Chains(queue, next, s) /\ Held(s)
      BY DEF ListInv, SomeList
    <2>2. Len(s) <= Cardinality(Cells) /\ Len(s) \in Nat /\ Cardinality(Cells) \in Nat
      BY <2>1, ChainFits
    <2>3. /\ DOMAIN Trail = 0 .. Cardinality(Cells)
          /\ \A k \in DOMAIN Trail : Trail[k] = IF k < Len(s) THEN s[k + 1] ELSE NULL
      BY <2>1, TrailOfChain
    <2>4. Trail[Cardinality(Cells)] = NULL
      BY <2>2, <2>3
    <2>5. ASSUME NEW k \in 0 .. Cardinality(Cells), Trail[k] # NULL
          PROVE  Trail[k] \in allocated
      <3>1. k < Len(s) /\ Trail[k] = s[k + 1]
        BY <2>3, <2>5
      <3>2. k + 1 \in DOMAIN s
        BY <2>2, <3>1
      <3>3. s[k + 1] \in Range(s)
        BY <3>2 DEF Range
      <3> QED BY <2>1, <3>1, <3>3 DEF Held
    <2> QED BY <2>3, <2>4, <2>5 DEF Range
  <1> QED BY <1>1, ListInvariant, PTL

\* The position of a record of the list on the trail
LEMMA OnTrail ==
    ASSUME NEW s \in Seq(Cells), Chains(queue, next, s), NEW k \in 1 .. Len(s)
    PROVE  /\ k \in 1 .. Cardinality(Cells) /\ s[k] # NULL
           /\ Trail[k - 1] = s[k] /\ Trail[k] = next[s[k]]
  <1>1. Len(s) <= Cardinality(Cells) /\ Len(s) \in Nat /\ Cardinality(Cells) \in Nat
    BY ChainFits
  <1>2. /\ DOMAIN Trail = 0 .. Cardinality(Cells)
        /\ \A n \in DOMAIN Trail : Trail[n] = IF n < Len(s) THEN s[n + 1] ELSE NULL
    BY TrailOfChain
  <1>3. k \in Nat /\ k - 1 \in DOMAIN Trail /\ k \in DOMAIN Trail /\ k - 1 < Len(s)
    BY <1>1, <1>2
  <1>4. Trail[k - 1] = s[k]
    BY <1>2, <1>3
  <1>5. k \in DOMAIN s /\ s[k] \in Cells
    OBVIOUS
  <1>6. next[s[k]] = IF k = Len(s) THEN NULL ELSE s[k + 1]
    BY <1>5 DEF Chains
  <1>7. k < Len(s) <=> k # Len(s)
    BY <1>1, <1>3, LastOrBefore, Zenon
  <1>8. Trail[k] = next[s[k]]
    BY <1>2, <1>3, <1>6, <1>7
  <1>9. k \in 1 .. Cardinality(Cells)
    BY <1>1
  <1> QED BY <1>4, <1>5, <1>8, <1>9

\* The loops of add and findSet advance along a list that stays as it is while
\* they run, and that ends (ListEnds): no walk takes more steps than there are
\* records, even after ADDs that were served where they do harm.
THEOREM WalksAdvance == Spec => WalkAdvances
  <1> DEFINE OneOn(k) == /\ end = Trail[k - 1] /\ end # NULL /\ end' = Trail[k]
                         /\ handler = "find" => i = k - 1 /\ i' = k
             Onward == overlap # "RM" /\ handler # "none" /\ handler' = handler =>
                          /\ UNCHANGED <<queue, next>>
                          /\ \E k \in 1 .. Cardinality(Cells) : OneOn(k)
  <1>1. ASSUME ListInv, [Next]_vars PROVE [Onward]_vars
    <2> SUFFICES ASSUME Next, overlap # "RM", handler # "none", handler' = handler
                 PROVE  /\ UNCHANGED <<queue, next>>
                        /\ \E k \in 1 .. Cardinality(Cells) : OneOn(k)
      BY <1>1
    <2>1. AddWalk \/ FindStep
      BY DEF Next, Handler, Host, Main, AddFull, Rm, Add, AddInvalid, Qry, AddLink, FindEnds,
             Command, Returns, Test, Overflow, Enter, DecLoad, DecCount, RmLoad, RmNext,
             RmStore, RmFree, Use, Step
    <2>2. PICK s \in Seq(Cells) : Chains(queue, next, s) /\ Held(s)
      BY <1>1 DEF ListInv, SomeList
    <2>3. UNCHANGED <<queue, next>> /\ end' = next[end]
      BY <2>1 DEF AddWalk, FindStep, heap, list
    <2>4. CASE AddWalk
      <3>1. handler = "walk" /\ end \in Range(s)
        BY <2>2, <2>4 DEF AddWalk, Held
      <3>2. PICK k \in DOMAIN s : end = s[k]
        BY <3>1 DEF Range
      <3>3. k \in 1 .. Len(s)
        OBVIOUS
      <3>4. OneOn(k) /\ k \in 1 .. Cardinality(Cells)
        BY <2>2, <2>3, <3>1, <3>2, <3>3, OnTrail
      <3> HIDE DEF OneOn
      <3> QED BY <2>3, <3>4
    <2>5. CASE FindStep
      <3>1. handler = "find" /\ end # NULL /\ i' = i + 1 /\ i \in Nat
        BY <1>1, <2>5 DEF FindStep, ListInv, TypeOK
      <3>2. i < Len(s) /\ end = s[i + 1]
        BY <2>2, <3>1 DEF Held
      <3>3. PICK k \in 1 .. Len(s) : k = i + 1 /\ i = k - 1
        <4>1. Len(s) \in Nat
          OBVIOUS
        <4> QED BY <3>1, <3>2, <4>1
      <3>4. Trail[k - 1] = s[k] /\ Trail[k] = next[s[k]] /\ k \in 1 .. Cardinality(Cells)
        BY <2>2, OnTrail
      <3>5. OneOn(k)
        BY <2>3, <3>1, <3>2, <3>3, <3>4
      <3> HIDE DEF OneOn
      <3> QED BY <2>3, <3>4, <3>5
    <2> QED BY <2>1, <2>4, <2>5
  <1>2. [Onward]_vars <=> [overlap # "RM" /\ handler # "none" /\ handler' = handler =>
          /\ UNCHANGED <<queue, next>>
          /\ \E k \in 1 .. Cardinality(Cells) :
                /\ end = Trail[k - 1] /\ end # NULL /\ end' = Trail[k]
                /\ handler = "find" => i = k - 1 /\ i' = k]_vars
    OBVIOUS
  <1> QED BY <1>1, <1>2, ListInvariant, PTL DEF Spec, WalkAdvances
=============================================================================

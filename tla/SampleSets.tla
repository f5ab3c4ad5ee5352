------------------------------ MODULE SampleSets ------------------------------
(***************************************************************************)
(* The sample-set queue of structure.c, record by record: a linked list of *)
(* malloc'ed dSets that the command handler extends, shortens and searches *)
(* from the USB interrupt while the main loop counts its head down and     *)
(* frees it.                                                               *)
(*                                                                         *)
(* The main loop works on the list inside a critical section.  The section *)
(* that finds dataBuf full returns without leaving it, and from then on    *)
(* entering one no longer masks interrupts.  So the main loop's part is    *)
(* split at every load and store of the build (the .lss of dec and rm);    *)
(* the interrupt's part is split only where it loops, and runs to its end. *)
(***************************************************************************)
EXTENDS Naturals, Sequences, FiniteSets, Functions

CONSTANTS
    Cells,         \* the dSet records that the heap can hold
    NULL,
    Requests,      \* what ADD may carry: [num, good], good: rate and channels in range
    Positions,     \* what QRY may ask for
    UINT32_MAX     \* 2^32 - 1

ASSUME CellsAssumption == NULL \notin Cells /\ IsFiniteSet(Cells)
ASSUME RequestsAssumption ==
    UINT32_MAX \in Nat /\ Requests \subseteq [num : 0 .. UINT32_MAX, good : BOOLEAN]
ASSUME PositionsAssumption == Positions \subseteq Nat

VARIABLES
    queue, next, num,   \* structure.c's queue; the fields of the records
    allocated,          \* the records malloc has given out
    pc,                 \* where the main loop is in readData, dec and rm
    d, temp, nx,        \* its registers: dec's queue, rm's temp, queue->next
    unmasked,           \* critical sections no longer mask interrupts
    handler,            \* where the command handler is
    new, end, i, pos,   \* its registers: add's temp; end, or findSet's temp, i and n
    answer,             \* the last command's
    order, lost,        \* ghosts: the records in the queue, oldest first; the leaked ones
    overlap             \* ghost: the worst command served where it does harm

list == <<queue, next, num>>
heap == <<list, allocated>>
main == <<pc, d, temp, nx, unmasked>>
isr == <<handler, new, end, i, pos>>
ghosts == <<order, lost, overlap>>
vars == <<heap, main, isr, answer, ghosts>>

\* add()'s test of its arguments
Acceptable(r) == r.num > 0 /\ r.good

Init ==
    /\ queue = NULL /\ next = [c \in Cells |-> NULL] /\ num = [c \in Cells |-> 0]
    /\ allocated = {}
    /\ pc = "out" /\ d = NULL /\ temp = NULL /\ nx = NULL /\ unmasked = FALSE
    /\ handler = "none" /\ new = NULL /\ end = NULL /\ i = 0 /\ pos = 0
    /\ answer = "none"
    /\ order = <<>> /\ lost = {} /\ overlap = "none"

----------------------------------------------------------------------------
(* The command handler.  While it runs the main loop does not. *)

Outside == {"out", "tested"}

\* The USB interrupt is taken.
Command ==
    /\ handler = "none"
    /\ pc \in Outside \/ unmasked

\* What a change of the list does harm to.  ADD: rm has read next, which is
\* still NULL, and the new record hangs on the one about to be unlinked; or
\* the heap is full of a record that is unlinked and not yet freed.
\* RM: the record is in the main loop's registers, or its fields are read next.
AddHurts == pc = "store"
RmHurts == pc \in {"count", "rm", "next", "store", "use"}

Overlaps(hurts, by) ==
    overlap' = IF overlap = "RM" \/ ~hurts THEN overlap ELSE by

\* The ghost queue without its oldest record
Shorter == IF order = <<>> THEN <<>> ELSE Tail(order)

AddFull ==
    /\ Command /\ allocated = Cells
    /\ answer' = "FULL"
    /\ Overlaps(pc = "free", "ADD")
    /\ UNCHANGED <<heap, main, isr, order, lost>>

\* Mutant: a refused request gives its record back.
AddInvalidFrees(r) ==
    /\ Command /\ ~Acceptable(r) /\ allocated # Cells
    /\ answer' = "INVALID"
    /\ UNCHANGED <<heap, main, isr, ghosts>>

\* The record of a refused request is not given back.
AddInvalid(r) ==
    /\ Command /\ ~Acceptable(r)
    /\ \E c \in Cells \ allocated :
          allocated' = allocated \cup {c} /\ lost' = lost \cup {c}
    /\ answer' = "INVALID"
    /\ UNCHANGED <<list, main, isr, order, overlap>>

\* Mutant: the new record's next is left as it was.
AddUnterminated(r) ==
    /\ Command /\ Acceptable(r)
    /\ \E c \in Cells \ allocated :
          /\ allocated' = allocated \cup {c}
          /\ num' = [num EXCEPT ![c] = r.num]
          /\ IF queue = NULL
             THEN /\ queue' = c /\ order' = Append(order, c) /\ answer' = "OK"
                  /\ UNCHANGED isr
             ELSE /\ handler' = "walk" /\ new' = c /\ end' = queue /\ answer' = "none"
                  /\ UNCHANGED <<queue, order, i, pos>>
    /\ UNCHANGED <<next, main, lost, overlap>>

Add(r) ==
    /\ Command /\ Acceptable(r)
    /\ \E c \in Cells \ allocated :
          /\ allocated' = allocated \cup {c}
          /\ num' = [num EXCEPT ![c] = r.num]
          /\ next' = [next EXCEPT ![c] = NULL]
          /\ IF queue = NULL
             THEN /\ queue' = c /\ order' = Append(order, c) /\ answer' = "OK"
                  /\ UNCHANGED isr
             ELSE /\ handler' = "walk" /\ new' = c /\ end' = queue /\ answer' = "none"
                  /\ UNCHANGED <<queue, order, i, pos>>
    /\ UNCHANGED <<main, lost, overlap>>

\* The handler returns; its registers mean nothing more.
Returns == handler' = "none" /\ new' = NULL /\ end' = NULL /\ i' = 0 /\ pos' = 0

\* while (end->next != NULL) end = end->next
AddWalk ==
    /\ handler = "walk" /\ next[end] # NULL
    /\ end' = next[end]
    /\ UNCHANGED <<heap, main, handler, new, i, pos, answer, ghosts>>

\* Mutant: the record is linked behind the first one, wherever the list ends.
AddLinkAtOnce ==
    /\ handler = "walk"
    /\ next' = [next EXCEPT ![queue] = new]
    /\ order' = Append(order, new)
    /\ Returns /\ answer' = "OK"
    /\ Overlaps(AddHurts /\ end = temp, "ADD")
    /\ UNCHANGED <<queue, num, allocated, main, lost>>

AddLink ==
    /\ handler = "walk" /\ next[end] = NULL
    /\ next' = [next EXCEPT ![end] = new]
    /\ order' = Append(order, new)
    /\ Returns /\ answer' = "OK"
    /\ Overlaps(AddHurts /\ end = temp, "ADD")
    /\ UNCHANGED <<queue, num, allocated, main, lost>>

\* rm() as the command handler calls it
Rm ==
    /\ Command
    /\ IF queue = NULL
       THEN UNCHANGED <<queue, allocated, order>>
       ELSE /\ queue' = next[queue]
            /\ allocated' = allocated \ {queue}
            /\ order' = Shorter
    /\ answer' = IF queue' = NULL THEN "EMPTY" ELSE "REMOVED"
    /\ Overlaps(RmHurts /\ queue # NULL, "RM")
    /\ UNCHANGED <<next, num, main, isr, lost>>

\* qryDSet(n) and the loop of findSet
Qry(n) ==
    /\ Command
    /\ handler' = "find" /\ end' = queue /\ i' = 0 /\ pos' = n /\ answer' = "none"
    /\ UNCHANGED <<heap, main, new, ghosts>>

\* Mutant: the search goes one record too far.
FindStepBeyond ==
    /\ handler = "find" /\ i <= pos /\ end # NULL
    /\ end' = next[end] /\ i' = i + 1
    /\ UNCHANGED <<heap, main, handler, new, pos, answer, ghosts>>

FindStep ==
    /\ handler = "find" /\ i < pos /\ end # NULL
    /\ end' = next[end] /\ i' = i + 1
    /\ UNCHANGED <<heap, main, handler, new, pos, answer, ghosts>>

FindEnds ==
    /\ handler = "find" /\ (i >= pos \/ end = NULL)
    /\ Returns
    /\ UNCHANGED <<heap, main, answer, ghosts>>

Handler == AddWalk \/ AddLink \/ FindStep \/ FindEnds

Host ==
    \/ AddFull \/ Rm
    \/ \E r \in Requests : Add(r) \/ AddInvalid(r)
    \/ \E n \in Positions : Qry(n)

----------------------------------------------------------------------------
(* The main loop: readData's test, its critical section, dec and rm *)

Step(from) == pc = from /\ handler = "none" /\ UNCHANGED <<isr, answer>>

\* The main loop's next step, and what its registers then hold: they mean
\* nothing once it is out of dec and rm.
Goes(to, dd, tt, nn) ==
    LET dead == to \in {"out", "use"}
    IN  /\ pc' = to
        /\ d' = IF dead THEN NULL ELSE dd
        /\ temp' = IF dead THEN NULL ELSE tt
        /\ nx' = IF dead THEN NULL ELSE nn

Test ==
    /\ Step("out") /\ queue # NULL
    /\ pc' = "tested"
    /\ UNCHANGED <<heap, d, temp, nx, unmasked, ghosts>>

\* dataBuf is full: readData returns inside the section.  The next sleep
\* enables interrupts, and no section masks them again.
Overflow ==
    /\ Step("tested")
    /\ pc' = "out" /\ unmasked' = TRUE
    /\ UNCHANGED <<heap, d, temp, nx, ghosts>>

Enter ==
    /\ Step("tested")
    /\ pc' = "dec"
    /\ UNCHANGED <<heap, d, temp, nx, unmasked, ghosts>>

\* Mutant: dec() does not look whether there is a set.
DecLoadUntested ==
    /\ Step("dec")
    /\ Goes("count", queue, temp, nx)
    /\ UNCHANGED <<heap, unmasked, ghosts>>

\* dec(): nothing to count when RM has emptied the queue since the test
DecLoad ==
    /\ Step("dec")
    /\ Goes(IF queue = NULL THEN "out" ELSE "count", queue, temp, nx)
    /\ UNCHANGED <<heap, unmasked, ghosts>>

DecCount ==
    /\ Step("count")
    /\ num' = [num EXCEPT ![d] = IF @ = 0 THEN UINT32_MAX ELSE @ - 1]
    /\ Goes(IF num'[d] = 0 THEN "rm" ELSE "out", d, temp, nx)
    /\ UNCHANGED <<queue, next, allocated, unmasked, ghosts>>

\* rm() as dec calls it
RmLoad ==
    /\ Step("rm")
    /\ Goes(IF queue = NULL THEN "out" ELSE "next", NULL, queue, nx)
    /\ UNCHANGED <<heap, unmasked, ghosts>>

RmNext ==
    /\ Step("next")
    /\ Goes("store", d, temp, next[temp])
    /\ UNCHANGED <<heap, unmasked, ghosts>>

RmStore ==
    /\ Step("store")
    /\ queue' = nx /\ order' = Shorter
    /\ Goes("free", d, temp, NULL)
    /\ UNCHANGED <<next, num, allocated, unmasked, lost, overlap>>

\* Mutant: the record of a set that ends is kept.
RmFreeNothing ==
    /\ Step("free")
    /\ Goes(IF queue = NULL THEN "out" ELSE "use", d, temp, nx)
    /\ UNCHANGED <<heap, unmasked, ghosts>>

\* free() of a record that is free already changes nothing in newlib-nano.
RmFree ==
    /\ Step("free")
    /\ allocated' = allocated \ {temp}
    /\ Goes(IF queue = NULL THEN "out" ELSE "use", d, temp, nx)
    /\ UNCHANGED <<list, unmasked, ghosts>>

\* status_check: the next set's rate and channels are read from its record
Use ==
    /\ Step("use")
    /\ pc' = "out"
    /\ UNCHANGED <<heap, d, temp, nx, unmasked, ghosts>>

Main ==
    \/ Test \/ Overflow \/ Enter
    \/ DecLoad \/ DecCount \/ RmLoad \/ RmNext \/ RmStore \/ RmFree \/ Use

Next == Handler \/ Host \/ Main

\* A handler that has begun runs on.
Spec == Init /\ [][Next]_vars /\ WF_vars(Handler)

----------------------------------------------------------------------------
(* Properties *)

\* Every variable keeps its type; the main loop has a record in hand when it uses one.
TypeOK ==
    /\ queue \in Cells \cup {NULL} /\ next \in [Cells -> Cells \cup {NULL}]
    /\ num \in [Cells -> 0 .. UINT32_MAX] /\ allocated \subseteq Cells
    /\ pc \in Outside \cup {"dec", "count", "rm", "next", "store", "free", "use"}
    /\ {d, temp, nx, new, end} \subseteq Cells \cup {NULL}
    /\ pc = "count" => d \in Cells
    /\ pc \in {"next", "store", "free"} => temp \in Cells
    /\ unmasked \in BOOLEAN
    /\ handler \in {"none", "walk", "find"}
    /\ handler = "walk" => new \in Cells /\ end \in Cells
    /\ i \in Nat /\ pos \in Nat
    /\ answer \in {"none", "OK", "INVALID", "FULL", "EMPTY", "REMOVED"}
    /\ order \in Seq(Cells) /\ lost \subseteq Cells
    /\ overlap \in {"none", "ADD", "RM"}

\* Before the first overflow, and after it until a command is served where it
\* does harm
Intact == ~unmasked \/ overlap = "none"

\* The records of the queue are linked one to the next, each once.
Linked ==
    /\ queue = IF order = <<>> THEN NULL ELSE order[1]
    /\ \A k \in DOMAIN order :
          next[order[k]] = IF k = Len(order) THEN NULL ELSE order[k + 1]
    /\ \A j, k \in DOMAIN order : order[j] = order[k] => j = k

\* Until a command is served where it does harm, which critical sections that
\* mask interrupts never allow, the list is the queue: the records in the order
\* they were added.
ListIsFifo == Intact => Linked

\* The heap holds exactly the queue's records, the records of the refused
\* requests, and those in the hands of add and rm; no two of these coincide.
Accounted ==
    /\ allocated = Range(order) \cup lost
                      \cup (IF handler = "walk" THEN {new} ELSE {})
                      \cup (IF pc = "free" THEN {temp} ELSE {})
    /\ Range(order) \cap lost = {}
    /\ handler = "walk" => new \notin Range(order) \cup lost
    /\ pc = "free" => temp \notin Range(order) \cup lost
    /\ handler = "walk" /\ pc = "free" => new # temp

\* Until then, no record is lost, freed twice or freed while it is linked.
HeapAccounted == Intact => Accounted

\* QRY n finds the set that n others are in front of, whatever the main loop
\* is doing with the list.
FindsByPosition ==
    Intact /\ handler = "find" /\ (i >= pos \/ end = NULL) =>
        end = IF pos < Len(order) THEN order[pos + 1] ELSE NULL

\* The records the list leads to, one after the other
Trail[k \in 0 .. Cardinality(Cells)] ==
    IF k = 0 THEN queue ELSE IF Trail[k - 1] = NULL THEN NULL ELSE next[Trail[k - 1]]

\* An ADD served where it does harm may lose sets that were accepted, but the list
\* stays one: it ends, and leads to records that are allocated.
StillAList ==
    overlap # "RM" =>
        /\ Trail[Cardinality(Cells)] = NULL
        /\ Range(Trail) \ {NULL} \subseteq allocated

\* While a loop of add or findSet runs, no one changes the list under it, and
\* each step goes from a record to the next one, which findSet counts: as the
\* list ends, so does the loop.
WalkAdvances ==
    [][overlap # "RM" /\ handler # "none" /\ handler' = handler =>
          /\ UNCHANGED <<queue, next>>
          /\ \E k \in 1 .. Cardinality(Cells) :
                /\ end = Trail[k - 1] /\ end # NULL /\ end' = Trail[k]
                /\ handler = "find" => i = k - 1 /\ i' = k]_vars

\* The loops of add and findSet end, in the interrupt, as long as no RM was
\* served where it does harm.
WalkEnds == (handler # "none" /\ overlap # "RM") ~> (handler = "none")

Promise == INSTANCE SetQueue WITH
    HeapCells <- Cardinality(Cells),
    sets <- [k \in DOMAIN order |-> num[order[k]]],
    leaked <- Cardinality(lost),
    spoilt <- overlap # "none"

\* The list is the queue of SetQueue until a command is served where it does harm.
KeepsPromise == Promise!Spec

=============================================================================

------------------------- MODULE MessageListProofs -------------------------
(***************************************************************************)
(* The linked list is a queue, for any number of cells and messages: no    *)
(* freed cell is followed, all that were listed are freed in the end, and  *)
(* every step of the two threads is a step of MessageQueue or none.  The   *)
(* invariant names the sequence of cells the pointers stand for.           *)
(***************************************************************************)
EXTENDS MessageList, FiniteSetTheorems, WellFoundedInduction, TLAPS

Cell == [data : Messages, next : Pointer, prev : Pointer]

Types ==
    /\ TypeOK
    /\ heap \in [Allocated -> Cell]
    /\ comm \in {"read", "wait", "first", "append", "tail", "post", "join", "done"}
    /\ proc \in {"loop", "take", "unlink", "post", "process", "exited"}

(* One thread at a time is between sem_wait() and sem_post().              *)
CommHolds == comm \in {"first", "append", "tail", "post"}
ProcHolds == proc \in {"take", "unlink", "post"}

Exclusion ==
    /\ ~(CommHolds /\ ProcHolds)
    /\ message_list = IF CommHolds \/ ProcHolds THEN 0 ELSE 1

(* The cells of ch, in this order, are the list.  While the head is being  *)
(* removed the cell after it still points back to it, and while a cell is  *)
(* being appended messages_tail is not there yet; when the list is empty   *)
(* messages_tail may be anything.                                          *)
Linked(ch) ==
    /\ \A i \in DOMAIN ch :
          /\ ch[i] \in Allocated
          /\ heap[ch[i]].next = IF i = Len(ch) THEN Null ELSE ch[i + 1]
          /\ heap[ch[i]].prev = IF i > 1 THEN ch[i - 1]
                                ELSE IF proc = "unlink" THEN taken ELSE Null
    /\ \A i, j \in DOMAIN ch : ch[i] = ch[j] => i = j
    /\ messages_head = IF ch = <<>> THEN Null ELSE ch[1]
    /\ (comm # "tail" /\ ch # <<>>) => messages_tail = ch[Len(ch)]

Listed(ch, c) == \E i \in DOMAIN ch : ch[i] = c

(* The cell each thread has in hand is its own, or is on the list.         *)
CommOwns(ch) ==
    /\ comm \in {"wait", "first", "append"} =>
          new \in Allocated /\ new # taken /\ ~Listed(ch, new)
    /\ comm \in {"tail", "post"} => ch # <<>> /\ new = ch[Len(ch)]
    /\ comm = "read" => new = Null
    /\ (comm \in {"join", "done"} /\ new # Null) =>
          new \in Allocated /\ new # taken /\ ~Listed(ch, new)
    /\ comm = "first" => ch = <<>>
    /\ comm = "append" => ch # <<>>
    /\ comm = "tail" => Len(ch) > 1
    /\ comm = "done" => ch = <<>> /\ proc = "exited"

ProcOwns(ch) ==
    /\ proc \in {"loop", "exited"} => taken = Null
    /\ proc = "take" => ch # <<>> /\ taken = ch[1]
    /\ proc \in {"unlink", "process"} => taken # Null
    /\ (proc # "take" /\ taken # Null) => taken \in Allocated /\ ~Listed(ch, taken)
    /\ proc = "unlink" => /\ heap[taken].next = messages_head
                          /\ heap[taken].prev = Null

AllOwned(ch) == \A a \in Allocated : a \in {new, taken} \/ Listed(ch, a)

ListIs(ch) == Linked(ch) /\ CommOwns(ch) /\ ProcOwns(ch) /\ AllOwned(ch)

Sound == Types /\ Exclusion /\ ~invalid

ListInv == Sound /\ \E ch \in Seq(Cells) : ListIs(ch)

(* What the list holds.                                                    *)
Contents(ch) == [k \in DOMAIN ch |-> heap[ch[k]].data]

-----------------------------------------------------------------------------
LEMMA NullFacts == Null \notin Cells /\ IsFiniteSet(Cells)
BY ListAssumption

LEMMA SeqFacts ==
    ASSUME NEW ch \in Seq(Cells)
    PROVE  /\ Len(ch) \in Nat /\ DOMAIN ch = 1 .. Len(ch)
           /\ ch = <<>> <=> Len(ch) = 0
           /\ \A i \in DOMAIN ch : ch[i] \in Cells
<1>1. Len(ch) \in Nat /\ DOMAIN ch = 1 .. Len(ch)
  OBVIOUS
<1>2. ch = <<>> <=> Len(ch) = 0
  OBVIOUS
<1>3. \A i \in DOMAIN ch : ch[i] \in Cells
  OBVIOUS
<1> QED BY <1>1, <1>2, <1>3

(* The steps that leave the heap and the ends of the list alone.           *)
Turns ==
    \/ CommWaits \/ CommGivesUp \/ CommPosts \/ StopsReading
    \/ ProcWaits \/ ProcPosts \/ ThreadEnds \/ Finish \/ Done

LEMMA TurnsStep ==
    ASSUME Sound, NEW ch \in Seq(Cells), ListIs(ch), Turns \/ UNCHANGED vars
    PROVE  Sound' /\ ListIs(ch)' /\ Contents(ch)' = Contents(ch)
<1> USE DEF Sound, Types, TypeOK, Exclusion, CommHolds, ProcHolds, Allocated
<1> USE DEF ListIs, Linked, CommOwns, ProcOwns, AllOwned, Listed, listVars
<1>1. CASE CommWaits
  BY <1>1, NullFacts DEF CommWaits, Contents
<1>2. CASE CommPosts
  BY <1>2 DEF CommPosts, Contents
<1>3. CASE StopsReading
  BY <1>3 DEF StopsReading, Contents
<1>4. CASE ProcWaits
  BY <1>4, NullFacts DEF ProcWaits, Contents
<1>5. CASE ProcPosts
  BY <1>5 DEF ProcPosts, Contents
<1>6. CASE ThreadEnds
  BY <1>6 DEF ThreadEnds, Contents
<1>7. CASE Finish
  BY <1>7, NullFacts DEF Finish, Contents, Pointer
<1>8. CASE Done \/ UNCHANGED vars
  BY <1>8 DEF Done, Contents, vars
<1>9. CASE CommGivesUp
  BY <1>9 DEF CommGivesUp, Contents
<1> QED
  BY <1>1, <1>2, <1>3, <1>4, <1>5, <1>6, <1>7, <1>8, <1>9 DEF Turns

(* The steps on a cell that is not on the list.                            *)
LEMMA NewMessageStep ==
    ASSUME Sound, NEW ch \in Seq(Cells), ListIs(ch), NewMessage
    PROVE  Sound' /\ ListIs(ch)' /\ Contents(ch)' = Contents(ch)
<1>1. PICK c \in Cells \ Allocated, m \in Messages :
         /\ heap' = [a \in Allocated \cup {c} |->
                       IF a = c THEN [data |-> m, next |-> Null, prev |-> Null]
                       ELSE heap[a]]
         /\ new' = c
  BY DEF NewMessage
<1>2. /\ comm = "read" /\ comm' = "wait"
      /\ UNCHANGED <<messages_head, messages_tail, message_list, proc, taken, invalid>>
  BY DEF NewMessage
<1>3. /\ Allocated' = Allocated \cup {c} /\ c \notin Allocated /\ c # Null
      /\ \A a \in Allocated : heap'[a] = heap[a]
      /\ heap'[c] = [data |-> m, next |-> Null, prev |-> Null]
  BY <1>1, NullFacts DEF Allocated
<1>4. Types'
  BY <1>1, <1>2, <1>3 DEF Sound, Types, TypeOK, Pointer, Cell
<1>5. Exclusion' /\ ~invalid'
  BY <1>2 DEF Sound, Exclusion, CommHolds, ProcHolds
<1>6. \A i \in DOMAIN ch : ch[i] \in Allocated
  BY DEF ListIs, Linked
<1>7. Linked(ch)'
  BY <1>2, <1>3, <1>6 DEF ListIs, Linked
<1>8. taken # c
  BY <1>3, <1>6, <1>2 DEF ListIs, ProcOwns, Sound, Types
<1>9. CommOwns(ch)' /\ ProcOwns(ch)' /\ AllOwned(ch)'
  <2>1. CommOwns(ch)'
    BY <1>1, <1>2, <1>3, <1>6, <1>8 DEF CommOwns, Listed
  <2>2. ProcOwns(ch)'
    BY <1>2, <1>3 DEF ListIs, ProcOwns, Listed
  <2>3. AllOwned(ch)'
    <3>1. Null \notin Allocated
      BY NullFacts DEF Sound, Types, TypeOK
    <3> QED BY <1>1, <1>2, <1>3, <3>1 DEF ListIs, AllOwned, CommOwns, Listed
  <2> QED BY <2>1, <2>2, <2>3
<1>10. Contents(ch)' = Contents(ch)
  BY <1>3, <1>6 DEF Contents
<1> QED
  BY <1>4, <1>5, <1>7, <1>9, <1>10 DEF Sound, ListIs

LEMMA DestroyStep ==
    ASSUME Sound, NEW ch \in Seq(Cells), ListIs(ch), Destroy
    PROVE  Sound' /\ ListIs(ch)' /\ Contents(ch)' = Contents(ch)
<1>1. /\ proc = "process" /\ proc' = "loop" /\ taken' = Null
      /\ heap' = [c \in Allocated \ {taken} |-> heap[c]]
      /\ UNCHANGED <<messages_head, messages_tail, message_list, comm, new>>
      /\ taken \in Allocated => invalid' = invalid
  BY DEF Destroy, Free, Follows, Allocated, Sound, Types, TypeOK
<1>2. /\ taken \in Allocated /\ ~Listed(ch, taken) /\ new # taken
      /\ \A i \in DOMAIN ch : ch[i] \in Allocated /\ ch[i] # taken
  BY <1>1, NullFacts DEF ListIs, Linked, ProcOwns, CommOwns, Listed, Sound, Types, TypeOK
<1>3. /\ Allocated' = Allocated \ {taken}
      /\ \A a \in Allocated \ {taken} : heap'[a] = heap[a]
  BY <1>1 DEF Allocated
<1>4. Sound'
  BY <1>1, <1>2, <1>3 DEF Sound, Types, TypeOK, Pointer, Exclusion, CommHolds, ProcHolds
<1>5. Linked(ch)'
  BY <1>1, <1>2, <1>3 DEF ListIs, Linked
<1>6. CommOwns(ch)' /\ ProcOwns(ch)' /\ AllOwned(ch)'
  BY <1>1, <1>2, <1>3, NullFacts
  DEF ListIs, CommOwns, ProcOwns, AllOwned, Listed, Sound, Types, TypeOK
<1>7. Contents(ch)' = Contents(ch)
  BY <1>2, <1>3 DEF Contents
<1> QED
  BY <1>4, <1>5, <1>6, <1>7 DEF ListIs

LEMMA AdvanceTailStep ==
    ASSUME Sound, NEW ch \in Seq(Cells), ListIs(ch), AdvanceTail
    PROVE  Sound' /\ ListIs(ch)' /\ Contents(ch)' = Contents(ch)
BY DEF AdvanceTail, Sound, Types, TypeOK, Exclusion, CommHolds, ProcHolds, Allocated,
   ListIs, Linked, CommOwns, ProcOwns, AllOwned, Listed, Contents, Pointer

(* Writing pointers.                                                       *)
LEMMA SetPointers ==
    ASSUME NEW D, NEW h \in [D -> Cell], NEW a, NEW p \in Pointer
    PROVE  /\ SetNext(h, a, p) \in [D -> Cell] /\ SetPrev(h, a, p) \in [D -> Cell]
           /\ \A c \in D :
                 /\ SetNext(h, a, p)[c].data = h[c].data
                 /\ SetNext(h, a, p)[c].prev = h[c].prev
                 /\ SetNext(h, a, p)[c].next = IF c = a THEN p ELSE h[c].next
                 /\ SetPrev(h, a, p)[c].data = h[c].data
                 /\ SetPrev(h, a, p)[c].next = h[c].next
                 /\ SetPrev(h, a, p)[c].prev = IF c = a THEN p ELSE h[c].prev
BY DEF SetNext, SetPrev, Cell

(* Appending: the first cell, and a further one.                           *)
LEMMA LinkFirstStep ==
    ASSUME Sound, NEW ch \in Seq(Cells), ListIs(ch), LinkFirst,
           NEW ch2 \in Seq(Cells), ch2 = <<new>>
    PROVE  /\ Sound' /\ ListIs(ch2)'
           /\ Contents(ch2)' = Append(Contents(ch), heap[new].data)
           /\ heap[new].data \in Messages
<1>1. /\ comm = "first" /\ comm' = "post"
      /\ messages_head' = new /\ messages_tail' = new
      /\ heap' = SetPrev(SetNext(heap, new, Null), new, Null)
      /\ UNCHANGED <<message_list, new, proc, taken, invalid>>
  BY DEF LinkFirst
<1>2. /\ ch = <<>> /\ new \in Allocated /\ new # taken /\ ~ProcHolds
      /\ heap \in [Allocated -> Cell]
  BY <1>1 DEF ListIs, CommOwns, Sound, Types, Exclusion, CommHolds
<1>3. /\ heap' \in [Allocated -> Cell] /\ Allocated' = Allocated
      /\ heap'[new].next = Null /\ heap'[new].prev = Null
      /\ \A a \in Allocated : heap'[a].data = heap[a].data
  <2> DEFINE h == SetNext(heap, new, Null)
  <2>1. Null \in Pointer
    BY DEF Pointer
  <2>2. h \in [Allocated -> Cell] /\ h[new].next = Null
        /\ \A a \in Allocated : h[a].data = heap[a].data
    BY <1>2, <2>1, SetPointers
  <2> HIDE DEF h
  <2>3. /\ SetPrev(h, new, Null) \in [Allocated -> Cell]
        /\ \A a \in Allocated : /\ SetPrev(h, new, Null)[a].data = h[a].data
                                /\ SetPrev(h, new, Null)[a].next = h[a].next
        /\ SetPrev(h, new, Null)[new].prev = Null
    BY <1>2, <2>1, <2>2, SetPointers
  <2>4. heap' = SetPrev(h, new, Null)
    BY <1>1 DEF h
  <2> QED BY <1>2, <2>2, <2>3, <2>4 DEF Allocated
<1>4. ch2 # <<>> /\ Len(ch2) = 1 /\ DOMAIN ch2 = {1} /\ ch2[1] = new
  OBVIOUS
<1>5. Sound'
  <2>1. Types'
    BY <1>1, <1>3 DEF Sound, Types, TypeOK, Pointer, Cell
  <2> QED BY <1>1, <1>2, <2>1 DEF Sound, Exclusion, CommHolds, ProcHolds
<1>6. Linked(ch2)'
  BY <1>1, <1>2, <1>3, <1>4 DEF Linked, ProcHolds
<1>7. CommOwns(ch2)' /\ ProcOwns(ch2)' /\ AllOwned(ch2)'
  BY <1>1, <1>2, <1>3, <1>4 DEF ListIs, CommOwns, ProcOwns, AllOwned, Listed, ProcHolds
<1>8. Contents(ch2)' = Append(Contents(ch), heap[new].data)
  BY <1>1, <1>2, <1>3, <1>4 DEF Contents
<1> QED
  BY <1>2, <1>5, <1>6, <1>7, <1>8 DEF ListIs, Cell

LEMMA InsertAfterTailStep ==
    ASSUME Sound, NEW ch \in Seq(Cells), ListIs(ch), InsertAfterTail,
           NEW ch2 \in Seq(Cells), ch2 = Append(ch, new)
    PROVE  /\ Sound' /\ ListIs(ch2)'
           /\ Contents(ch2)' = Append(Contents(ch), heap[new].data)
           /\ heap[new].data \in Messages
<1> DEFINE n == Len(ch)
           last == messages_tail
           h1 == SetNext(heap, last, new)
           h2 == SetNext(h1, new, Null)
           h3 == SetPrev(h2, new, last)
<1>1. /\ comm = "append" /\ comm' = "tail" /\ Follows({messages_tail})
      /\ UNCHANGED <<messages_head, messages_tail, message_list, new, proc, taken>>
  BY DEF InsertAfterTail
<1>2. /\ n \in Nat /\ n > 0 /\ new \in Allocated /\ new # taken /\ ~ProcHolds
      /\ heap \in [Allocated -> Cell] /\ Allocated \subseteq Cells
      /\ last = ch[n] /\ last \in Allocated /\ heap[last].next = Null /\ new # last
      /\ \A i \in DOMAIN ch : ch[i] \in Allocated /\ ch[i] # new
  BY <1>1 DEF ListIs, CommOwns, Linked, Listed, Sound, Types, TypeOK, Exclusion, CommHolds
<1>3. heap' = h3
  <2>1. heap' = SetPrev(h3, Null, new)
    BY <1>2, Zenon DEF InsertAfterTail
  <2>2. h1 \in [Allocated -> Cell] /\ h2 \in [Allocated -> Cell]
        /\ h3 \in [Allocated -> Cell]
    BY <1>2, SetPointers DEF Pointer
  <2>3. Null \notin Allocated
    BY <1>2, NullFacts
  <2> HIDE DEF h3
  <2> QED BY <2>1, <2>2, <2>3 DEF SetPrev
<1>4. /\ heap' \in [Allocated -> Cell] /\ Allocated' = Allocated
      /\ heap'[new].next = Null /\ heap'[new].prev = last /\ heap'[last].next = new
      /\ \A a \in Allocated : heap'[a].data = heap[a].data
      /\ \A a \in Allocated \ {new, last} : heap'[a].next = heap[a].next
      /\ \A a \in Allocated \ {new} : heap'[a].prev = heap[a].prev
  <2>1. Null \in Pointer /\ new \in Pointer /\ last \in Pointer
    BY <1>2 DEF Pointer
  <2>2. /\ h1 \in [Allocated -> Cell] /\ h1[last].next = new
        /\ \A a \in Allocated : h1[a].data = heap[a].data /\ h1[a].prev = heap[a].prev
        /\ \A a \in Allocated \ {last} : h1[a].next = heap[a].next
    BY <1>2, <2>1, SetPointers
  <2> HIDE DEF h1
  <2>3. /\ h2 \in [Allocated -> Cell] /\ h2[new].next = Null
        /\ \A a \in Allocated : h2[a].data = h1[a].data /\ h2[a].prev = h1[a].prev
        /\ \A a \in Allocated \ {new} : h2[a].next = h1[a].next
    BY <1>2, <2>1, <2>2, SetPointers
  <2> HIDE DEF h2
  <2>4. /\ h3 \in [Allocated -> Cell] /\ h3[new].prev = last
        /\ \A a \in Allocated : h3[a].data = h2[a].data /\ h3[a].next = h2[a].next
        /\ \A a \in Allocated \ {new} : h3[a].prev = h2[a].prev
    BY <1>2, <2>1, <2>3, SetPointers
  <2> HIDE DEF h3
  <2> QED BY <1>2, <1>3, <2>2, <2>3, <2>4 DEF Allocated
<1>5. /\ Len(ch2) = n + 1 /\ ch2 # <<>> /\ DOMAIN ch2 = 1 .. (n + 1)
      /\ ch2[n + 1] = new /\ DOMAIN ch = 1 .. n
      /\ \A i \in 1 .. n : ch2[i] = ch[i]
  OBVIOUS
<1> HIDE DEF n, last, h1, h2, h3
<1>6. Sound'
  <2>1. Types'
    BY <1>1, <1>4 DEF Sound, Types, TypeOK, Cell, Follows
  <2>2. ~invalid'
    BY <1>1, <1>2 DEF Sound, Follows, last
  <2> QED BY <1>1, <1>2, <2>1, <2>2 DEF Sound, Exclusion, CommHolds, ProcHolds
<1>7. Linked(ch2)'
  <2>1. proc # "unlink" /\ proc' # "unlink" /\ comm' = "tail"
    BY <1>1, <1>2 DEF ProcHolds
  <2>2. /\ \A i \in 1 .. n :
              /\ heap[ch[i]].next = IF i = n THEN Null ELSE ch[i + 1]
              /\ heap[ch[i]].prev = IF i > 1 THEN ch[i - 1] ELSE Null
        /\ \A i, j \in 1 .. n : ch[i] = ch[j] => i = j
        /\ messages_head = ch[1]
    <3>1. ch # <<>> /\ Linked(ch)
      BY <1>1 DEF ListIs, CommOwns
    <3> QED BY <1>5, <2>1, <3>1 DEF Linked, n
  <2>3. \A i \in 1 .. n : /\ heap'[ch2[i]].next = ch2[i + 1]
                          /\ heap'[ch2[i]].prev = IF i > 1 THEN ch2[i - 1] ELSE Null
    <3> SUFFICES ASSUME NEW i \in 1 .. n
                 PROVE  /\ heap'[ch2[i]].next = ch2[i + 1]
                        /\ heap'[ch2[i]].prev = IF i > 1 THEN ch2[i - 1] ELSE Null
      OBVIOUS
    <3>1. ch2[i] = ch[i] /\ ch[i] \in Allocated \ {new}
      BY <1>2, <1>5
    <3>2. heap'[ch[i]].prev = heap[ch[i]].prev
      BY <1>4, <3>1
    <3>3. i > 1 => ch2[i - 1] = ch[i - 1]
      BY <1>2, <1>5
    <3>4. heap'[ch2[i]].prev = IF i > 1 THEN ch2[i - 1] ELSE Null
      BY <2>2, <3>1, <3>2, <3>3
    <3>5. CASE i = n
      BY <1>2, <1>4, <1>5, <3>1, <3>4, <3>5
    <3>6. CASE i # n
      <4>1. ch[i] # last
        BY <1>2, <2>2, <3>6
      <4>2. heap'[ch[i]].next = heap[ch[i]].next
        BY <1>4, <3>1, <4>1
      <4>3. heap[ch[i]].next = ch[i + 1]
        BY <2>2, <3>6
      <4>4. ch2[i + 1] = ch[i + 1]
        BY <1>2, <1>5, <3>6
      <4> QED BY <3>1, <3>4, <4>2, <4>3, <4>4
    <3> QED BY <3>5, <3>6
  <2>4. heap'[ch2[n + 1]].next = Null /\ heap'[ch2[n + 1]].prev = ch2[n + 1 - 1]
    BY <1>2, <1>4, <1>5
  <2>5. \A i, j \in DOMAIN ch2 : ch2[i] = ch2[j] => i = j
    BY <1>2, <1>5, <2>2
  <2>6. \A i \in DOMAIN ch2 : ch2[i] \in Allocated'
    BY <1>2, <1>4, <1>5
  <2>7. messages_head' = ch2[1]
    BY <1>1, <1>2, <1>5, <2>2
  <2> QED BY <1>2, <1>5, <2>1, <2>3, <2>4, <2>5, <2>6, <2>7 DEF Linked
<1>8. CommOwns(ch2)' /\ ProcOwns(ch2)' /\ AllOwned(ch2)'
  <2>1. \A c : Listed(ch2, c) <=> c = new \/ Listed(ch, c)
    BY <1>5, <1>2 DEF Listed
  <2>2. CommOwns(ch2)'
    BY <1>1, <1>2, <1>5 DEF CommOwns
  <2>3. ProcOwns(ch2)'
    BY <1>1, <1>2, <1>4, <2>1 DEF ListIs, ProcOwns, ProcHolds, Listed
  <2>4. AllOwned(ch2)'
    BY <1>1, <1>4, <2>1 DEF ListIs, AllOwned, Listed
  <2> QED BY <2>2, <2>3, <2>4
<1>9. Contents(ch2)' = Append(Contents(ch), heap[new].data)
  BY <1>2, <1>4, <1>5 DEF Contents
<1> QED
  BY <1>2, <1>6, <1>7, <1>8, <1>9 DEF ListIs, Cell

-----------------------------------------------------------------------------
(* Taking the head off: what Tail does to a sequence of cells.             *)
LEMMA TailFacts ==
    ASSUME NEW ch \in Seq(Cells), ch # <<>>, NEW ch2 \in Seq(Cells), ch2 = Tail(ch)
    PROVE  /\ Len(ch) \in Nat /\ Len(ch) > 0 /\ Len(ch2) = Len(ch) - 1
           /\ DOMAIN ch = 1 .. Len(ch) /\ DOMAIN ch2 = 1 .. Len(ch2)
           /\ \A i \in 1 .. Len(ch2) : ch2[i] = ch[i + 1]
           /\ ch2 = <<>> <=> Len(ch) = 1
           /\ ch2 # <<>> => ch2[1] = ch[2] /\ ch2[Len(ch2)] = ch[Len(ch)]
<1>1. Len(ch) \in Nat /\ Len(ch) > 0 /\ DOMAIN ch = 1 .. Len(ch)
  BY SeqFacts
<1>2. Len(ch2) = Len(ch) - 1
  BY <1>1
<1>3. \A i \in 1 .. Len(ch2) : ch2[i] = ch[i + 1]
  BY <1>1, <1>2
<1>4. DOMAIN ch2 = 1 .. Len(ch2) /\ (ch2 = <<>> <=> Len(ch2) = 0) /\ Len(ch2) \in Nat
  BY SeqFacts
<1>5. ch2 # <<>> => ch2[1] = ch[2] /\ ch2[Len(ch2)] = ch[Len(ch)]
  <2>1. SUFFICES ASSUME ch2 # <<>> PROVE 1 \in 1 .. Len(ch2) /\ Len(ch2) \in 1 .. Len(ch2)
    BY <1>1, <1>2, <1>3
  <2> QED BY <2>1, <1>4
<1> QED BY <1>1, <1>2, <1>3, <1>4, <1>5

LEMMA AdvanceHeadStep ==
    ASSUME Sound, NEW ch \in Seq(Cells), ListIs(ch), AdvanceHead
    PROVE  /\ ch # <<>> /\ Sound'
           /\ \A ch2 \in Seq(Cells) : ch2 = Tail(ch) =>
                 ListIs(ch2)' /\ Contents(ch2)' = Tail(Contents(ch))
<1>1. /\ proc = "take" /\ proc' = "unlink" /\ Follows({taken})
      /\ messages_head' = IF taken \in Allocated THEN heap[taken].next ELSE Null
      /\ UNCHANGED <<heap, messages_tail, message_list, comm, new, taken>>
  BY DEF AdvanceHead
<1>2. /\ ch # <<>> /\ taken = ch[1] /\ taken \in Allocated /\ ~CommHolds
      /\ Len(ch) \in Nat /\ Len(ch) > 0
      /\ messages_head' = IF Len(ch) = 1 THEN Null ELSE ch[2]
      /\ heap[taken].next = messages_head' /\ heap[taken].prev = Null
      /\ taken # Null
  <2>1. ch # <<>> /\ taken = ch[1] /\ ~CommHolds
    BY <1>1 DEF ListIs, ProcOwns, Sound, Exclusion, ProcHolds
  <2>2. Len(ch) \in Nat /\ Len(ch) > 0 /\ 1 \in DOMAIN ch
    BY <2>1, SeqFacts
  <2>3. /\ taken \in Allocated /\ heap[taken].prev = Null
        /\ heap[taken].next = IF Len(ch) = 1 THEN Null ELSE ch[2]
    <3>1. /\ ch[1] \in Allocated
          /\ heap[ch[1]].next = IF 1 = Len(ch) THEN Null ELSE ch[1 + 1]
          /\ heap[ch[1]].prev = IF proc = "unlink" THEN taken ELSE Null
      <4>1. Linked(ch)
        BY DEF ListIs
      <4>2. \A i \in DOMAIN ch :
               /\ ch[i] \in Allocated
               /\ heap[ch[i]].next = IF i = Len(ch) THEN Null ELSE ch[i + 1]
               /\ ~(i > 1) => heap[ch[i]].prev = IF proc = "unlink" THEN taken ELSE Null
        BY <4>1 DEF Linked
      <4>3. 1 \in DOMAIN ch /\ ~(1 > 1)
        BY <2>2
      <4> QED BY <4>2, <4>3, Zenon
    <3> QED BY <1>1, <2>1, <3>1
  <2>4. taken # Null
    BY <2>3, NullFacts DEF Sound, Types, TypeOK
  <2> QED BY <1>1, <2>1, <2>2, <2>3, <2>4
<1>3. Sound'
  BY <1>1, <1>2 DEF Sound, Types, TypeOK, Pointer, Follows, Exclusion, CommHolds,
     ProcHolds, Allocated, Cell
<1>4. SUFFICES ASSUME NEW ch2 \in Seq(Cells), ch2 = Tail(ch)
               PROVE  ListIs(ch2)' /\ Contents(ch2)' = Tail(Contents(ch))
  BY <1>2, <1>3
<1> DEFINE n == Len(ch)
<1>5. /\ n \in Nat /\ n > 0 /\ Len(ch2) = n - 1
      /\ DOMAIN ch = 1 .. n /\ DOMAIN ch2 = 1 .. (n - 1)
      /\ \A i \in 1 .. (n - 1) : ch2[i] = ch[i + 1]
      /\ ch2 = <<>> <=> n = 1
      /\ ch2 # <<>> => ch2[1] = ch[2] /\ ch2[Len(ch2)] = ch[n]
  BY <1>2, <1>4, TailFacts
<1>6. /\ \A i \in 1 .. n :
            /\ ch[i] \in Allocated
            /\ heap[ch[i]].next = IF i = n THEN Null ELSE ch[i + 1]
            /\ heap[ch[i]].prev = IF i > 1 THEN ch[i - 1] ELSE Null
      /\ \A i, j \in 1 .. n : ch[i] = ch[j] => i = j
      /\ messages_tail = ch[n] /\ comm # "tail"
  BY <1>1, <1>2, <1>5 DEF ListIs, Linked, CommHolds
<1> HIDE DEF n
<1>7. Linked(ch2)'
  <2>1. \A i \in 1 .. (n - 1) :
           /\ ch2[i] \in Allocated
           /\ heap[ch2[i]].next = IF i = n - 1 THEN Null ELSE ch2[i + 1]
           /\ heap[ch2[i]].prev = IF i > 1 THEN ch2[i - 1] ELSE taken
    BY <1>2, <1>5, <1>6
  <2>2. \A i, j \in 1 .. (n - 1) : ch2[i] = ch2[j] => i = j
    BY <1>5, <1>6
  <2>3. messages_head' = IF ch2 = <<>> THEN Null ELSE ch2[1]
    BY <1>2, <1>5 DEF n
  <2> QED BY <1>1, <1>5, <1>6, <2>1, <2>2, <2>3 DEF Linked, Allocated
<1>8. \A c : Listed(ch2, c) <=> Listed(ch, c) /\ c # taken
  <2>1. \A i \in 1 .. (n - 1) : ch2[i] # taken /\ i + 1 \in 1 .. n
    BY <1>2, <1>5, <1>6
  <2>2. \A i \in 1 .. n : ch[i] = taken \/ (i - 1 \in 1 .. (n - 1) /\ ch2[i - 1] = ch[i])
    BY <1>2, <1>5
  <2>3. ASSUME NEW c, Listed(ch2, c) PROVE Listed(ch, c) /\ c # taken
    <3>1. PICK i \in 1 .. (n - 1) : ch2[i] = c
      BY <1>5, <2>3 DEF Listed
    <3>2. ch[i + 1] = c /\ i + 1 \in DOMAIN ch /\ c # taken
      BY <1>5, <2>1, <3>1
    <3> QED BY <3>2 DEF Listed
  <2>4. ASSUME NEW c, Listed(ch, c), c # taken PROVE Listed(ch2, c)
    <3>1. PICK i \in 1 .. n : ch[i] = c
      BY <1>5, <2>4 DEF Listed
    <3>2. ch2[i - 1] = c /\ i - 1 \in DOMAIN ch2
      BY <1>5, <2>2, <2>4, <3>1
    <3> QED BY <3>2 DEF Listed
  <2> QED BY <2>3, <2>4
<1>9. CommOwns(ch2)' /\ ProcOwns(ch2)' /\ AllOwned(ch2)'
  <2>1. CommOwns(ch2)'
    BY <1>1, <1>2, <1>8 DEF ListIs, CommOwns, Listed, CommHolds, Allocated
  <2>2. ProcOwns(ch2)'
    BY <1>1, <1>2, <1>8 DEF ProcOwns, Listed, Allocated
  <2>3. AllOwned(ch2)'
    BY <1>1, <1>8 DEF ListIs, AllOwned, Listed, Allocated
  <2> QED BY <2>1, <2>2, <2>3
<1>10. Contents(ch2)' = Tail(Contents(ch))
  BY <1>1, <1>5 DEF Contents
<1> QED
  BY <1>7, <1>9, <1>10 DEF ListIs

(* remque() of a cell that nothing precedes.                               *)
LEMMA UnlinkHead ==
    ASSUME Types, NEW a \in Allocated, heap[a].prev = Null
    PROVE  /\ Unlinked(heap, a) \in [Allocated -> Cell]
           /\ \A c \in Allocated :
                 /\ Unlinked(heap, a)[c].data = heap[c].data
                 /\ Unlinked(heap, a)[c].next = heap[c].next
                 /\ Unlinked(heap, a)[c].prev = IF c = heap[a].next THEN Null
                                               ELSE heap[c].prev
<1> DEFINE h == SetPrev(heap, heap[a].next, Null)
<1>1. Null \in Pointer /\ Null \notin Allocated
  BY NullFacts DEF Pointer, Types, TypeOK
<1>2. /\ h \in [Allocated -> Cell]
      /\ \A c \in Allocated : /\ h[c].data = heap[c].data /\ h[c].next = heap[c].next
                              /\ h[c].prev = IF c = heap[a].next THEN Null
                                            ELSE heap[c].prev
  BY <1>1, SetPointers DEF Types
<1>3. Unlinked(heap, a) = SetNext(h, Null, heap[a].next)
  BY DEF Unlinked
<1> HIDE DEF h
<1>4. Unlinked(heap, a) = h
  BY <1>1, <1>2, <1>3 DEF SetNext
<1> QED BY <1>2, <1>4

LEMMA UnlinkStep ==
    ASSUME Sound, NEW ch \in Seq(Cells), ListIs(ch), Unlink
    PROVE  Sound' /\ ListIs(ch)' /\ Contents(ch)' = Contents(ch)
<1>1. /\ proc = "unlink" /\ proc' = "post" /\ Follows(Neighbours(taken))
      /\ heap' = Unlinked(heap, taken)
      /\ UNCHANGED <<messages_head, messages_tail, message_list, comm, new, taken>>
  BY DEF Unlink
<1>2. /\ taken \in Allocated /\ taken # Null /\ ~Listed(ch, taken) /\ ~CommHolds
      /\ heap[taken].next = messages_head /\ heap[taken].prev = Null
  BY <1>1 DEF ListIs, ProcOwns, Sound, Exclusion, ProcHolds
<1>3. /\ heap' \in [Allocated -> Cell] /\ Allocated' = Allocated
      /\ \A c \in Allocated :
            /\ heap'[c].data = heap[c].data /\ heap'[c].next = heap[c].next
            /\ heap'[c].prev = IF c = messages_head THEN Null ELSE heap[c].prev
  BY <1>1, <1>2, UnlinkHead DEF Sound, Allocated
<1> DEFINE n == Len(ch)
<1>4. n \in Nat /\ DOMAIN ch = 1 .. n /\ (ch = <<>> <=> n = 0)
  BY SeqFacts
<1>5. /\ \A i \in 1 .. n :
            /\ ch[i] \in Allocated
            /\ heap[ch[i]].next = IF i = n THEN Null ELSE ch[i + 1]
            /\ heap[ch[i]].prev = IF i > 1 THEN ch[i - 1] ELSE taken
      /\ \A i, j \in 1 .. n : ch[i] = ch[j] => i = j
      /\ messages_head = IF ch = <<>> THEN Null ELSE ch[1]
      /\ (comm # "tail" /\ ch # <<>>) => messages_tail = ch[n]
  BY <1>1, <1>4 DEF ListIs, Linked
<1> HIDE DEF n
<1>6. messages_head # Null => messages_head \in Allocated
  <2>1. ch # <<>> => 1 \in 1 .. n
    BY <1>4
  <2> QED BY <1>5, <2>1
<1>7. Sound'
  <2>1. Types'
    BY <1>1, <1>3 DEF Sound, Types, TypeOK, Cell, Follows
  <2>2. ~invalid'
    BY <1>1, <1>2, <1>6 DEF Sound, Follows, Neighbours
  <2> QED BY <1>1, <1>2, <2>1, <2>2 DEF Sound, Exclusion, CommHolds, ProcHolds
<1>8. Linked(ch)'
  <2>1. \A i \in 1 .. n :
           heap'[ch[i]].prev = IF i > 1 THEN ch[i - 1] ELSE Null
    <3>1. \A i \in 1 .. n : ch[i] = messages_head <=> i = 1
      BY <1>4, <1>5
    <3> QED BY <1>3, <1>5, <3>1
  <2>2. \A i \in 1 .. n : ch[i] \in Allocated' /\ heap'[ch[i]].next = heap[ch[i]].next
    BY <1>3, <1>5
  <2> QED BY <1>1, <1>4, <1>5, <2>1, <2>2 DEF Linked, n
<1>9. CommOwns(ch)' /\ ProcOwns(ch)' /\ AllOwned(ch)'
  BY <1>1, <1>2, <1>3 DEF ListIs, CommOwns, ProcOwns, AllOwned, Listed, CommHolds
<1>10. Contents(ch)' = Contents(ch)
  BY <1>3, <1>4, <1>5 DEF Contents
<1> QED
  BY <1>7, <1>8, <1>9, <1>10 DEF ListIs

LEMMA DiscardHeadStep ==
    ASSUME Sound, NEW ch \in Seq(Cells), ListIs(ch), DiscardHead
    PROVE  /\ ch # <<>> /\ Sound'
           /\ \A ch2 \in Seq(Cells) : ch2 = Tail(ch) =>
                 ListIs(ch2)' /\ Contents(ch2)' = Tail(Contents(ch))
<1> DEFINE n == Len(ch)
           h == Unlinked(heap, messages_head)
<1>1. /\ comm = "join" /\ proc = "exited" /\ messages_head # Null
      /\ Follows({messages_head} \cup Neighbours(messages_head))
      /\ heap' = Free(h, messages_head)
      /\ messages_head' = heap[messages_head].next
      /\ UNCHANGED <<messages_tail, message_list, comm, new, proc, taken>>
  BY DEF DiscardHead
<1>2. ch # <<>> /\ n \in Nat /\ n > 0 /\ DOMAIN ch = 1 .. n /\ messages_head = ch[1]
  BY <1>1, SeqFacts DEF ListIs, Linked
<1>3. /\ \A i \in 1 .. n :
            /\ ch[i] \in Allocated
            /\ heap[ch[i]].next = IF i = n THEN Null ELSE ch[i + 1]
            /\ heap[ch[i]].prev = IF i > 1 THEN ch[i - 1] ELSE Null
      /\ \A i, j \in 1 .. n : ch[i] = ch[j] => i = j
      /\ messages_tail = ch[n]
  BY <1>1, <1>2 DEF ListIs, Linked
<1>4. /\ messages_head \in Allocated /\ heap[messages_head].prev = Null
      /\ heap[messages_head].next = IF n = 1 THEN Null ELSE ch[2]
  <2> HIDE DEF n
  <2>1. 1 \in 1 .. n /\ ~(1 > 1)
    BY <1>2
  <2>2. /\ ch[1] \in Allocated /\ heap[ch[1]].prev = Null
        /\ heap[ch[1]].next = IF 1 = n THEN Null ELSE ch[1 + 1]
    BY <1>3, <2>1, Zenon
  <2> QED BY <1>2, <2>2
<1> HIDE DEF n, h
<1>5. /\ Allocated' = Allocated \ {messages_head}
      /\ heap' \in [Allocated' -> Cell]
      /\ \A c \in Allocated' :
            /\ heap'[c].data = heap[c].data /\ heap'[c].next = heap[c].next
            /\ heap'[c].prev = IF c = heap[messages_head].next THEN Null
                              ELSE heap[c].prev
  <2>1. /\ h \in [Allocated -> Cell]
        /\ \A c \in Allocated :
            /\ h[c].data = heap[c].data /\ h[c].next = heap[c].next
            /\ h[c].prev = IF c = heap[messages_head].next THEN Null ELSE heap[c].prev
    BY <1>4, UnlinkHead DEF Sound, h
  <2>2. heap' = [c \in Allocated \ {messages_head} |-> h[c]]
    BY <1>1, <2>1 DEF Free
  <2> QED BY <2>1, <2>2 DEF Allocated
<1>6. /\ taken = Null /\ Listed(ch, messages_head)
      /\ new # Null => new \in Allocated /\ ~Listed(ch, new)
  <2>1. Listed(ch, messages_head)
    <3>1. 1 \in DOMAIN ch
      BY <1>2
    <3> QED BY <1>2, <3>1 DEF Listed
  <2> QED BY <1>1, <2>1 DEF ListIs, CommOwns, ProcOwns
<1>7. Sound'
  <2>1. Types'
    <3>1. heap[messages_head].next \in Pointer
      BY <1>4 DEF Sound, Types, Cell
    <3>2. \A c \in Allocated' : heap'[c] \in [data : Messages, next : Pointer, prev : Pointer]
      BY <1>5 DEF Cell
    <3>3. Allocated' \subseteq Cells
      BY <1>5 DEF Sound, Types, TypeOK
    <3> QED BY <1>1, <1>5, <3>1, <3>2, <3>3 DEF Sound, Types, TypeOK, Follows
  <2>2. ~invalid'
    <3>1. n # 1 => 2 \in 1 .. n
      BY <1>2
    <3> QED BY <1>1, <1>3, <1>4, <3>1 DEF Sound, Follows, Neighbours
  <2> QED BY <1>1, <2>1, <2>2 DEF Sound, Exclusion, CommHolds, ProcHolds
<1>8. SUFFICES ASSUME NEW ch2 \in Seq(Cells), ch2 = Tail(ch)
               PROVE  ListIs(ch2)' /\ Contents(ch2)' = Tail(Contents(ch))
  BY <1>2, <1>7
<1>9. /\ Len(ch2) = n - 1 /\ DOMAIN ch2 = 1 .. (n - 1)
      /\ \A i \in 1 .. (n - 1) : ch2[i] = ch[i + 1]
      /\ ch2 = <<>> <=> n = 1
      /\ ch2 # <<>> => ch2[1] = ch[2] /\ ch2[Len(ch2)] = ch[n]
  BY <1>2, <1>8, TailFacts DEF n
<1>10. \A i \in 1 .. (n - 1) : ch2[i] \in Allocated'
  BY <1>2, <1>3, <1>5, <1>9
<1>11. Linked(ch2)'
  <2>1. \A i \in 1 .. (n - 1) :
           /\ heap'[ch2[i]].next = IF i = n - 1 THEN Null ELSE ch2[i + 1]
           /\ heap'[ch2[i]].prev = IF i > 1 THEN ch2[i - 1] ELSE Null
    <3>1. TAKE i \in 1 .. (n - 1)
    <3>2. i + 1 \in 1 .. n /\ ch2[i] = ch[i + 1] /\ ch2[i] \in Allocated'
      BY <1>2, <1>9, <1>10
    <3>3. heap'[ch2[i]].next = IF i = n - 1 THEN Null ELSE ch2[i + 1]
      BY <1>2, <1>3, <1>5, <1>9, <3>2
    <3>4. CASE i = 1
      BY <1>4, <1>5, <3>2, <3>3, <3>4
    <3>5. CASE i # 1
      <4>1. n # 1 /\ 2 \in 1 .. n /\ i - 1 \in 1 .. (n - 1) /\ ch2[i] # ch[2]
        BY <1>2, <1>3, <3>2, <3>5
      <4>2. heap'[ch2[i]].prev = ch[i]
        BY <1>2, <1>3, <1>4, <1>5, <3>2, <3>5, <4>1
      <4> QED BY <1>2, <1>9, <3>3, <3>5, <4>1, <4>2
    <3> QED BY <3>4, <3>5
  <2>2. \A i, j \in 1 .. (n - 1) : ch2[i] = ch2[j] => i = j
    BY <1>2, <1>3, <1>9
  <2>3. messages_head' = IF ch2 = <<>> THEN Null ELSE ch2[1]
    BY <1>1, <1>4, <1>9
  <2>4. ch2 # <<>> => messages_tail' = ch2[Len(ch2)]
    BY <1>1, <1>3, <1>9
  <2> QED BY <1>1, <1>9, <1>10, <2>1, <2>2, <2>3, <2>4 DEF Linked
<1>12. CommOwns(ch2)' /\ ProcOwns(ch2)' /\ AllOwned(ch2)'
  <2>1. CommOwns(ch2)'
    <3>1. \A c : Listed(ch2, c) => Listed(ch, c)
      <4>1. TAKE c
      <4>2. HAVE Listed(ch2, c)
      <4>3. PICK i \in 1 .. (n - 1) : ch2[i] = c
        BY <1>9, <4>2 DEF Listed
      <4>4. i + 1 \in DOMAIN ch /\ ch[i + 1] = c
        BY <1>2, <1>9, <4>3
      <4> QED BY <4>4 DEF Listed
    <3>2. new # Null => new \in Allocated' /\ new # taken /\ ~Listed(ch2, new)
      <4>1. new # Null => new # messages_head
        BY <1>6
      <4>2. Null \notin Allocated
        BY NullFacts DEF Sound, Types, TypeOK
      <4> QED BY <1>5, <1>6, <3>1, <4>1, <4>2
    <3> QED BY <1>1, <3>2 DEF CommOwns, Listed
  <2>2. ProcOwns(ch2)'
    BY <1>1, <1>6 DEF ProcOwns
  <2>3. AllOwned(ch2)'
    <3>1. ASSUME NEW a \in Allocated', a # new PROVE Listed(ch2, a)
      <4>1. Null \notin Allocated /\ a \in Allocated /\ a # messages_head
        BY <1>5, NullFacts DEF Sound, Types, TypeOK
      <4>2. PICK i \in 1 .. n : ch[i] = a
        BY <1>2, <1>6, <3>1, <4>1 DEF ListIs, AllOwned, Listed
      <4>3. i - 1 \in 1 .. (n - 1) /\ ch2[i - 1] = a
        BY <1>2, <1>9, <4>1, <4>2
      <4> QED BY <1>9, <4>3 DEF Listed
    <3> QED BY <1>1, <3>1 DEF AllOwned, Listed
  <2> QED BY <2>1, <2>2, <2>3
<1>13. Contents(ch2)' = Tail(Contents(ch))
  BY <1>2, <1>5, <1>9, <1>10 DEF Contents
<1> QED
  BY <1>11, <1>12, <1>13 DEF ListIs

-----------------------------------------------------------------------------
(* Every step keeps the invariant, and leaves the contents alone, appends  *)
(* a message or takes the first one.                                       *)
QueueStep(q, r) ==
    r = q \/ (q # <<>> /\ r = Tail(q)) \/ \E m \in Messages : r = Append(q, m)

LEMMA ListStep ==
    ASSUME Sound, NEW ch \in Seq(Cells), ListIs(ch), [Next]_vars
    PROVE  /\ Sound'
           /\ \E ch2 \in Seq(Cells) :
                 ListIs(ch2)' /\ QueueStep(Contents(ch), Contents(ch2)')
<1> DEFINE P(ch2) == ListIs(ch2)' /\ QueueStep(Contents(ch), Contents(ch2)')
<1>1. ASSUME Sound', ListIs(ch)', Contents(ch)' = Contents(ch)
      PROVE  Sound' /\ P(ch)
  BY <1>1 DEF QueueStep
<1>2. new \in Cells => Append(ch, new) \in Seq(Cells) /\ <<new>> \in Seq(Cells)
  OBVIOUS
<1>3. ch # <<>> => Tail(ch) \in Seq(Cells) /\ Contents(ch) # <<>>
  BY SeqFacts DEF Contents
<1>4. comm \in {"first", "append"} => new \in Cells
  BY DEF ListIs, CommOwns, Sound, Types, TypeOK
<1>5. CASE LinkFirst
  <2>1. PICK ch2 \in Seq(Cells) : ch2 = <<new>>
    BY <1>2, <1>4, <1>5 DEF LinkFirst
  <2>2. Sound' /\ P(ch2)
    BY <1>5, <2>1, LinkFirstStep DEF QueueStep
  <2> QED BY <2>1, <2>2
<1>6. CASE InsertAfterTail
  <2>1. PICK ch2 \in Seq(Cells) : ch2 = Append(ch, new)
    BY <1>2, <1>4, <1>6 DEF InsertAfterTail
  <2>2. Sound' /\ P(ch2)
    BY <1>6, <2>1, InsertAfterTailStep DEF QueueStep
  <2> QED BY <2>1, <2>2
<1>7. CASE AdvanceHead
  <2>1. Sound' /\ P(Tail(ch)) /\ ch # <<>>
    BY <1>3, <1>7, AdvanceHeadStep DEF QueueStep
  <2> QED BY <1>3, <2>1
<1>8. CASE DiscardHead
  <2>1. Sound' /\ P(Tail(ch)) /\ ch # <<>>
    BY <1>3, <1>8, DiscardHeadStep DEF QueueStep
  <2> QED BY <1>3, <2>1
<1>9. CASE Turns \/ UNCHANGED vars
  BY <1>1, <1>9, TurnsStep
<1>10. CASE NewMessage
  BY <1>1, <1>10, NewMessageStep
<1>11. CASE AdvanceTail
  BY <1>1, <1>11, AdvanceTailStep
<1>12. CASE Unlink
  BY <1>1, <1>12, UnlinkStep
<1>13. CASE Destroy
  BY <1>1, <1>13, DestroyStep
<1> QED
  BY <1>5, <1>6, <1>7, <1>8, <1>9, <1>10, <1>11, <1>12, <1>13 DEF Next, Turns

LEMMA ListInit == Init => Sound /\ ListIs(<<>>) /\ <<>> \in Seq(Cells)
<1> SUFFICES ASSUME Init PROVE Sound /\ ListIs(<<>>)
  OBVIOUS
<1>1. Allocated = {} /\ heap \in [Allocated -> Cell]
  BY DEF Init, Allocated
<1>2. Sound
  <2>1. Types
    <3>1. TypeOK
      <4>1. /\ messages_head = Null /\ messages_tail = Null /\ message_list = 1
            /\ new = Null /\ taken = Null /\ invalid = FALSE
        BY DEF Init
      <4>2. Allocated \subseteq Cells /\ 1 \in 0 .. 1
        BY <1>1
      <4>3. \A c \in Allocated :
               heap[c] \in [data : Messages, next : Pointer, prev : Pointer]
        BY <1>1
      <4> QED BY <4>1, <4>2, <4>3, Zenon DEF TypeOK, Pointer
    <3>2. comm = "read" /\ proc = "loop"
      BY DEF Init
    <3> QED BY <1>1, <3>1, <3>2 DEF Types
  <2>2. Exclusion /\ ~invalid
    BY DEF Init, Exclusion, CommHolds, ProcHolds
  <2> QED BY <2>1, <2>2 DEF Sound
<1>3. ListIs(<<>>)
  BY <1>1 DEF Init, ListIs, Linked, CommOwns, ProcOwns, AllOwned, Listed
<1> QED BY <1>2, <1>3

(* At every moment the pointers stand for some sequence of cells, whatever *)
(* the interleaving of parse_message() and processing_thread().            *)
THEOREM PointersFormAList == Spec => []ListInv
<1>1. Init => ListInv
  BY ListInit DEF ListInv
<1>2. ListInv /\ [Next]_vars => ListInv'
  BY ListStep DEF ListInv
<1> QED
  BY <1>1, <1>2, PTL DEF Spec

(* The two threads keep the pointers and the semaphore in their types.     *)
THEOREM ListTypes == Spec => []TypeOK
<1>1. ListInv => TypeOK
  BY DEF ListInv, Sound, Types
<1> QED
  BY <1>1, PointersFormAList, PTL

(* insque() and remque() never follow a pointer into a freed cell, though  *)
(* messages_tail is left dangling each time the list is emptied.           *)
THEOREM ListMemoryIsSafe == Spec => []NoUseAfterFree
<1>1. ListInv => NoUseAfterFree
  BY DEF ListInv, Sound, NoUseAfterFree
<1> QED
  BY <1>1, PointersFormAList, PTL

(* When main() is done every message has been freed, except one that could *)
(* not be listed.                                                          *)
THEOREM ListIsFreed == Spec => []AllFreed
<1>1. ListInv => AllFreed
  <2> SUFFICES ASSUME ListInv, comm = "done" PROVE Allocated \subseteq {new}
    BY DEF AllFreed
  <2>1. PICK ch \in Seq(Cells) : ListIs(ch)
    BY DEF ListInv
  <2>2. ch = <<>> /\ taken = Null
    BY <2>1 DEF ListIs, CommOwns, ProcOwns
  <2>3. \A a \in Allocated : a \in {new, Null}
    BY <2>1, <2>2 DEF ListIs, AllOwned, Listed
  <2> QED BY <2>3, NullFacts DEF ListInv, Sound, Types, TypeOK
<1> QED
  BY <1>1, PointersFormAList, PTL

-----------------------------------------------------------------------------
(* Following next from messages_head meets the cells of the list.          *)
LEMMA HopsAre ==
    ASSUME Sound, NEW ch \in Seq(Cells), ListIs(ch), NEW k \in Nat
    PROVE  Hop[k] = IF k < Len(ch) THEN ch[k + 1] ELSE Null
<1> DEFINE At(f, i) == IF i = 0 THEN messages_head
                       ELSE IF f[i - 1] \in Allocated THEN heap[f[i - 1]].next ELSE Null
           g == [i \in Nat |-> IF i < Len(ch) THEN ch[i + 1] ELSE Null]
           n == Len(ch)
<1>1. n \in Nat /\ DOMAIN ch = 1 .. n /\ (ch = <<>> <=> n = 0)
  BY SeqFacts
<1>2. /\ \A i \in 1 .. n : /\ ch[i] \in Allocated
                           /\ heap[ch[i]].next = IF i = n THEN Null ELSE ch[i + 1]
      /\ messages_head = IF ch = <<>> THEN Null ELSE ch[1]
  BY <1>1 DEF ListIs, Linked
<1>3. Null \notin Allocated
  BY NullFacts DEF Sound, Types, TypeOK
<1> HIDE DEF n
<1>4. \A i \in Nat : g[i] = At(g, i)
  <2>1. TAKE i \in Nat
  <2>2. g[i] = IF i < n THEN ch[i + 1] ELSE Null
    BY DEF n
  <2>3. CASE i = 0
    BY <1>1, <1>2, <2>2, <2>3
  <2>4. CASE i # 0
    <3>1. i - 1 \in Nat /\ g[i - 1] = IF i - 1 < n THEN ch[i] ELSE Null
      BY <2>4 DEF n
    <3> HIDE DEF g
    <3>2. CASE i - 1 < n
      <4>1. i \in 1 .. n
        BY <1>1, <2>4, <3>2
      <4> QED BY <1>1, <1>2, <2>2, <2>4, <3>1, <3>2, <4>1
    <3>3. CASE ~(i - 1 < n)
      BY <1>1, <1>3, <2>2, <2>4, <3>1, <3>3
    <3> QED BY <3>2, <3>3
  <2> QED BY <2>3, <2>4
<1>5. g = [i \in Nat |-> At(g, i)]
  BY <1>4
<1> HIDE DEF g
<1>6. Hop = [i \in Nat |-> At(Hop, i)]
  <2>1. \E f : f = [i \in Nat |-> At(f, i)]
    BY <1>5
  <2> QED BY <2>1 DEF Hop
<1>7. \A i \in Nat : Hop[i] = g[i]
  <2> DEFINE Bad == {i \in Nat : Hop[i] # g[i]}
  <2>1. SUFFICES ASSUME Bad # {} PROVE FALSE
    OBVIOUS
  <2>2. Bad \subseteq Nat
    OBVIOUS
  <2>3. PICK a \in Bad : \A b \in Bad : <<b, a>> \notin OpToRel(<, Nat)
    <3> HIDE DEF Bad
    <3> QED BY <2>1, <2>2, WFMin, NatLessThanWellFounded, Zenon
  <2>4. a \in Nat /\ Hop[a] # g[a]
    OBVIOUS
  <2>5. a # 0
    BY <1>4, <1>6, <2>4
  <2>6. a - 1 \in Nat /\ a - 1 < a
    BY <2>4, <2>5
  <2>7. a - 1 \notin Bad
    <3>1. <<a - 1, a>> \in Nat \X Nat /\ <<a - 1, a>>[1] < <<a - 1, a>>[2]
      BY <2>4, <2>6
    <3>2. <<a - 1, a>> \in OpToRel(<, Nat)
      BY <3>1 DEF OpToRel
    <3> QED BY <2>3, <3>2
  <2>8. Hop[a - 1] = g[a - 1]
    BY <2>6, <2>7
  <2> QED BY <1>4, <1>6, <2>4, <2>5, <2>8
<1> QED
  BY <1>7 DEF g

(* There are no more cells on the list than there are addresses.           *)
LEMMA ListFits ==
    ASSUME Sound, NEW ch \in Seq(Cells), ListIs(ch)
    PROVE  Len(ch) <= Cardinality(Cells) /\ Cardinality(Cells) \in Nat
<1>1. Len(ch) \in Nat /\ DOMAIN ch = 1 .. Len(ch) /\ \A i \in DOMAIN ch : ch[i] \in Cells
  BY SeqFacts
<1>2. \A i, j \in 1 .. Len(ch) : ch[i] = ch[j] => i = j
  BY <1>1 DEF ListIs, Linked
<1>3. ch \in Injection(1 .. Len(ch), Cells)
  <2>1. ch \in [1 .. Len(ch) -> Cells]
    BY <1>1
  <2> QED BY <1>1, <1>2, <2>1 DEF Injection, IsInjective
<1>4. Cardinality(1 .. Len(ch)) <= Cardinality(Cells) /\ Cardinality(Cells) \in Nat
  BY <1>3, NullFacts, FS_Injection, FS_CardinalityType
<1>5. Cardinality(1 .. Len(ch)) = Len(ch)
  <2>1. Cardinality(1 .. Len(ch)) = IF 1 > Len(ch) THEN 0 ELSE Len(ch) - 1 + 1
    BY <1>1, FS_Interval
  <2> QED BY <1>1, <2>1
<1> QED
  BY <1>4, <1>5

LEMMA ChainIs ==
    \A ch \in Seq(Cells) : Sound /\ ListIs(ch) => Chain = ch
<1>1. TAKE ch \in Seq(Cells)
<1>2. SUFFICES ASSUME Sound, ListIs(ch) PROVE Chain = ch
  OBVIOUS
<1> DEFINE n == Len(ch)
           S == {k \in 1 .. Cardinality(Cells) : Hop[k - 1] # Null}
<1>3. n \in Nat /\ DOMAIN ch = 1 .. n /\ \A i \in 1 .. n : ch[i] \in Cells
  BY SeqFacts
<1>4. \A k \in Nat : Hop[k] = IF k < n THEN ch[k + 1] ELSE Null
  BY <1>2, HopsAre
<1>5. n <= Cardinality(Cells) /\ Cardinality(Cells) \in Nat
  BY <1>2, ListFits
<1> HIDE DEF n
<1>6. S = 1 .. n
  <2>1. ASSUME NEW k \in 1 .. Cardinality(Cells)
        PROVE  Hop[k - 1] # Null <=> k <= n
    <3>1. k - 1 \in Nat /\ (k - 1 < n <=> k <= n) /\ k - 1 + 1 = k
      BY <1>3, <1>5
    <3>2. Hop[k - 1] = IF k <= n THEN ch[k] ELSE Null
      BY <1>4, <3>1
    <3>3. k <= n => ch[k] \in Cells
      BY <1>3, <3>1
    <3> QED BY <3>2, <3>3, NullFacts
  <2> QED BY <1>3, <1>5, <2>1
<1>7. Length = n
  <2>1. Length = Cardinality(1 .. n)
    BY <1>6 DEF Length
  <2>2. Cardinality(1 .. n) = IF 1 > n THEN 0 ELSE n - 1 + 1
    BY <1>3, FS_Interval
  <2> QED BY <1>3, <2>1, <2>2
<1>8. \A k \in 1 .. n : Hop[k - 1] = ch[k]
  BY <1>3, <1>4
<1>9. Chain = [k \in 1 .. n |-> ch[k]]
  BY <1>7, <1>8 DEF Chain
<1> QED
  BY <1>3, <1>9

(* Linked list and semaphore implement the queue that PluginControl uses:  *)
(* every step of the threads enqueues a message, takes the first, or is    *)
(* none that the queue can see.                                            *)
THEOREM ListImplementsQueue == Spec => ImplementsQueue
<1> DEFINE q == Contents(Chain)
<1>1. Init => q = <<>>
  <2>1. Init => Chain = <<>>
    BY ListInit, ChainIs
  <2> QED BY <2>1 DEF Contents
<1>2. (\A ch \in Seq(Cells) : Sound /\ ListIs(ch) => Chain = ch)'
  BY ChainIs, PTL
<1>3. ListInv /\ [Next]_vars => QueueStep(q, q')
  <2> SUFFICES ASSUME ListInv, [Next]_vars PROVE QueueStep(q, q')
    OBVIOUS
  <2>1. PICK ch \in Seq(Cells) : ListIs(ch)
    BY DEF ListInv
  <2>2. Sound /\ Chain = ch
    BY <2>1, ChainIs DEF ListInv
  <2>3. PICK ch2 \in Seq(Cells) :
           Sound' /\ ListIs(ch2)' /\ QueueStep(Contents(ch), Contents(ch2)')
    BY <2>1, <2>2, ListStep
  <2>4. Chain' = ch2
    BY <1>2, <2>3
  <2>5. q' = Contents(ch2)'
    BY <2>4 DEF Contents
  <2> QED BY <2>2, <2>3, <2>5
<1>4. QueueStep(q, q') => [Queue!QueueNext]_q
  BY DEF QueueStep, Queue!QueueNext, Queue!Enqueue, Queue!Dequeue, Contents
<1>5. q = <<>> => Queue!QueueInit
  BY DEF Queue!QueueInit, Contents
<1>6. ListInv /\ [Next]_vars => [Queue!QueueNext]_([k \in DOMAIN Chain |-> heap[Chain[k]].data])
  BY <1>3, <1>4 DEF Contents
<1> HIDE DEF q
<1> QED
  BY <1>1, <1>5, <1>6, PointersFormAList, PTL
  DEF Spec, ImplementsQueue, Queue!QueueSpec
=============================================================================

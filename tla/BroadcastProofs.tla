--------------------------- MODULE BroadcastProofs ---------------------------
(***************************************************************************)
(* Proofs about the broadcast documents: type correctness, the ceiling on  *)
(* how long a withdrawn item is shown, and no return of what was withdrawn *)
(* for a client that has seen a later document.                            *)
(*                                                                         *)
(* The argument: a document is what some generation contained, signed no   *)
(* later than the generation ended; a withdrawn mark is in no generation   *)
(* from its withdrawal on.                                                 *)
(***************************************************************************)
EXTENDS BroadcastClient, WellFoundedInduction, TLAPS

-----------------------------------------------------------------------------
(* The inductive invariant *)

\* A signed document tells what its generation contained, and was signed
\* before any later withdrawal.
DocHolds(d) ==
  /\ d.generation \in 1..Len(bodies)
  /\ d.signed_at \in 0..now
  /\ d.expires_at = d.signed_at + Lifetime
  /\ d.body = Rendered(bodies[d.generation])
  /\ \A m \in Marks :
       gone[m] # None /\ d.generation < gone[m].generation => d.signed_at <= gone[m].at

CachedHold == \A d \in cached : DocHolds(d)

HeldHolds == held # None => DocHolds(held) /\ held.generation = seen

\* From its withdrawal on a mark is in no generation.
GoneIsAbsent ==
  \A m \in Marks :
    gone[m] # None =>
      \A g \in gone[m].generation..Len(bodies) : m \notin MarksOf(bodies[g])

IInv == TypeOK /\ CachedHold /\ HeldHolds /\ GoneIsAbsent

-----------------------------------------------------------------------------
(* Lemmas *)

\* What appending does to a sequence.
LEMMA Appended ==
  ASSUME NEW S, NEW s \in Seq(S), NEW e \in S
  PROVE  /\ Append(s, e) \in Seq(S)
         /\ Len(Append(s, e)) = Len(s) + 1
         /\ Len(s) \in Nat
         /\ \A g \in 1..Len(s) : Append(s, e)[g] = s[g] /\ s[g] \in S
         /\ Append(s, e)[Len(s) + 1] = e
  OBVIOUS

\* A change keeps every document true.
LEMMA DocSurvivesChange ==
  ASSUME TypeOK, NEW d, DocHolds(d), NEW body \in Bodies, Change(body),
         \A m \in Marks : gone'[m] # None => gone'[m] = gone[m] \/ gone'[m] = NowGone
  PROVE  DocHolds(d)'
<1>1. bodies \in Seq(Bodies) /\ bodies' = Append(bodies, body)
  BY DEF TypeOK, Change
<1>2. /\ Len(bodies') = Len(bodies) + 1
      /\ Len(bodies) \in Nat
      /\ \A g \in 1..Len(bodies) : bodies'[g] = bodies[g]
  BY <1>1, Appended
<1>3. channel' = channel /\ now' = now
  BY DEF Change
<1>4. d.generation \in 1..Len(bodies') /\ bodies'[d.generation] = bodies[d.generation]
  BY <1>2 DEF DocHolds
<1>5. Rendered(bodies[d.generation])' = Rendered(bodies[d.generation])
  BY <1>3, <1>4 DEF Rendered
<1>6. ASSUME NEW m \in Marks, gone'[m] # None, d.generation < gone'[m].generation
      PROVE  d.signed_at <= gone'[m].at
  BY <1>6 DEF NowGone, DocHolds
<1>7. Marks' = Marks
  BY <1>3 DEF Marks
<1> QED
  BY <1>3, <1>4, <1>5, <1>6, <1>7 DEF DocHolds

\* A change whose body lacks what is now gone keeps the gone absent.
LEMMA AbsenceSurvivesChange ==
  ASSUME TypeOK, GoneIsAbsent, NEW body \in Bodies, Change(body),
         \A m \in Marks :
           gone'[m] # None =>
             /\ m \notin MarksOf(body)
             /\ gone'[m] = gone[m] \/ gone'[m] = NowGone
  PROVE  GoneIsAbsent'
<1>1. bodies \in Seq(Bodies) /\ bodies' = Append(bodies, body)
  BY DEF TypeOK, Change
<1>2. /\ Len(bodies') = Len(bodies) + 1
      /\ Len(bodies) \in Nat
      /\ \A g \in 1..Len(bodies) : bodies'[g] = bodies[g]
      /\ bodies'[Len(bodies) + 1] = body
  BY <1>1, Appended
<1>3. channel' = channel
  BY DEF Change
<1>4. Marks' = Marks
  BY <1>3 DEF Marks
<1>5. SUFFICES ASSUME NEW m \in Marks, gone'[m] # None,
                      NEW g \in gone'[m].generation..Len(bodies')
               PROVE  m \notin MarksOf(bodies[g])'
  BY <1>4 DEF GoneIsAbsent
<1>6. MarksOf(bodies[g])' = MarksOf(bodies'[g])
  BY <1>3 DEF MarksOf
<1>7. CASE g = Len(bodies) + 1
  BY <1>2, <1>5, <1>6, <1>7
<1>8. CASE g # Len(bodies) + 1
  <2>1. gone'[m].generation \in Nat \ {0}
    <3>1. CASE gone'[m] = NowGone
      BY <1>2, <3>1 DEF NowGone
    <3>2. CASE gone'[m] = gone[m]
      <4>1. gone[m] \in [at : 0..now, generation : 1..Len(bodies)]
        BY <3>2, <1>5 DEF TypeOK
      <4> QED
        BY <1>2, <3>2, <4>1
    <3> QED
      BY <1>5, <3>1, <3>2
  <2>2. g \in 1..Len(bodies)
    BY <1>2, <1>8, <2>1
  <2>3. gone'[m] # NowGone
    BY <1>2, <1>8, <2>2 DEF NowGone
  <2>4. gone'[m] = gone[m] /\ gone[m] # None
    BY <1>5, <2>3
  <2>5. m \notin MarksOf(bodies[g])
    BY <2>2, <2>4 DEF GoneIsAbsent
  <2> QED
    BY <1>2, <1>6, <2>2, <2>5
<1> QED
  BY <1>7, <1>8

\* What is shown is in the generation held, and the document has not expired.
LEMMA ShownIsCarried ==
  ASSUME TypeOK, HeldHolds, NEW m \in Shown
  PROVE  /\ held # None
         /\ ~Expired(held, Clock)
         /\ m \in MarksOf(bodies[held.generation])
         /\ m \in Marks
<1>1. held # None /\ DocHolds(held)
  BY DEF Shown, HeldHolds
<1>2. held.generation \in 1..Len(bodies) /\ held.body = Rendered(bodies[held.generation])
  BY <1>1 DEF DocHolds
<1>3. bodies[held.generation] \in Bodies
  BY <1>2 DEF TypeOK
<1>4. CASE channel = "items"
  BY <1>1, <1>2, <1>3, <1>4 DEF Shown, ActiveFor, Rendered, MarksOf, Marks, Bodies
<1>5. CASE channel = "digest"
  <2> DEFINE counts == bodies[held.generation]
  <2>1. m \in Slots /\ UnreadFor(held, Clock, m) > 0 /\ held.body = Packed(counts)
    BY <1>1, <1>2, <1>5 DEF Shown, Rendered
  <2>2. counts \in Seq(Nat) /\ Slots \subseteq Nat
    BY <1>3, <1>5, CountsAssumption DEF Bodies
  <2>3. ~Expired(held, Clock) /\ m + 1 \in DOMAIN Packed(counts)
        /\ Packed(counts)[m + 1] > 0
    BY <2>1 DEF UnreadFor
  <2>4. m + 1 \in DOMAIN counts /\ counts[m + 1] \in Nat
    BY <2>2, <2>3 DEF Packed
  <2>5. counts[m + 1] > 0
    BY <2>3, <2>4, SaturatedAssumption DEF Packed
  <2>6. CountAt(counts, m) > 0
    BY <2>4, <2>5 DEF CountAt
  <2> QED
    BY <1>1, <1>5, <2>1, <2>3, <2>6 DEF MarksOf, Marks
<1> QED
  BY <1>4, <1>5 DEF TypeOK

-----------------------------------------------------------------------------
(* The invariant *)

LEMMA InitIInv == Init => IInv
<1> SUFFICES ASSUME Init PROVE IInv
  OBVIOUS
<1>1. bodies \in Seq(Bodies) /\ Len(bodies) = 0
  BY DEF Init
<1>2. TypeOK
  BY <1>1, BoundsAssumption DEF Init, TypeOK
<1> QED
  BY <1>1, <1>2 DEF Init, IInv, CachedHold, HeldHolds, GoneIsAbsent

\* The operator's and the forum's changes: the type of what they leave.
LEMMA ChangeTypeOK ==
  ASSUME TypeOK, NEW body \in Bodies, Change(body),
         gone' \in [Marks -> {None} \cup [at : 0..now, generation : 1..(Len(bodies) + 1)]]
  PROVE  TypeOK'
<1>1. bodies \in Seq(Bodies) /\ bodies' = Append(bodies, body)
  BY DEF TypeOK, Change
<1>2. bodies' \in Seq(Bodies) /\ Len(bodies') = Len(bodies) + 1 /\ Len(bodies) \in Nat
  BY <1>1, Appended
<1>3. channel' = channel
  BY DEF Change
<1>4. Bodies' = Bodies /\ Marks' = Marks
  BY <1>3 DEF Bodies, Marks
<1> QED
  BY <1>2, <1>3, <1>4, BoundsAssumption DEF TypeOK, Change

\* The marks gone after a change are still well typed.
LEMMA GoneWidens ==
  ASSUME TypeOK, NEW m \in Marks
  PROVE  /\ gone[m] \in {None} \cup [at : 0..now, generation : 1..(Len(bodies) + 1)]
         /\ NowGone \in [at : 0..now, generation : 1..(Len(bodies) + 1)]
<1>1. Len(bodies) \in Nat /\ now \in Nat
  BY Appended, BoundsAssumption DEF TypeOK
<1>2. gone[m] \in {None} \cup [at : 0..now, generation : 1..Len(bodies)]
  BY DEF TypeOK
<1>3. 1..Len(bodies) \subseteq 1..(Len(bodies) + 1)
  BY <1>1
<1> QED
  BY <1>1, <1>2, <1>3 DEF NowGone

\* A change preserves the invariant if what it makes gone is not in it.
LEMMA ChangeIInv ==
  ASSUME IInv, NEW body \in Bodies, Change(body),
         gone' \in [Marks -> {None} \cup [at : 0..now, generation : 1..(Len(bodies) + 1)]],
         \A m \in Marks :
           gone'[m] # None =>
             /\ m \notin MarksOf(body)
             /\ gone'[m] = gone[m] \/ gone'[m] = NowGone
  PROVE  IInv'
<1>1. TypeOK /\ CachedHold /\ HeldHolds /\ GoneIsAbsent
  BY DEF IInv
<1>2. TypeOK'
  BY <1>1, ChangeTypeOK
<1>3. CachedHold'
  <2>1. \A d \in cached : DocHolds(d)'
    BY <1>1, DocSurvivesChange DEF CachedHold
  <2> QED
    BY <2>1 DEF CachedHold, Change
<1>4. HeldHolds'
  <2>1. held' = held /\ seen' = seen
    BY DEF Change
  <2>2. ASSUME held # None PROVE DocHolds(held)'
    <3>1. PICK d : d = held /\ DocHolds(d)
      BY <1>1, <2>2 DEF HeldHolds
    <3>2. DocHolds(d)'
      BY <1>1, <3>1, DocSurvivesChange
    <3> QED
      BY <2>1, <3>1, <3>2 DEF DocHolds
  <2> QED
    BY <1>1, <2>1, <2>2 DEF HeldHolds
<1>5. GoneIsAbsent'
  BY <1>1, AbsenceSurvivesChange
<1> QED
  BY <1>2, <1>3, <1>4, <1>5 DEF IInv

\* Steps that change neither the content nor the clock keep what was true.
LEMMA StillHolds ==
  ASSUME NEW d, DocHolds(d), UNCHANGED <<channel, bodies, gone>>,
         now' \in Nat, now' >= now, now \in Nat
  PROVE  DocHolds(d)'
<1>1. Marks' = Marks /\ Rendered(bodies[d.generation])' = Rendered(bodies[d.generation])
  BY DEF Marks, Rendered
<1> QED
  BY <1>1 DEF DocHolds

LEMMA StillAbsent ==
  ASSUME GoneIsAbsent, UNCHANGED <<channel, bodies, gone>>
  PROVE  GoneIsAbsent'
<1>1. Marks' = Marks /\ \A g : MarksOf(bodies[g])' = MarksOf(bodies[g])
  BY DEF Marks, MarksOf
<1> QED
  BY <1>1 DEF GoneIsAbsent

-----------------------------------------------------------------------------
(* One step per action *)

LEMMA PublishIInv ==
  ASSUME IInv, NEW i \in Items, Publish(i)
  PROVE  IInv'
<1>1. TypeOK /\ GoneIsAbsent
  BY DEF IInv
<1>2. channel = "items" /\ Marks = Items
  BY DEF Publish, Marks
<1>3. bodies \in Seq(Bodies) /\ Len(bodies) \in Nat
  BY <1>1, Appended DEF TypeOK
<1>4. Published \in Bodies /\ Published \cup {i} \in Bodies
  BY <1>2, <1>3 DEF Published, Bodies
<1>5. ASSUME NEW m \in Marks, gone'[m] # None
      PROVE  m \notin MarksOf(Published \cup {i}) /\ gone'[m] = gone[m]
  <2>1. gone[m] # None /\ m # i /\ gone' = gone
    BY <1>5 DEF Publish
  <2>2. gone[m].generation \in 1..Len(bodies)
    BY <1>1, <2>1 DEF TypeOK
  <2>3. Len(bodies) \in gone[m].generation..Len(bodies) /\ bodies # <<>>
    BY <1>3, <2>2
  <2>4. m \notin MarksOf(bodies[Len(bodies)])
    BY <1>1, <2>1, <2>3 DEF GoneIsAbsent
  <2> QED
    BY <1>2, <2>1, <2>3, <2>4 DEF MarksOf, Published
<1>6. gone' \in [Marks -> {None} \cup [at : 0..now, generation : 1..(Len(bodies) + 1)]]
  <2>1. gone' = gone /\ gone = [m \in Marks |-> gone[m]]
    BY <1>1 DEF Publish, TypeOK
  <2>2. \A m \in Marks :
          gone[m] \in {None} \cup [at : 0..now, generation : 1..(Len(bodies) + 1)]
    BY <1>1, GoneWidens
  <2> QED
    BY <2>1, <2>2
<1>7. Change(Published \cup {i})
  BY DEF Publish
<1> QED
  BY <1>4, <1>5, <1>6, <1>7, ChangeIInv

LEMMA WithdrawIInv ==
  ASSUME IInv, NEW i \in Items, Withdraw(i)
  PROVE  IInv'
<1>1. TypeOK /\ GoneIsAbsent
  BY DEF IInv
<1>2. channel = "items" /\ Marks = Items
  BY DEF Withdraw, Marks
<1>3. bodies \in Seq(Bodies) /\ Len(bodies) \in Nat
  BY <1>1, Appended DEF TypeOK
<1>4. Published \in Bodies /\ Published \ {i} \in Bodies
  BY <1>2, <1>3 DEF Published, Bodies
<1>5. ASSUME NEW m \in Marks, gone'[m] # None
      PROVE  /\ m \notin MarksOf(Published \ {i})
             /\ gone'[m] = gone[m] \/ gone'[m] = NowGone
  <2>1. gone' = [gone EXCEPT ![i] = NowGone] /\ gone = [n \in Marks |-> gone[n]]
    BY <1>1 DEF Withdraw, TypeOK
  <2>2. CASE m = i
    BY <1>2, <2>1, <2>2 DEF MarksOf
  <2>3. CASE m # i
    <3>1. gone'[m] = gone[m] /\ gone[m] # None
      BY <1>5, <2>1, <2>3
    <3>2. gone[m].generation \in 1..Len(bodies)
      BY <1>1, <3>1 DEF TypeOK
    <3>3. Len(bodies) \in gone[m].generation..Len(bodies) /\ bodies # <<>>
      BY <1>3, <3>2
    <3>4. m \notin MarksOf(bodies[Len(bodies)])
      BY <1>1, <3>1, <3>3 DEF GoneIsAbsent
    <3> QED
      BY <1>2, <3>1, <3>3, <3>4 DEF MarksOf, Published
  <2> QED
    BY <2>2, <2>3
<1>6. gone' \in [Marks -> {None} \cup [at : 0..now, generation : 1..(Len(bodies) + 1)]]
  <2>1. gone' = [gone EXCEPT ![i] = NowGone] /\ gone = [m \in Marks |-> gone[m]]
    BY <1>1 DEF Withdraw, TypeOK
  <2>2. \A m \in Marks :
          /\ gone[m] \in {None} \cup [at : 0..now, generation : 1..(Len(bodies) + 1)]
          /\ NowGone \in [at : 0..now, generation : 1..(Len(bodies) + 1)]
    BY <1>1, GoneWidens
  <2> QED
    BY <2>1, <2>2
<1>7. Change(Published \ {i})
  BY DEF Withdraw
<1> QED
  BY <1>4, <1>5, <1>6, <1>7, ChangeIInv

LEMMA RebuildIInv ==
  ASSUME IInv, NEW counts \in CountLists, Rebuild(counts)
  PROVE  IInv'
<1>1. TypeOK /\ GoneIsAbsent
  BY DEF IInv
<1>2. channel = "digest" /\ counts \in Bodies /\ Change(counts)
  BY DEF Rebuild, Bodies
<1> DEFINE T == {None} \cup [at : 0..now, generation : 1..(Len(bodies) + 1)]
<1>3. \A m \in Marks : gone'[m] = IF m \in MarksOf(counts) THEN None
                                   ELSE IF m \in MarksOf(Body) THEN NowGone
                                   ELSE gone[m]
  BY DEF Rebuild
<1>4. \A m \in Marks : gone[m] \in T /\ NowGone \in T
  BY <1>1, GoneWidens
<1>5. gone' \in [Marks -> T]
  <2>1. gone' = [m \in Marks |-> IF m \in MarksOf(counts) THEN None
                                 ELSE IF m \in MarksOf(Body) THEN NowGone
                                 ELSE gone[m]]
    BY DEF Rebuild
  <2> HIDE DEF T
  <2>2. None \in T
    BY DEF T
  <2> QED
    BY <1>4, <2>1, <2>2
<1>6. \A m \in Marks :
        gone'[m] # None =>
          m \notin MarksOf(counts) /\ (gone'[m] = gone[m] \/ gone'[m] = NowGone)
  BY <1>3
<1> QED
  BY <1>2, <1>5, <1>6, ChangeIInv

LEMMA SignCurrentIInv ==
  ASSUME IInv, NEW k \in Keys, SignCurrent(k)
  PROVE  IInv'
<1> DEFINE doc == Document(Len(bodies), Rendered(bodies[Len(bodies)]), now, now + Lifetime, k)
<1>1. TypeOK /\ CachedHold /\ HeldHolds /\ GoneIsAbsent
  BY DEF IInv
<1>2. /\ UNCHANGED <<channel, now, bodies, held, seen, version, lag, gone>>
      /\ bodies # <<>> /\ cached' = cached \cup {doc}
  BY DEF SignCurrent
<1>3. Len(bodies) \in Nat \ {0} /\ now \in Nat
  BY <1>1, <1>2, BoundsAssumption DEF TypeOK
<1>4. DocHolds(doc)
  <2>1. \A m \in Marks : gone[m] # None => gone[m].generation <= Len(bodies)
    BY <1>1, <1>3 DEF TypeOK
  <2>2. /\ doc.generation = Len(bodies) /\ doc.signed_at = now
        /\ doc.expires_at = now + Lifetime /\ doc.body = Rendered(bodies[Len(bodies)])
    BY DEF Document
  <2>3. \A m \in Marks : gone[m] # None => gone[m].generation \in Nat
    BY <1>1, <1>3 DEF TypeOK
  <2> QED
    BY <1>3, <2>1, <2>2, <2>3 DEF DocHolds
<1> HIDE DEF doc
<1>5. \A d : DocHolds(d) => DocHolds(d)'
  BY <1>2, <1>3, StillHolds
<1>6. CachedHold'
  BY <1>1, <1>2, <1>4, <1>5 DEF CachedHold
<1>7. HeldHolds'
  BY <1>1, <1>2, <1>5 DEF HeldHolds, DocHolds, Rendered, Marks
<1>8. GoneIsAbsent'
  BY <1>1, <1>2, StillAbsent
<1>9. TypeOK'
  <2>1. \A d \in cached' : d.generation \in 1..Len(bodies) /\ d.signed_at \in 0..now
    BY <1>1, <1>2, <1>4 DEF CachedHold, DocHolds
  <2>2. Bodies' = Bodies /\ Marks' = Marks
    BY <1>2 DEF Bodies, Marks
  <2> QED
    BY <1>1, <1>2, <2>1, <2>2 DEF TypeOK
<1> QED
  BY <1>6, <1>7, <1>8, <1>9 DEF IInv

LEMMA EvictIInv ==
  ASSUME IInv, NEW d \in cached, Evict(d)
  PROVE  IInv'
<1>1. cached' \subseteq cached /\ UNCHANGED <<channel, now, bodies, held, seen, version, lag, gone>>
  BY DEF Evict
<1>2. Bodies' = Bodies /\ Marks' = Marks /\ \A b : MarksOf(b)' = MarksOf(b) /\ Rendered(b)' = Rendered(b)
  BY <1>1 DEF Bodies, Marks, MarksOf, Rendered
<1>3. TypeOK'
  BY <1>1, <1>2 DEF IInv, TypeOK
<1>4. \A e : DocHolds(e) => DocHolds(e)'
  BY <1>1, <1>2 DEF DocHolds, Rendered
<1>5. CachedHold' /\ HeldHolds' /\ GoneIsAbsent'
  <2>1. CachedHold'
    BY <1>1, <1>4 DEF IInv, CachedHold
  <2>2. HeldHolds'
    BY <1>1, <1>2 DEF IInv, HeldHolds, DocHolds, Rendered
  <2>3. GoneIsAbsent'
    BY <1>1, StillAbsent DEF IInv
  <2> QED
    BY <2>1, <2>2, <2>3
<1> QED
  BY <1>3, <1>5 DEF IInv

LEMMA TickIInv == ASSUME IInv, Tick PROVE IInv'
<1>1. now' = now + 1 /\ now < MaxTime /\ UNCHANGED <<channel, bodies, cached, held, seen, version, lag, gone>>
  BY DEF Tick
<1>2. now \in Nat /\ now' \in Nat /\ now' \in 0..MaxTime /\ 0..now \subseteq 0..now'
  BY <1>1, BoundsAssumption DEF IInv, TypeOK
<1>3. Bodies' = Bodies /\ Marks' = Marks
  BY <1>1 DEF Bodies, Marks
<1>4. TypeOK'
  <2>1. \A d \in cached' : d.generation \in 1..Len(bodies') /\ d.signed_at \in 0..now'
    BY <1>1, <1>2 DEF IInv, TypeOK
  <2>2. gone' \in [Marks' -> {None} \cup [at : 0..now', generation : 1..Len(bodies')]]
    BY <1>1, <1>2, <1>3 DEF IInv, TypeOK
  <2> QED
    BY <1>1, <1>2, <1>3, <2>1, <2>2 DEF IInv, TypeOK
<1>5. \A d : DocHolds(d) => DocHolds(d)'
  BY <1>1, <1>2, StillHolds
<1>6. CachedHold'
  BY <1>1, <1>5 DEF IInv, CachedHold
<1>7. HeldHolds'
  BY <1>1, <1>2, <1>3 DEF IInv, HeldHolds, DocHolds, Rendered
<1>8. GoneIsAbsent'
  BY <1>1, StillAbsent DEF IInv
<1> QED
  BY <1>4, <1>6, <1>7, <1>8 DEF IInv

LEMMA FetchIInv ==
  ASSUME IInv, NEW d \in cached, NEW form \in Forms, Fetch(d, form)
  PROVE  IInv'
<1>1. held' = d /\ seen' = d.generation /\ UNCHANGED <<channel, now, bodies, cached, version, lag, gone>>
  BY DEF Fetch
<1>2. DocHolds(d) /\ d.generation \in 1..Len(bodies) /\ Len(bodies) \in Nat
  BY Appended DEF IInv, CachedHold, DocHolds, TypeOK
<1>3. Bodies' = Bodies /\ Marks' = Marks
  BY <1>1 DEF Bodies, Marks
<1>4. TypeOK'
  BY <1>1, <1>2, <1>3 DEF IInv, TypeOK
<1>5. \A e : DocHolds(e) => DocHolds(e)'
  BY <1>1, <1>3 DEF DocHolds, Rendered
<1>6. CachedHold'
  BY <1>1, <1>5 DEF IInv, CachedHold
<1>7. HeldHolds'
  BY <1>1, <1>2, <1>3 DEF HeldHolds, DocHolds, Rendered
<1>8. GoneIsAbsent'
  BY <1>1, StillAbsent DEF IInv
<1> QED
  BY <1>4, <1>6, <1>7, <1>8 DEF IInv

LEMMA RestartIInv ==
  ASSUME IInv, NEW v \in Versions, Restart(v)
  PROVE  IInv'
<1>1. held' = None /\ version' = v /\ UNCHANGED <<channel, now, bodies, cached, seen, lag, gone>>
  BY DEF Restart
<1>2. Bodies' = Bodies /\ Marks' = Marks
  BY <1>1 DEF Bodies, Marks
<1>3. TypeOK'
  BY <1>1, <1>2 DEF IInv, TypeOK
<1>4. \A e : DocHolds(e) => DocHolds(e)'
  BY <1>1, <1>2 DEF DocHolds, Rendered
<1>5. CachedHold'
  BY <1>1, <1>4 DEF IInv, CachedHold
<1>6. HeldHolds'
  BY <1>1 DEF HeldHolds
<1>7. GoneIsAbsent'
  BY <1>1, StillAbsent DEF IInv
<1> QED
  BY <1>3, <1>5, <1>6, <1>7 DEF IInv

LEMMA StepIInv == IInv /\ [Next]_vars => IInv'
<1> SUFFICES ASSUME IInv, [Next]_vars PROVE IInv'
  OBVIOUS
<1>1. CASE UNCHANGED vars
  <2>1. UNCHANGED <<channel, now, bodies, cached, held, seen, version, lag, gone>>
    BY <1>1 DEF vars
  <2>2. Bodies' = Bodies /\ Marks' = Marks
    BY <2>1 DEF Bodies, Marks
  <2>3. TypeOK'
    BY <2>1, <2>2 DEF IInv, TypeOK
  <2>4. CachedHold' /\ HeldHolds'
    BY <2>1, <2>2 DEF IInv, CachedHold, HeldHolds, DocHolds, Rendered
  <2>5. GoneIsAbsent'
    BY <2>1, StillAbsent DEF IInv
  <2> QED
    BY <2>3, <2>4, <2>5 DEF IInv
<1>2. CASE \E i \in Items : Publish(i) \/ Withdraw(i)
  BY <1>2, PublishIInv, WithdrawIInv
<1>3. CASE \E counts \in CountLists : Rebuild(counts)
  BY <1>3, RebuildIInv
<1>4. CASE \E k \in Keys : SignCurrent(k)
  BY <1>4, SignCurrentIInv
<1>5. CASE \E d \in cached : Evict(d)
  BY <1>5, EvictIInv
<1>6. CASE Tick
  BY <1>6, TickIInv
<1>7. CASE \E d \in cached, form \in Forms : Fetch(d, form)
  BY <1>7, FetchIInv
<1>8. CASE \E v \in Versions : Restart(v)
  BY <1>8, RestartIInv
<1> QED
  BY <1>1, <1>2, <1>3, <1>4, <1>5, <1>6, <1>7, <1>8 DEF Next

LEMMA Invariant == Spec => []IInv
<1> QED
  BY InitIInv, StepIInv, PTL DEF Spec

-----------------------------------------------------------------------------
(* Theorems *)

(***************************************************************************)
(* Documents, caches, client and history keep their types, whatever the    *)
(* contents, lifetimes, clocks and bounds.                                 *)
(***************************************************************************)
THEOREM TypeCorrect == Spec => []TypeOK
<1>1. IInv => TypeOK
  BY DEF IInv
<1> QED
  BY <1>1, Invariant, PTL

(***************************************************************************)
(* `active_for` and `unread_for` show nothing withdrawn longer than one    *)
(* document lifetime and the client's clock lag, for every lifetime, lag   *)
(* and sequence of contents.                                               *)
(***************************************************************************)
THEOREM AntiFreeze == Spec => []WithdrawnCeiling
<1>1. ASSUME IInv PROVE WithdrawnCeiling
  <2>1. TypeOK /\ HeldHolds /\ GoneIsAbsent
    BY <1>1 DEF IInv
  <2> SUFFICES ASSUME NEW m \in Shown, gone[m] # None
               PROVE  now < gone[m].at + Lifetime + lag
    BY DEF WithdrawnCeiling
  <2>2. /\ held # None /\ ~Expired(held, Clock)
        /\ m \in MarksOf(bodies[held.generation]) /\ m \in Marks
    BY <2>1, ShownIsCarried
  <2>3. DocHolds(held) /\ now \in Nat /\ lag \in Int /\ Len(bodies) \in Nat
    BY <2>1, <2>2, Appended, BoundsAssumption, LagsAssumption DEF HeldHolds, TypeOK
  <2>4. gone[m] \in [at : 0..now, generation : 1..Len(bodies)]
    BY <2>1, <2>2 DEF TypeOK
  <2>5. held.generation < gone[m].generation
    BY <2>1, <2>2, <2>3, <2>4 DEF GoneIsAbsent, DocHolds
  <2>6. held.signed_at <= gone[m].at
    BY <2>2, <2>3, <2>5 DEF DocHolds
  <2>7. now - lag < held.signed_at + Lifetime /\ held.signed_at \in Nat
    BY <2>2, <2>3, LifetimeAssumption DEF DocHolds, Expired, Clock
  <2>8. gone[m].at \in Nat /\ gone[m].at <= now
    BY <2>3, <2>4
  <2> QED
    BY ONLY <2>3, <2>6, <2>7, <2>8, LifetimeAssumption
<1> QED
  BY <1>1, Invariant, PTL

(***************************************************************************)
(* A client whose high-water mark has passed a withdrawal never shows what *)
(* was withdrawn, in any interleaving of caches, restarts and refreshes.   *)
(***************************************************************************)
THEOREM AntiRollback == Spec => []SeenIsGone
<1>1. ASSUME IInv PROVE SeenIsGone
  <2>1. TypeOK /\ HeldHolds /\ GoneIsAbsent
    BY <1>1 DEF IInv
  <2> SUFFICES ASSUME NEW m \in Shown, gone[m] # None
               PROVE  seen < gone[m].generation
    BY DEF SeenIsGone
  <2>2. /\ held # None
        /\ m \in MarksOf(bodies[held.generation]) /\ m \in Marks
    BY <2>1, ShownIsCarried
  <2>3. DocHolds(held) /\ held.generation = seen /\ Len(bodies) \in Nat
    BY <2>1, <2>2, Appended DEF HeldHolds, TypeOK
  <2>4. gone[m] \in [at : 0..now, generation : 1..Len(bodies)]
    BY <2>1, <2>2 DEF TypeOK
  <2> QED
    BY <2>1, <2>2, <2>3, <2>4 DEF GoneIsAbsent, DocHolds
<1> QED
  BY <1>1, Invariant, PTL

-----------------------------------------------------------------------------
(* Badges and audiences *)

(***************************************************************************)
(* The digest shows each account its own count, saturated, for every list  *)
(* of counts and every length of it.                                       *)
(***************************************************************************)
THEOREM BadgesAreTrue == Spec => []BadgeIsTrue
<1>1. ASSUME IInv PROVE BadgeIsTrue
  <2> SUFFICES ASSUME held # None, channel = "digest", ~Expired(held, Clock),
                      NEW s \in Slots
               PROVE  LET count == CountAt(bodies[held.generation], s)
                          badge == UnreadFor(held, Clock, s)
                      IN  /\ badge <= UnreadSaturated
                          /\ badge = count \/ (badge = UnreadSaturated /\ count > badge)
    BY DEF BadgeIsTrue
  <2> DEFINE counts == bodies[held.generation]
  <2>1. counts \in Seq(Nat) /\ held.body = Packed(counts)
    BY <1>1, CountsAssumption DEF IInv, TypeOK, HeldHolds, DocHolds, Rendered, Bodies
  <2>2. DOMAIN held.body = DOMAIN counts
    BY <2>1 DEF Packed
  <2> HIDE DEF counts
  <2>3. CASE s + 1 \notin DOMAIN counts
    <3>1. CountAt(counts, s) = 0 /\ UnreadFor(held, Clock, s) = 0
      BY <2>2, <2>3 DEF CountAt, UnreadFor
    <3> QED  BY <3>1, SaturatedAssumption DEF counts
  <2>4. CASE s + 1 \in DOMAIN counts
    <3>1. CountAt(counts, s) = counts[s + 1] /\ UnreadFor(held, Clock, s) = held.body[s + 1]
      BY <2>2, <2>4 DEF CountAt, UnreadFor
    <3>2. counts[s + 1] \in Nat
      BY <2>1, <2>4
    <3>3. held.body[s + 1]
            = IF counts[s + 1] <= UnreadSaturated THEN counts[s + 1] ELSE UnreadSaturated
      BY <2>1, <2>4 DEF Packed
    <3> QED  BY <3>1, <3>2, <3>3, SaturatedAssumption DEF counts
  <2> QED  BY <2>3, <2>4
<1> QED
  BY <1>1, Invariant, PTL

\* A digit below the base decides only between equal higher digits.
LEMMA Digit ==
  ASSUME NEW b \in Nat \ {0}, NEW x \in Nat, NEW y \in Nat,
         NEW r \in 0..(b - 1), NEW s \in 0..(b - 1)
  PROVE  x * b + r < y * b + s <=> x < y \/ (x = y /\ r < s)
<1>1. ASSUME NEW m \in Nat, NEW n \in Nat, m < n,
             NEW q \in 0..(b - 1), NEW t \in 0..(b - 1)
      PROVE  m * b + q < n * b + t
  <2>1. PICK k \in Nat : n = m + 1 + k
    <3>1. n - m - 1 \in Nat /\ n = m + 1 + (n - m - 1)
      BY <1>1
    <3> QED  BY <3>1
  <2>2. n * b = m * b + b + k * b
    BY <2>1
  <2>3. k * b \in Nat /\ m * b \in Nat
    BY <2>1
  <2> QED  BY <2>2, <2>3
<1>2. x * b \in Nat /\ y * b \in Nat
  OBVIOUS
<1>3. x < y => x * b + r < y * b + s
  BY <1>1
<1>4. y < x => y * b + s < x * b + r
  BY <1>1
<1> QED  BY <1>2, <1>3, <1>4

\* Three digits compare from the highest on.
Digits(b, x, y, z) == (x * b + y) * b + z

LEMMA ThreeDigits ==
  ASSUME NEW b \in Nat \ {0},
         NEW x \in 0..(b - 1), NEW y \in 0..(b - 1), NEW z \in 0..(b - 1),
         NEW k \in 0..(b - 1), NEW m \in 0..(b - 1), NEW n \in 0..(b - 1)
  PROVE  Digits(b, x, y, z) < Digits(b, k, m, n)
           <=> \/ x < k
               \/ x = k /\ y < m
               \/ x = k /\ y = m /\ z < n
<1> DEFINE u == x * b + y
           v == k * b + m
<1>1. u \in Nat /\ v \in Nat /\ x \in Nat /\ k \in Nat
  OBVIOUS
<1>2. u < v <=> x < k \/ (x = k /\ y < m)
  BY <1>1, Digit
<1>3. v < u <=> k < x \/ (k = x /\ m < y)
  BY <1>1, Digit
<1> HIDE DEF u, v
<1>4. u * b + z < v * b + n <=> u < v \/ (u = v /\ z < n)
  BY <1>1, Digit
<1>5. u = v <=> x = k /\ y = m
  BY <1>1, <1>2, <1>3
<1> QED  BY <1>2, <1>4, <1>5 DEF u, v, Digits

LEMMA InSequence ==
  ASSUME NEW S, NEW s \in Seq(S), NEW i \in DOMAIN s
  PROVE  s[i] \in S
OBVIOUS

\* Versions of up to three parts compare by their values.
LEMMA LessByValue ==
  ASSUME NEW v \in Version, NEW w \in Version, Parses(v), Parses(w),
         NumericParts(v) \subseteq 1..3, NumericParts(w) \subseteq 1..3
  PROVE  /\ Value(v) \in Nat /\ Value(w) \in Nat
         /\ Less(v, w) <=> Value(v) < Value(w)
<1> DEFINE a(i) == Component(v, i)
           b(i) == Component(w, i)
<1>1. \A u \in Version : Parses(u) => \A i \in 1..3 : Component(u, i) \in 0..MaxComponent
  <2> SUFFICES ASSUME NEW u \in Version, Parses(u), NEW i \in 1..3, i \in NumericParts(u)
               PROVE  u[i].num \in 0..MaxComponent
    BY ComponentAssumption DEF Component
  <2>1. i \in DOMAIN u /\ u[i].num # None /\ u[i].num <= MaxComponent
    BY DEF NumericParts, Parses
  <2>2. u[i] \in [num : Nat \cup {None}, suffix : BOOLEAN]
    BY <2>1, InSequence DEF Version
  <2> QED  BY <2>1, <2>2, ComponentAssumption
<1>2. \A i \in 1..3 : a(i) \in 0..MaxComponent /\ b(i) \in 0..MaxComponent
  BY <1>1
<1>3. Base \in Nat \ {0} /\ Base - 1 = MaxComponent
  BY ComponentAssumption DEF Base
<1>4. Less(v, w) <=> \E i \in 1..3 : a(i) < b(i) /\ \A j \in 1..(i - 1) : a(j) = b(j)
  <2>1. ASSUME NEW i \in 1..3, a(i) < b(i)
        PROVE  i \in NumericParts(w)
    BY <2>1, <1>2 DEF Component
  <2> QED  BY <2>1 DEF Less
<1>5. Less(v, w) <=> \/ a(1) < b(1)
                     \/ a(1) = b(1) /\ a(2) < b(2)
                     \/ a(1) = b(1) /\ a(2) = b(2) /\ a(3) < b(3)
  BY <1>4
<1>6. /\ Value(v) = Digits(Base, a(1), a(2), a(3)) /\ Value(v) \in Nat
      /\ Value(w) = Digits(Base, b(1), b(2), b(3)) /\ Value(w) \in Nat
  BY <1>2, <1>3 DEF Value, Digits
<1> HIDE DEF a, b
<1>7. Value(v) < Value(w) <=> \/ a(1) < b(1)
                              \/ a(1) = b(1) /\ a(2) < b(2)
                              \/ a(1) = b(1) /\ a(2) = b(2) /\ a(3) < b(3)
  <2>1. /\ a(1) \in 0..(Base - 1) /\ a(2) \in 0..(Base - 1) /\ a(3) \in 0..(Base - 1)
        /\ b(1) \in 0..(Base - 1) /\ b(2) \in 0..(Base - 1) /\ b(3) \in 0..(Base - 1)
    BY <1>2, <1>3
  <2>2. Digits(Base, a(1), a(2), a(3)) < Digits(Base, b(1), b(2), b(3))
          <=> \/ a(1) < b(1)
              \/ a(1) = b(1) /\ a(2) < b(2)
              \/ a(1) = b(1) /\ a(2) = b(2) /\ a(3) < b(3)
    <3>1. Base \in Nat \ {0}
      BY <1>3
    <3>2. PICK x \in 0..(Base - 1), y \in 0..(Base - 1), z \in 0..(Base - 1) :
            x = a(1) /\ y = a(2) /\ z = a(3)
      BY <2>1
    <3>3. PICK k \in 0..(Base - 1), m \in 0..(Base - 1), n \in 0..(Base - 1) :
            k = b(1) /\ m = b(2) /\ n = b(3)
      BY <2>1
    <3>4. Digits(Base, x, y, z) < Digits(Base, k, m, n)
            <=> \/ x < k
                \/ x = k /\ y < m
                \/ x = k /\ y = m /\ z < n
      BY <3>1, ThreeDigits
    <3> QED  BY ONLY <3>2, <3>3, <3>4
  <2> QED  BY <1>6, <2>2, Zenon
<1> QED  BY <1>5, <1>6, <1>7

(***************************************************************************)
(* `in_bounds` shows an item to exactly the versions whose value is in its *)
(* range, for every set of items and versions of up to three parts, which  *)
(* is what the property's values tell apart.                               *)
(***************************************************************************)
THEOREM AudiencesAreMeant ==
  ASSUME \A v \in Versions \ {None} : NumericParts(v) \subseteq 1..3,
         \A i \in Items : \A v \in {i.min, i.max} \ {None} : NumericParts(v) \subseteq 1..3
  PROVE  Spec => []TargetedOnly
<1>1. ASSUME IInv PROVE TargetedOnly
  <2> SUFFICES ASSUME held # None, channel = "items", ~Expired(held, Clock),
                      NEW i \in held.body, i.expires_at # None => Clock < i.expires_at
               PROVE  i \in Shown
                        <=> \/ i.min = None /\ i.max = None
                            \/ /\ Parses(version)
                               /\ i.min # None => Parses(i.min) /\ Value(i.min) <= Value(version)
                               /\ i.max # None => Parses(i.max) /\ Value(version) <= Value(i.max)
    BY DEF TargetedOnly
  <2>1. i \in Items
    <3>1. bodies \in Seq(SUBSET Items) /\ held.body = bodies[held.generation]
          /\ held.generation \in 1..Len(bodies)
      BY <1>1 DEF IInv, TypeOK, Bodies, HeldHolds, DocHolds, Rendered
    <3> QED  BY <3>1
  <2>2. Clock \in Int /\ version \in {None} \cup Version
    BY <1>1, BoundsAssumption, LagsAssumption, VersionsAssumption DEF IInv, TypeOK, Clock
  <2>3. i \in Shown <=> InBounds(version, i.min, i.max)
    <3>1. i.expires_at = None \/ i.expires_at > Clock
      BY <2>1, <2>2, ItemsAssumption
    <3> QED  BY <3>1 DEF Shown, ActiveFor
  <2>4. version # None => NumericParts(version) \subseteq 1..3
    BY <1>1 DEF IInv, TypeOK
  <2>5. i.min \in {None} \cup Version /\ i.max \in {None} \cup Version
    BY <2>1, ItemsAssumption
  <2>6. /\ i.min # None => NumericParts(i.min) \subseteq 1..3
        /\ i.max # None => NumericParts(i.max) \subseteq 1..3
    BY <2>1
  <2>7. i.min # None /\ Parses(version) /\ Parses(i.min)
          => (~Less(version, i.min) <=> Value(i.min) <= Value(version))
    BY <2>2, <2>4, <2>5, <2>6, LessByValue DEF Parses
  <2>8. i.max # None /\ Parses(version) /\ Parses(i.max)
          => (~Less(i.max, version) <=> Value(version) <= Value(i.max))
    BY <2>2, <2>4, <2>5, <2>6, LessByValue DEF Parses
  <2>9. Parses(version) => version # None
    BY DEF Parses
  <2> QED  BY <2>3, <2>7, <2>8, <2>9 DEF InBounds
<1> QED
  BY <1>1, Invariant, PTL

-----------------------------------------------------------------------------
(* The order of versions of any length *)

Places == Nat \ {0}

\* The first place where two sequences differ decides.
FirstLower(f, g) ==
  \E i \in Places : f[i] < g[i] /\ \A j \in 1..(i - 1) : f[j] = g[j]

LEMMA LeastPlace ==
  ASSUME NEW D \in SUBSET Places, D # {}
  PROVE  \E i \in D : \A j \in 1..(i - 1) : j \notin D
<1> DEFINE R == OpToRel(<, Nat)
<1>1. IsWellFoundedOn(R, Nat)
  BY NatLessThanWellFounded
<1>2. \A x, y \in Nat : <<x, y>> \in R <=> x < y
  BY DEF OpToRel
<1> HIDE DEF R
<1>3. PICK i \in D : \A j \in D : <<j, i>> \notin R
  <2>1. D \subseteq Nat
    BY DEF Places
  <2> QED  BY <1>1, <2>1, WFMin, Zenon
<1>4. \A j \in D : ~(j < i)
  BY <1>2, <1>3 DEF Places
<1> QED  BY <1>4 DEF Places

LEMMA FirstLowerIsTotal ==
  ASSUME NEW f \in [Places -> Nat], NEW g \in [Places -> Nat], f # g
  PROVE  FirstLower(f, g) \/ FirstLower(g, f)
<1> DEFINE D == {i \in Places : f[i] # g[i]}
<1>1. D # {}
  OBVIOUS
<1>2. PICK i \in D : \A j \in 1..(i - 1) : j \notin D
  BY <1>1, LeastPlace
<1>3. \A j \in 1..(i - 1) : f[j] = g[j]
  BY <1>2 DEF Places
<1>4. f[i] < g[i] \/ g[i] < f[i]
  BY <1>2
<1> QED  BY <1>2, <1>3, <1>4 DEF FirstLower

LEMMA FirstLowerIsTransitive ==
  ASSUME NEW f \in [Places -> Nat], NEW g \in [Places -> Nat], NEW h \in [Places -> Nat],
         FirstLower(f, g), FirstLower(g, h)
  PROVE  FirstLower(f, h)
<1>1. PICK i \in Places : f[i] < g[i] /\ \A j \in 1..(i - 1) : f[j] = g[j]
  BY DEF FirstLower
<1>2. PICK k \in Places : g[k] < h[k] /\ \A j \in 1..(k - 1) : g[j] = h[j]
  BY DEF FirstLower
<1>0. \A j \in Places : f[j] \in Nat /\ g[j] \in Nat /\ h[j] \in Nat
  OBVIOUS
<1>3. CASE i <= k
  <2>1. f[i] < h[i]
    <3>1. i = k \/ i \in 1..(k - 1)
      BY <1>3 DEF Places
    <3>2. g[i] <= h[i]
      BY <1>0, <1>2, <3>1
    <3> QED  BY <1>0, <1>1, <3>2
  <2>2. \A j \in 1..(i - 1) : f[j] = h[j]
    BY <1>1, <1>2, <1>3 DEF Places
  <2> QED  BY <2>1, <2>2 DEF FirstLower
<1>4. CASE k < i
  <2>1. f[k] < h[k]
    BY <1>1, <1>2, <1>4 DEF Places
  <2>2. \A j \in 1..(k - 1) : f[j] = h[j]
    BY <1>1, <1>2, <1>4 DEF Places
  <2> QED  BY <2>1, <2>2 DEF FirstLower
<1> QED  BY <1>3, <1>4 DEF Places

\* What is not below g, where g is not below f, is not below f.
LEMMA NotLowerIsTransitive ==
  ASSUME NEW f \in [Places -> Nat], NEW g \in [Places -> Nat], NEW h \in [Places -> Nat],
         ~FirstLower(g, f), ~FirstLower(h, g)
  PROVE  ~FirstLower(h, f)
<1> SUFFICES ASSUME FirstLower(h, f) PROVE FALSE
  OBVIOUS
<1>1. CASE f = g
  BY <1>1
<1>2. CASE f # g
  <2>1. FirstLower(f, g)
    BY <1>2, FirstLowerIsTotal
  <2> QED  BY <2>1, FirstLowerIsTransitive
<1> QED  BY <1>1, <1>2

\* A version is as good as the sequence of its components, 0 where it has none.
Components(v) == [i \in Places |-> Component(v, i)]

LEMMA LessByComponents ==
  ASSUME NEW v \in Version, NEW w \in Version
  PROVE  /\ Components(v) \in [Places -> Nat]
         /\ Less(v, w) <=> FirstLower(Components(v), Components(w))
<1>1. \A u \in Version : /\ NumericParts(u) \subseteq Places
                        /\ \A i \in Places : Component(u, i) \in Nat
  <2> SUFFICES ASSUME NEW u \in Version
               PROVE  /\ NumericParts(u) \subseteq Places
                      /\ \A i \in NumericParts(u) : u[i].num \in Nat
    BY DEF Component
  <2>1. NumericParts(u) \subseteq DOMAIN u /\ DOMAIN u \subseteq Places
    BY DEF NumericParts, Version, Places
  <2>2. ASSUME NEW i \in NumericParts(u)
        PROVE  u[i].num \in Nat
    <3>1. u[i].num # None
      BY <2>1 DEF NumericParts, Places
    <3>2. u[i] \in [num : Nat \cup {None}, suffix : BOOLEAN]
      BY <2>1, InSequence DEF Version
    <3> QED  BY <3>1, <3>2
  <2> QED  BY <2>1, <2>2
<1>2. \A u \in Version : Components(u) \in [Places -> Nat]
  BY <1>1 DEF Components
<1>3. \A i \in Places : Component(v, i) < Component(w, i) => i \in NumericParts(w)
  BY <1>1 DEF Component
<1>4. Less(v, w) <=> \E i \in Places : /\ Component(v, i) < Component(w, i)
                                      /\ \A j \in 1..(i - 1) : Component(v, j) = Component(w, j)
  BY <1>1, <1>3 DEF Less
<1>5. \A i \in Places : \A j \in 1..(i - 1) : j \in Places
  BY DEF Places
<1> QED  BY <1>2, <1>4, <1>5 DEF FirstLower, Components

(***************************************************************************)
(* An audience is an interval: an item that is meant for two releases of   *)
(* the client is meant for every release between them, for versions of any *)
(* length and bounds of any length, comparable part by part or not.        *)
(***************************************************************************)
THEOREM AudienceIsAnInterval ==
  ASSUME NEW u \in Version, NEW v \in Version, NEW w \in Version,
         NEW min \in Version \cup {None}, NEW max \in Version \cup {None},
         Parses(v), ~Less(v, u), ~Less(w, v),
         InBounds(u, min, max), InBounds(w, min, max)
  PROVE  InBounds(v, min, max)
<1>1. ASSUME NEW x \in Version, NEW y \in Version, NEW z \in Version,
             ~Less(y, x), ~Less(z, y)
      PROVE  ~Less(z, x)
  BY <1>1, LessByComponents, NotLowerIsTransitive
<1>2. min # None => Parses(min) /\ ~Less(u, min)
  BY DEF InBounds
<1>3. max # None => Parses(max) /\ ~Less(max, w)
  BY DEF InBounds
<1>4. min # None => ~Less(v, min)
  BY <1>1, <1>2
<1>5. max # None => ~Less(max, v)
  BY <1>1, <1>3
<1>6. v # None
  BY DEF Parses
<1> QED  BY <1>2, <1>3, <1>4, <1>5, <1>6 DEF InBounds
=============================================================================

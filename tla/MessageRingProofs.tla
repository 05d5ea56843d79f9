------------------------- MODULE MessageRingProofs -------------------------
(***************************************************************************)
(* What the flags of MessageRing keep apart, and what they do not, for any *)
(* number of slots, of messages and of parts of a text.                    *)
(***************************************************************************)
EXTENDS MessageRing, TLAPS

Copying == producer = "copy"

\* Messages in the ring, and those that are copied.
Held   == Published - Freed
Copied == IF producer = "publish" \/ Copying THEN typed - 1 ELSE typed

\* Where the two processes are, as to each other.
Apart ==
  /\ Held \in 0 .. MAX_MESSAGES
  /\ producer \in {"input", "publish"} => Held < MAX_MESSAGES
  /\ producer \in {"publish", "copy"} => typed > 0
  /\ consumer \in {"print", "free"} => Held > 0
  /\ consumer = "free" => printed > 0
  /\ (IF Copying THEN NEXT(in) ELSE in) = Wrap(out + Held)

FlagsShow ==
  \A j \in 0 .. MAX_MESSAGES - 1 : unread[Wrap(out + j)] <=> j < Held

\* The texts, counted from the producer's slot on: what was there a round before,
\* but for the parts that have been copied of the message in the works.
TextsShow ==
  \A j \in 0 .. MAX_MESSAGES - 1, part \in Parts :
    \/ message[Wrap(in + j)][part] = Previous(Copied + 1 + j)
    \/ Copying /\ j = 0 /\ message[Wrap(in + j)][part] = typed

\* The consumer holds parts of a text only from printf to the reset of the flag.
ReadOnlyToPrint ==
  consumer \in {"print", "free"} \/ \A part \in Parts : text[part] = NotRead

RingInv ==
  /\ TypeOK /\ Apart /\ FlagsShow /\ TextsShow
  /\ ReadOnlyToPrint /\ PrintedInOrder

(***************************************************************************)
(* Walking round the ring.                                                 *)
(***************************************************************************)
LEMMA WrapIsSlot ==
  ASSUME NEW s \in Slots, NEW j \in 0 .. MAX_MESSAGES
  PROVE  Wrap(s + j) \in Slots
BY RingAssumption DEF Wrap, Slots

LEMMA NextIsSlot ==
  ASSUME NEW s \in Slots
  PROVE  NEXT(s) \in Slots /\ NEXT(s) = Wrap(s + 1)
BY RingAssumption DEF Wrap, Slots, NEXT

LEMMA EverySlotIsReached ==
  ASSUME NEW s \in Slots, NEW t \in Slots
  PROVE  \E j \in 0 .. MAX_MESSAGES - 1 : t = Wrap(s + j)
<1> DEFINE j == IF t >= s THEN t - s ELSE t - s + MAX_MESSAGES
<1>1. j \in 0 .. MAX_MESSAGES - 1 /\ t = Wrap(s + j)
  BY RingAssumption DEF Wrap, Slots
<1> QED
  BY <1>1

LEMMA WrapsDiffer ==
  ASSUME NEW s \in Slots, NEW j \in 0 .. MAX_MESSAGES - 1,
         NEW k \in 0 .. MAX_MESSAGES - 1, Wrap(s + j) = Wrap(s + k)
  PROVE  j = k
BY RingAssumption DEF Wrap, Slots

LEMMA PreviousIsMessage ==
  ASSUME NEW k \in Nat
  PROVE  Previous(k) \in Nat
BY RingAssumption DEF Previous

LEMMA PreviousInRoundOne ==
  ASSUME NEW k \in Nat, k <= MAX_MESSAGES
  PROVE  Previous(k) = 0
BY RingAssumption DEF Previous

LEMMA PreviousLater ==
  ASSUME NEW k \in Nat \ {0}, NEW m \in Nat, m = k + MAX_MESSAGES
  PROVE  Previous(m) = k
BY RingAssumption DEF Previous

LEMMA RingInitially == Init => RingInv
<1> SUFFICES ASSUME Init PROVE RingInv
  OBVIOUS
<1>1. TypeOK
  BY RingAssumption DEF Init, TypeOK, Slots
<1>2. Held = 0 /\ Copied = 0 /\ ~Copying
  BY DEF Init, Held, Published, Freed, Copied, Copying
<1>3. \A j \in 0 .. MAX_MESSAGES - 1 : Wrap(j) = j
  BY RingAssumption DEF Wrap
<1>4. Apart
  BY <1>2, <1>3, RingAssumption DEF Init, Apart, Copying
<1>5. FlagsShow
  BY <1>2, <1>3, RingAssumption DEF Init, FlagsShow, Slots
<1>6. TextsShow
  <2> SUFFICES ASSUME NEW j \in 0 .. MAX_MESSAGES - 1, NEW part \in Parts
               PROVE  message[Wrap(in + j)][part] = Previous(Copied + 1 + j)
    BY DEF TextsShow
  <2>1. Previous(Copied + 1 + j) = 0
    BY <1>2, PreviousInRoundOne, RingAssumption
  <2>2. Wrap(in + j) = j /\ j \in Slots
    BY <1>3 DEF Init, Slots
  <2> QED
    BY <2>1, <2>2 DEF Init
<1> QED
  BY <1>1, <1>4, <1>5, <1>6
  DEF Init, RingInv, ReadOnlyToPrint, PrintedInOrder

(***************************************************************************)
(* The producer.                                                           *)
(***************************************************************************)
LEMMA ProducerMovesOn ==
  ASSUME RingInv, ProducerTest \/ ProducerGoesOn \/ ProducerHangs \/ Spinning
  PROVE  RingInv'
<1> USE DEF ProducerTest, ProducerGoesOn, ProducerHangs, Spinning, vars,
            producerVars, consumerVars
<1>1. TypeOK'
  BY DEF RingInv, TypeOK
<1>2. Held' = Held /\ Copied' = Copied /\ Copying' = Copying
  BY DEF Held, Published, Freed, Copied, Copying
<1>3. ASSUME producer' = "input" /\ producer # "input" PROVE Held < MAX_MESSAGES
  <2>1. ~unread[in] /\ ~Copying
    BY <1>3 DEF SlotFree, Copying
  <2>2. CASE Held = MAX_MESSAGES
    <3>1. in = out
      BY <2>1, <2>2, RingAssumption DEF RingInv, Apart, Wrap, TypeOK, Slots
    <3>2. Wrap(out + 0) = out
      BY RingAssumption DEF RingInv, TypeOK, Slots, Wrap
    <3>3. unread[out]
      BY <2>2, <3>2, RingAssumption DEF RingInv, FlagsShow
    <3> QED
      BY <3>1, <3>3, <2>1
  <2> QED
    BY <2>2, RingAssumption DEF RingInv, Apart
<1>4. Apart'
  BY <1>2, <1>3 DEF RingInv, Apart, NEXT, Wrap
<1>5. FlagsShow' /\ TextsShow'
  BY <1>2 DEF RingInv, FlagsShow, TextsShow, Wrap, Previous
<1>6. ReadOnlyToPrint' /\ PrintedInOrder'
  BY DEF RingInv, ReadOnlyToPrint, PrintedInOrder, Freed, Previous
<1> QED
  BY <1>1, <1>4, <1>5, <1>6 DEF RingInv

LEMMA InputKeeps ==
  ASSUME RingInv, Input
  PROVE  RingInv'
<1> USE DEF Input, consumerVars
<1>1. TypeOK'
  BY RingAssumption DEF RingInv, TypeOK
<1>2. Held' = Held /\ Copied' = Copied /\ ~Copying /\ ~Copying'
  <2>1. typed \in Nat
    BY RingAssumption DEF RingInv, TypeOK
  <2> QED
    BY <2>1 DEF Held, Published, Freed, Copied, Copying
<1>3. Apart'
  BY <1>2 DEF RingInv, Apart, NEXT, Wrap, TypeOK
<1>4. FlagsShow' /\ TextsShow'
  BY <1>2 DEF RingInv, FlagsShow, TextsShow, Wrap, Previous
<1>5. ReadOnlyToPrint' /\ PrintedInOrder'
  BY DEF RingInv, ReadOnlyToPrint, PrintedInOrder, Freed, Previous
<1> QED
  BY <1>1, <1>3, <1>4, <1>5 DEF RingInv

LEMMA PublishKeeps ==
  ASSUME RingInv, Publish
  PROVE  RingInv'
<1> USE DEF Publish, consumerVars
<1>1. TypeOK'
  BY DEF RingInv, TypeOK
<1>2. Held' = Held + 1 /\ Copied' = Copied /\ ~Copying /\ Copying'
  BY DEF Held, Published, Freed, Copied, Copying, RingInv, TypeOK
<1>3. in = Wrap(out + Held) /\ Held \in 0 .. MAX_MESSAGES - 1
  BY <1>2, RingAssumption DEF RingInv, Apart
<1>4. Apart'
  <2>1. NEXT(in) = Wrap(out + Held + 1)
    BY <1>3, RingAssumption DEF NEXT, Wrap, RingInv, TypeOK, Slots
  <2>2. (IF Copying THEN NEXT(in) ELSE in)' = NEXT(in)
    BY <1>2 DEF NEXT
  <2>3. Wrap(out + Held)' = Wrap(out + Held + 1)
    BY <1>2, <1>3 DEF Wrap, RingInv, TypeOK, Slots
  <2> QED
    BY <1>2, <1>3, <2>1, <2>2, <2>3, RingAssumption DEF RingInv, Apart
<1>5. FlagsShow'
  <2> SUFFICES ASSUME NEW j \in 0 .. MAX_MESSAGES - 1
               PROVE  unread'[Wrap(out + j)] <=> j < Held + 1
    BY <1>2 DEF FlagsShow, Wrap
  <2>1. Wrap(out + j) \in Slots
    BY WrapIsSlot, RingAssumption DEF RingInv, TypeOK
  <2>2. Wrap(out + j) = in <=> j = Held
    BY <1>3, WrapsDiffer DEF RingInv, TypeOK
  <2> QED
    BY <1>3, <2>1, <2>2, RingAssumption DEF RingInv, FlagsShow, TypeOK
<1>6. TextsShow'
  BY <1>2 DEF RingInv, TextsShow, Wrap, Previous
<1>7. ReadOnlyToPrint' /\ PrintedInOrder'
  BY DEF RingInv, ReadOnlyToPrint, PrintedInOrder, Freed, Previous
<1> QED
  BY <1>1, <1>4, <1>5, <1>6, <1>7 DEF RingInv

LEMMA CopyPartKeeps ==
  ASSUME RingInv, CopyPart
  PROVE  RingInv'
<1> USE DEF producerVars, consumerVars
<1>1. PICK copied \in Parts :
        message' = [message EXCEPT ![in][copied] = typed]
  BY DEF CopyPart
<1>2. /\ Copying
      /\ UNCHANGED <<barrier, producer, in, typed, consumer, out, text, printed, unread>>
  BY DEF CopyPart, Copying
<1>3. TypeOK'
  BY <1>1, <1>2, RingAssumption DEF RingInv, TypeOK
<1>4. Held' = Held /\ Copied' = Copied /\ Copying' = Copying
  BY <1>2 DEF Held, Published, Freed, Copied, Copying
<1>5. Apart' /\ FlagsShow'
  BY <1>2, <1>4 DEF RingInv, Apart, FlagsShow, NEXT, Wrap
<1>6. TextsShow'
  <2> SUFFICES ASSUME NEW j \in 0 .. MAX_MESSAGES - 1, NEW part \in Parts
               PROVE  \/ message'[Wrap(in + j)][part] = Previous(Copied + 1 + j)
                      \/ j = 0 /\ message'[Wrap(in + j)][part] = typed
    BY <1>2, <1>4 DEF TextsShow, Wrap, Previous
  <2>1. Wrap(in + j) = in <=> j = 0
    BY RingAssumption DEF RingInv, TypeOK, Wrap, Slots
  <2>2. Wrap(in + j) \in Slots
    BY WrapIsSlot, RingAssumption DEF RingInv, TypeOK
  <2>3. CASE j = 0 /\ part = copied
    BY <1>1, <2>1, <2>2, <2>3 DEF RingInv, TypeOK
  <2>4. CASE ~(j = 0 /\ part = copied)
    <3>1. message'[Wrap(in + j)][part] = message[Wrap(in + j)][part]
      BY <1>1, <2>1, <2>2, <2>4 DEF RingInv, TypeOK
    <3> QED
      BY <3>1 DEF RingInv, TextsShow
  <2> QED
    BY <2>3, <2>4
<1>7. ReadOnlyToPrint' /\ PrintedInOrder'
  BY <1>2 DEF RingInv, ReadOnlyToPrint, PrintedInOrder, Freed, Previous
<1> QED
  BY <1>3, <1>5, <1>6, <1>7 DEF RingInv

LEMMA EndCopyKeeps ==
  ASSUME RingInv, EndCopy
  PROVE  RingInv'
<1> USE DEF EndCopy, consumerVars
<1>1. TypeOK'
  BY NextIsSlot DEF RingInv, TypeOK
<1>2. Held' = Held /\ Copied' = Copied + 1 /\ Copied + 1 = typed /\ Copying /\ ~Copying'
  BY DEF Held, Published, Freed, Copied, Copying, RingInv, TypeOK
<1>3. Apart'
  BY <1>2 DEF RingInv, Apart, Wrap
<1>4. FlagsShow'
  BY <1>2 DEF RingInv, FlagsShow, Wrap
<1>5. TextsShow'
  <2> SUFFICES ASSUME NEW j \in 0 .. MAX_MESSAGES - 1, NEW part \in Parts
               PROVE  message[Wrap(in' + j)][part] = Previous(Copied + 2 + j)
    <3>1. Copied' + 1 = Copied + 2
      BY <1>2, RingAssumption DEF RingInv, TypeOK, Copied
    <3> QED
      BY <3>1 DEF TextsShow, Wrap, Previous
  <2>1. CASE j = MAX_MESSAGES - 1
    <3>1. Wrap(in' + j) = in
      BY <2>1, RingAssumption DEF RingInv, TypeOK, Wrap, NEXT, Slots
    <3>2. message[in][part] = typed
      OBVIOUS
    <3>3. typed \in Nat \ {0} /\ Copied + 2 + j = typed + MAX_MESSAGES
      BY <1>2, <2>1, RingAssumption DEF RingInv, TypeOK, Apart, Copied
    <3>4. Copied + 2 + j \in Nat
      BY <3>3, RingAssumption
    <3>5. Previous(Copied + 2 + j) = typed
      BY <3>3, <3>4, PreviousLater
    <3> QED
      BY <3>1, <3>2, <3>5
  <2>2. CASE j # MAX_MESSAGES - 1
    <3>1. Wrap(in' + j) = Wrap(in + (j + 1)) /\ j + 1 \in 1 .. MAX_MESSAGES - 1
      BY <2>2, RingAssumption DEF RingInv, TypeOK, Wrap, NEXT, Slots
    <3>2. message[Wrap(in + (j + 1))][part] = Previous(Copied + 1 + (j + 1))
      BY <3>1, RingAssumption DEF RingInv, TextsShow
    <3>3. Copied + 1 + (j + 1) = Copied + 2 + j
      BY RingAssumption DEF RingInv, TypeOK, Copied
    <3> QED
      BY <3>1, <3>2, <3>3
  <2> QED
    BY <2>1, <2>2
<1>6. ReadOnlyToPrint' /\ PrintedInOrder'
  BY DEF RingInv, ReadOnlyToPrint, PrintedInOrder, Freed, Previous
<1> QED
  BY <1>1, <1>3, <1>4, <1>5, <1>6 DEF RingInv

(***************************************************************************)
(* The consumer.                                                           *)
(***************************************************************************)
LEMMA ConsumerMovesOn ==
  ASSUME RingInv, ConsumerTest \/ ConsumerGoesOn \/ ConsumerHangs
  PROVE  RingInv'
<1> USE DEF ConsumerTest, ConsumerGoesOn, ConsumerHangs, producerVars
<1>1. TypeOK'
  BY DEF RingInv, TypeOK
<1>2. Held' = Held /\ Copied' = Copied /\ Copying' = Copying
  BY DEF Held, Published, Freed, Copied, Copying
<1>3. ASSUME consumer' = "print" PROVE Held > 0
  <2>1. unread[out]
    BY <1>3 DEF Arrived
  <2>2. Wrap(out + 0) = out
    BY RingAssumption DEF RingInv, TypeOK, Slots, Wrap
  <2> QED
    BY <2>1, <2>2, RingAssumption DEF RingInv, FlagsShow
<1>4. Apart'
  BY <1>2, <1>3 DEF RingInv, Apart, NEXT, Wrap
<1>5. FlagsShow' /\ TextsShow'
  BY <1>2 DEF RingInv, FlagsShow, TextsShow, Wrap, Previous
<1>6. ReadOnlyToPrint' /\ PrintedInOrder'
  BY DEF RingInv, ReadOnlyToPrint, PrintedInOrder, Freed, Previous
<1> QED
  BY <1>1, <1>4, <1>5, <1>6 DEF RingInv

\* What printf finds: a part of its message, unless that is being copied.
LEMMA TextFound ==
  ASSUME RingInv, consumer = "print", NEW part \in Parts
  PROVE  \/ message[out][part] = printed + 1
         \/ /\ Copying /\ typed = printed + 1
            /\ message[out][part] = Previous(printed + 1)
<1> DEFINE k == printed + 1
<1>1. k \in Nat \ {0} /\ Freed = k - 1
  BY DEF RingInv, TypeOK, Freed
<1>2. Held \in 1 .. MAX_MESSAGES
  BY DEF RingInv, Apart
<1>3. Previous(k + MAX_MESSAGES) = k
  BY <1>1, PreviousLater, RingAssumption
<1>4. CASE ~Copying
  <2>1. in = Wrap(out + Held) /\ Copied = k - 1 + Held
    BY <1>1, <1>2, <1>4
    DEF RingInv, Apart, TypeOK, Copied, Held, Published, Copying
  <2>2. out = Wrap(in + (MAX_MESSAGES - Held))
    BY <1>2, <2>1, RingAssumption DEF RingInv, TypeOK, Slots, Wrap
  <2>3. message[out][part] = Previous(Copied + 1 + (MAX_MESSAGES - Held))
    BY <1>2, <1>4, <2>2, RingAssumption DEF RingInv, TextsShow
  <2>4. Copied + 1 + (MAX_MESSAGES - Held) = k + MAX_MESSAGES
    BY <1>1, <1>2, <2>1, RingAssumption
  <2> QED
    BY <1>3, <2>3, <2>4
<1>5. CASE Copying /\ Held = 1
  <2>1. in = out
    BY <1>5, RingAssumption DEF RingInv, Apart, TypeOK, Slots, Wrap, NEXT
  <2>2. typed = k /\ Copied + 1 + 0 = k /\ Wrap(in + 0) = in
    BY <1>1, <1>5, RingAssumption
    DEF RingInv, TypeOK, Held, Published, Copying, Copied, Slots, Wrap
  <2>3. message[in][part] \in {Previous(k), typed}
    BY <2>2, RingAssumption DEF RingInv, TextsShow
  <2> QED
    BY <1>5, <2>1, <2>2, <2>3
<1>6. CASE Copying /\ Held > 1
  <2>1. NEXT(in) = Wrap(out + Held) /\ Copied = k - 2 + Held
    BY <1>1, <1>2, <1>6
    DEF RingInv, Apart, TypeOK, Copied, Held, Published, Copying
  <2>2. out = Wrap(in + (MAX_MESSAGES - Held + 1))
    BY <1>2, <1>6, <2>1, RingAssumption DEF RingInv, TypeOK, Slots, Wrap, NEXT
  <2>3. MAX_MESSAGES - Held + 1 \in 1 .. MAX_MESSAGES - 1
    BY <1>2, <1>6, RingAssumption
  <2>4. message[out][part] = Previous(Copied + 1 + (MAX_MESSAGES - Held + 1))
    BY <2>2, <2>3, RingAssumption DEF RingInv, TextsShow
  <2>5. Copied + 1 + (MAX_MESSAGES - Held + 1) = k + MAX_MESSAGES
    BY <1>1, <1>2, <2>1, RingAssumption
  <2> QED
    BY <1>3, <2>4, <2>5
<1> QED
  BY <1>2, <1>4, <1>5, <1>6, RingAssumption

LEMMA ReadPartKeeps ==
  ASSUME RingInv, ReadPart
  PROVE  RingInv'
<1> USE DEF producerVars
<1>1. PICK read \in Parts : text' = [text EXCEPT ![read] = message[out][read]]
  BY DEF ReadPart
<1>2. /\ consumer = "print"
      /\ UNCHANGED <<barrier, producer, in, typed, consumer, out, printed, unread, message>>
  BY DEF ReadPart
<1>3. message[out][read] \in Nat
  BY DEF RingInv, TypeOK
<1>4. TypeOK'
  BY <1>1, <1>2, <1>3 DEF RingInv, TypeOK
<1>5. Held' = Held /\ Copied' = Copied /\ Copying' = Copying
  BY <1>2 DEF Held, Published, Freed, Copied, Copying
<1>6. Apart' /\ FlagsShow' /\ TextsShow'
  BY <1>2, <1>5 DEF RingInv, Apart, FlagsShow, TextsShow, NEXT, Wrap, Previous
<1>7. ReadOnlyToPrint'
  BY <1>2 DEF ReadOnlyToPrint
<1>8. PrintedInOrder'
  <2>1. message[out][read] \in {printed + 1, Previous(printed + 1)}
    BY <1>2, TextFound
  <2>2. Freed = printed /\ Freed' = printed
    BY <1>2 DEF Freed
  <2>3. \A part \in Parts :
          text'[part] = IF part = read THEN message[out][read] ELSE text[part]
    BY <1>1 DEF RingInv, TypeOK
  <2> QED
    BY <1>2, <2>1, <2>2, <2>3 DEF RingInv, PrintedInOrder, Previous
<1> QED
  BY <1>4, <1>6, <1>7, <1>8 DEF RingInv

LEMMA EndPrintKeeps ==
  ASSUME RingInv, EndPrint
  PROVE  RingInv'
<1> USE DEF EndPrint, producerVars
<1>1. TypeOK'
  BY DEF RingInv, TypeOK
<1>2. Freed' = Freed
  BY DEF Freed, RingInv, TypeOK
<1>3. Held' = Held /\ Copied' = Copied /\ Copying' = Copying
  BY <1>2 DEF Held, Published, Copied, Copying
<1>4. Apart'
  BY <1>3 DEF RingInv, Apart, NEXT, Wrap, TypeOK
<1>5. FlagsShow' /\ TextsShow'
  BY <1>3 DEF RingInv, FlagsShow, TextsShow, Wrap, Previous
<1>6. ReadOnlyToPrint' /\ PrintedInOrder'
  BY <1>2 DEF RingInv, ReadOnlyToPrint, PrintedInOrder, Previous
<1> QED
  BY <1>1, <1>4, <1>5, <1>6 DEF RingInv

LEMMA FreeKeeps ==
  ASSUME RingInv, Free
  PROVE  RingInv'
<1> USE DEF Free, ClearFlag, producerVars
<1>1. TypeOK'
  BY NextIsSlot DEF RingInv, TypeOK
<1>2. Held' = Held - 1 /\ Copied' = Copied /\ Copying' = Copying
  BY DEF Held, Published, Freed, Copied, Copying, RingInv, TypeOK
<1>3. Held \in 1 .. MAX_MESSAGES
  BY DEF RingInv, Apart
<1>4. Wrap(out' + (Held - 1)) = Wrap(out + Held)
  BY <1>3, RingAssumption DEF RingInv, TypeOK, Wrap, NEXT, Slots
<1>5. Apart'
  BY <1>2, <1>3, <1>4, RingAssumption DEF RingInv, Apart, NEXT, Wrap
<1>6. FlagsShow'
  <2> SUFFICES ASSUME NEW j \in 0 .. MAX_MESSAGES - 1
               PROVE  unread'[Wrap(out' + j)] <=> j < Held - 1
    BY <1>2 DEF FlagsShow, Wrap
  <2>1. CASE j = MAX_MESSAGES - 1
    <3>1. Wrap(out' + j) = out
      BY <2>1, RingAssumption DEF RingInv, TypeOK, Wrap, NEXT, Slots
    <3>2. ~unread'[out]
      BY DEF RingInv, TypeOK
    <3> QED
      BY <1>3, <2>1, <3>1, <3>2, RingAssumption
  <2>2. CASE j # MAX_MESSAGES - 1
    <3>1. Wrap(out' + j) = Wrap(out + (j + 1)) /\ j + 1 \in 1 .. MAX_MESSAGES - 1
      BY <2>2, RingAssumption DEF RingInv, TypeOK, Wrap, NEXT, Slots
    <3>2. Wrap(out + (j + 1)) # out
      BY <3>1, RingAssumption DEF RingInv, TypeOK, Wrap, Slots
    <3>3. unread[Wrap(out + (j + 1))] <=> j + 1 < Held
      BY <3>1, RingAssumption DEF RingInv, FlagsShow
    <3>4. unread'[Wrap(out + (j + 1))] = unread[Wrap(out + (j + 1))]
      BY <3>2 DEF RingInv, TypeOK
    <3> QED
      <4>1. j + 1 < Held <=> j < Held - 1
        BY <1>3
      <4> QED
        BY <3>1, <3>3, <3>4, <4>1
  <2> QED
    BY <2>1, <2>2
<1>7. TextsShow'
  BY <1>2 DEF RingInv, TextsShow, Wrap, Previous
<1>8. ReadOnlyToPrint' /\ PrintedInOrder'
  BY DEF ReadOnlyToPrint, PrintedInOrder
<1> QED
  BY <1>1, <1>5, <1>6, <1>7, <1>8 DEF RingInv

LEMMA RingStutters ==
  ASSUME RingInv, UNCHANGED vars
  PROVE  RingInv'
<1> USE DEF vars, producerVars, consumerVars
<1>1. TypeOK'
  BY DEF RingInv, TypeOK
<1>2. Held' = Held /\ Copied' = Copied /\ Copying' = Copying
  BY DEF Held, Published, Freed, Copied, Copying
<1>3. Apart'
  BY <1>2 DEF RingInv, Apart, NEXT, Wrap
<1>4. FlagsShow' /\ TextsShow'
  BY <1>2 DEF RingInv, FlagsShow, TextsShow, Wrap, Previous
<1>5. ReadOnlyToPrint' /\ PrintedInOrder'
  BY DEF RingInv, ReadOnlyToPrint, PrintedInOrder, Freed, Previous
<1> QED
  BY <1>1, <1>3, <1>4, <1>5 DEF RingInv

\* The inductive invariant: where the two processes are on the ring, what the
\* flags show of it and what is in each slot (shm_anonymous.c).
THEOREM RingCorrect == Spec => []RingInv
<1>1. RingInv /\ [Next]_vars => RingInv'
  <2> SUFFICES ASSUME RingInv, [Next]_vars PROVE RingInv'
    OBVIOUS
  <2>1. CASE Input
    BY <2>1, InputKeeps
  <2>2. CASE ProducerStep
    BY <2>2, ProducerMovesOn, PublishKeeps, CopyPartKeeps, EndCopyKeeps
    DEF ProducerStep
  <2>3. CASE ConsumerStep
    BY <2>3, ConsumerMovesOn, ReadPartKeeps, EndPrintKeeps, FreeKeeps
    DEF ConsumerStep
  <2>4. CASE Spinning \/ UNCHANGED vars
    BY <2>4, RingStutters DEF Spinning
  <2> QED
    BY <2>1, <2>2, <2>3, <2>4 DEF Next
<1> QED
  BY RingInitially, <1>1, PTL DEF Spec

\* Both processes stay on the ring.
THEOREM RingTypes == Spec => []TypeOK
<1>1. RingInv => TypeOK
  BY DEF RingInv
<1> QED
  BY <1>1, RingCorrect, PTL

\* The flags always show which messages are in the ring: none is written over,
\* skipped or taken twice, whatever the size of the ring.
THEOREM FlagsAreRight == Spec => []FlagsCountMessages
<1>1. RingInv => FlagsCountMessages
  BY DEF RingInv, Apart, FlagsShow, Held, FlagsCountMessages
<1> QED
  BY <1>1, RingCorrect, PTL

\* What is printed k-th has no part of a message but the k-th and the one that
\* was in its slot a round before, however the copy and the print overlap.
THEOREM PrintsInOrder == Spec => []PrintedInOrder
<1>1. RingInv => PrintedInOrder
  BY DEF RingInv
<1> QED
  BY <1>1, RingCorrect, PTL

\* A part is read wrong only between the flag and the end of the copy.
THEOREM RightUnlessCopied == Spec => WrongOnlyWhileCopied
<1> DEFINE Right(part) ==
      text'[part] \notin {text[part], NotRead, printed + 1} =>
        producer = "copy" /\ typed = printed + 1
    Step == \A part \in Parts : Right(part)
<1>1. RingInv /\ [Next]_vars => [Step]_vars
  <2> SUFFICES ASSUME RingInv, Next, NEW part \in Parts PROVE Right(part)
    OBVIOUS
  <2>1. CASE ReadPart
    <3>1. text'[part] \in {text[part], message[out][part]}
      BY <2>1 DEF ReadPart, RingInv, TypeOK
    <3>2. consumer = "print"
      BY <2>1 DEF ReadPart
    <3> QED
      BY <3>1, <3>2, TextFound DEF Copying
  <2>2. CASE Free
    BY <2>2 DEF Free, ClearFlag
  <2>3. CASE ~ReadPart /\ ~Free
    <3>1. UNCHANGED text
      BY <2>3
      DEF Next, Spinning, vars, Input, ProducerStep, ProducerTest, ProducerGoesOn,
          ProducerHangs, Publish, CopyPart, EndCopy, ConsumerStep, ConsumerTest,
          ConsumerGoesOn, ConsumerHangs, EndPrint, consumerVars
    <3> QED
      BY <3>1
  <2> QED
    BY <2>1, <2>2, <2>3
<1> QED
  BY <1>1, RingCorrect, PTL DEF Spec, WrongOnlyWhileCopied

=============================================================================

---------------------------- MODULE MessageRing ----------------------------
(***************************************************************************)
(* The ring of messages that a producer and a consumer share with no lock, *)
(* shm_anonymous.c and shm_anonymous2.c.  Each slot has a flag and a text; *)
(* the producer spins while its slot is unread, the consumer while its own *)
(* is not.  The k-th message typed is the number k.  A text has MSG_LENGTH  *)
(* parts, which strncpy writes and printf reads one by one, so that a text *)
(* in a slot, and one that is printed, can be a mix of two messages.       *)
(* strncpy fills all of the array; printf may stop at a null before it has *)
(* read all of it, which leaves parts out but reads no other ones.         *)
(***************************************************************************)
EXTENDS Integers

CONSTANTS
  MAX_MESSAGES,  \* slots
  MSG_LENGTH,    \* parts of a text
  MaxTyped       \* bound on the messages typed (not in the code)

ASSUME RingAssumption ==
  MAX_MESSAGES \in Nat \ {0} /\ MSG_LENGTH \in Nat \ {0} /\ MaxTyped \in Nat

Slots == 0 .. MAX_MESSAGES - 1

Parts == 1 .. MSG_LENGTH

\* A part that printf has not come to.
NotRead == -1

VARIABLES
  barrier,           \* shm_anonymous2.c: the spinning loops read memory
  producer, consumer,    \* control points
  in, out,           \* their variables index
  unread, message,   \* msg_buf
  typed,             \* how many messages the user has typed
  text,              \* of which message is each part that printf has read
  printed            \* how many texts the consumer has printed

producerVars == <<producer, in, typed>>
consumerVars == <<consumer, out, text, printed>>
vars == <<barrier, producerVars, consumerVars, unread, message>>

TypeOK ==
  /\ barrier \in BOOLEAN
  /\ producer \in {"test", "spin", "hung", "input", "publish", "copy", "ended"}
  /\ consumer \in {"test", "spin", "hung", "print", "free"}
  /\ in \in Slots /\ out \in Slots
  /\ unread \in [Slots -> BOOLEAN]
  /\ message \in [Slots -> [Parts -> Nat]]
  /\ typed \in 0 .. MaxTyped
  /\ text \in [Parts -> Nat \cup {NotRead}]
  /\ printed \in Nat

\* Slips in NEXT: off by one in either direction.
NextTooSoon(index) == IF index < MAX_MESSAGES - 2 THEN index + 1 ELSE 0
NextTooLate(index) == IF index < MAX_MESSAGES THEN index + 1 ELSE 0

NEXT(index) == IF index < MAX_MESSAGES - 1 THEN index + 1 ELSE 0

Init ==
  /\ barrier \in BOOLEAN
  /\ producer = "test" /\ consumer = "test"
  /\ in = 0 /\ out = 0
  /\ unread = [s \in Slots |-> FALSE]
  /\ message = [s \in Slots |-> [part \in Parts |-> 0]]
  /\ text = [part \in Parts |-> NotRead]
  /\ typed = 0 /\ printed = 0

(***************************************************************************)
(* The producer.                                                           *)
(***************************************************************************)

\* Slip in SlotFree: a message that has not been read is written over.
AnySlot == TRUE

SlotFree == ~unread[in]

ProducerTest ==
  /\ producer = "test"
  /\ producer' = IF SlotFree THEN "input" ELSE "spin"
  /\ UNCHANGED <<barrier, in, typed, consumerVars, unread, message>>

ProducerGoesOn ==
  /\ producer = "spin" /\ SlotFree
  /\ producer' = "input"
  /\ UNCHANGED <<barrier, in, typed, consumerVars, unread, message>>

\* Without the barrier the compiler may read the flag once and spin for ever.
ProducerHangs ==
  /\ producer = "spin" /\ ~SlotFree /\ ~barrier
  /\ producer' = "hung"
  /\ UNCHANGED <<barrier, in, typed, consumerVars, unread, message>>

\* The user types a message, or an empty line.
Input ==
  /\ producer = "input"
  /\ \/ /\ typed < MaxTyped
        /\ producer' = "publish" /\ typed' = typed + 1
     \/ producer' = "ended" /\ UNCHANGED typed
  /\ UNCHANGED <<barrier, in, consumerVars, unread, message>>

Publish ==
  /\ producer = "publish"
  /\ unread' = [unread EXCEPT ![in] = TRUE]
  /\ producer' = "copy"
  /\ UNCHANGED <<barrier, in, typed, consumerVars, message>>

\* strncpy writes over the old text, part by part.
CopyPart ==
  /\ producer = "copy"
  /\ \E part \in Parts :
       /\ message[in][part] # typed
       /\ message' = [message EXCEPT ![in][part] = typed]
  /\ UNCHANGED <<barrier, producerVars, consumerVars, unread>>

EndCopy ==
  /\ producer = "copy"
  /\ \A part \in Parts : message[in][part] = typed
  /\ in' = NEXT(in)
  /\ producer' = "test"
  /\ UNCHANGED <<barrier, typed, consumerVars, unread, message>>

(***************************************************************************)
(* The consumer.                                                           *)
(***************************************************************************)

\* Slip in Arrived: the consumer does not look at the flag.
AlwaysArrived == TRUE

Arrived == unread[out]

ConsumerTest ==
  /\ consumer = "test"
  /\ consumer' = IF Arrived THEN "print" ELSE "spin"
  /\ UNCHANGED <<barrier, producerVars, out, text, printed, unread, message>>

ConsumerGoesOn ==
  /\ consumer = "spin" /\ Arrived
  /\ consumer' = "print"
  /\ UNCHANGED <<barrier, producerVars, out, text, printed, unread, message>>

ConsumerHangs ==
  /\ consumer = "spin" /\ ~Arrived /\ ~barrier
  /\ consumer' = "hung"
  /\ UNCHANGED <<barrier, producerVars, out, text, printed, unread, message>>

\* printf reads the slot as long as it takes.
ReadPart ==
  /\ consumer = "print"
  /\ \E part \in Parts :
       /\ text[part] = NotRead
       /\ text' = [text EXCEPT ![part] = message[out][part]]
  /\ UNCHANGED <<barrier, producerVars, consumer, out, printed, unread, message>>

EndPrint ==
  /\ consumer = "print"
  /\ \A part \in Parts : text[part] # NotRead
  /\ printed' = printed + 1
  /\ consumer' = "free"
  /\ UNCHANGED <<barrier, producerVars, out, text, unread, message>>

ClearFlag ==
  /\ consumer = "free"
  /\ unread' = [unread EXCEPT ![out] = FALSE]
  /\ text' = [part \in Parts |-> NotRead]
  /\ consumer' = "test"
  /\ UNCHANGED <<barrier, producerVars, printed, message>>

\* Slip in Free: the consumer stays at its slot.
FreeAndStay == ClearFlag /\ UNCHANGED out

Free == ClearFlag /\ out' = NEXT(out)

\* A process that spins, and one that has ended, change nothing.
Spinning == consumer \in {"spin", "hung"} /\ UNCHANGED vars

ProducerStep ==
  \/ ProducerTest \/ ProducerGoesOn \/ ProducerHangs
  \/ Publish \/ CopyPart \/ EndCopy

ConsumerStep ==
  \/ ConsumerTest \/ ConsumerGoesOn \/ ConsumerHangs
  \/ ReadPart \/ EndPrint \/ Free

Next == Input \/ ProducerStep \/ ConsumerStep \/ Spinning

\* Both processes run; nothing makes the user type.
Fairness == WF_vars(ProducerStep) /\ WF_vars(ConsumerStep)

Spec == Init /\ [][Next]_vars

FairSpec == Spec /\ Fairness

(***************************************************************************)
(* Properties.                                                             *)
(***************************************************************************)

\* Messages whose flag has been set, and slots whose flag has been reset.
Published == IF producer = "publish" THEN typed - 1 ELSE typed
Freed     == IF consumer = "free" THEN printed - 1 ELSE printed

\* The message that was in message k's slot one round before; 0 is none.
Previous(k) == IF k > MAX_MESSAGES THEN k - MAX_MESSAGES ELSE 0

Wrap(index) == IF index < MAX_MESSAGES THEN index ELSE index - MAX_MESSAGES

\* The flags show which messages are in the ring: those from the consumer's slot
\* on, as many as are published and not yet freed, and there is never one more
\* than fits.  No message is written over, none is taken twice
\* (shm_anonymous.c:45 and :64, the two tests of the flag).
FlagsCountMessages ==
  /\ Published - Freed \in 0 .. MAX_MESSAGES
  /\ \A j \in 0 .. MAX_MESSAGES - 1 :
       unread[Wrap(out + j)] <=> j < Published - Freed

\* Because the flag is set before the text is copied (shm_anonymous.c:76), what
\* is printed k-th can be a mix of message k and of what was in the slot before,
\* in any proportion; but it has no part of another message: none later, and of
\* those before only the one that was printed a round ago.
PrintedInOrder ==
  LET k == Freed + 1
  IN  \A part \in Parts : text[part] \in {NotRead, k, Previous(k)}

\* A part is read wrong only while the producer is between its flag and the end
\* of that very text: a consumer that comes to a part later gets what was typed.
WrongOnlyWhileCopied ==
  [][\A part \in Parts :
       text'[part] \notin {text[part], NotRead, printed + 1} =>
         producer = "copy" /\ typed = printed + 1]_vars

\* With the barrier neither process waits in vain: every message is printed.
EveryMessageIsPrinted ==
  \A k \in 1 .. MaxTyped : barrier /\ typed >= k ~> printed >= k

=============================================================================

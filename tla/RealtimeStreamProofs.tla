------------------------- MODULE RealtimeStreamProofs -------------------------
(***************************************************************************)
(* What a producer puts into the channel of its stream, for every text and *)
(* whatever the consumer does: lemmas for the modules that prove something *)
(* of a system built on RealtimeStream.                                    *)
(*                                                                         *)
(* Order is stated relative to the places a consumer was already given (G) *)
(* and a text (W, the set of its places): InOrder says that the items of a *)
(* channel continue G without a gap and without a repetition, and OnCourse *)
(* that the producer will keep it so.  Both speak of values, not of the    *)
(* state, so that they can be cited for the state after a step.            *)
(***************************************************************************)
EXTENDS RealtimeStream, TLAPS

Places(c) == {c[j].at : j \in DOMAIN c}

(* x may be given next to a consumer that was given G: nothing of the text *)
(* is left out before it, and all that was given comes before it.  Only an *)
(* error may be at a place the text does not have.                         *)
Follows(x, G, W) ==
  /\ x.ok => x.at \in W
  /\ \A q \in W : Before(q, x.at) => q \in G
  /\ \A q \in G : Before(q, x.at)

InOrder(c, G, W) ==
  \A k \in DOMAIN c : Follows(c[k], G \cup {c[j].at : j \in 1 .. k - 1}, W)

HasError(c) == \E j \in DOMAIN c : ~c[j].ok

Cursor(p) == <<p.sent, p.chunk>>

(* Where a producer that is speaking the text t may be; x says whether its *)
(* token is set.                                                           *)
CursorInv(t, p, x) ==
  /\ p.pc # "none"
  /\ p.pc = "queued" => p.sent = 1
  /\ p.pc \in {"queued", "sentence", "open"} => p.chunk = 1
  /\ p.pc \in {"open", "pull", "check", "send", "tail", "silence"} => p.sent <= Len(t)
  /\ p.pc \in {"pull", "tail"} => p.chunk <= t[p.sent] + 1
  /\ p.pc \in {"check", "send"} => p.chunk <= t[p.sent]
  /\ p.pc = "tail" => x \/ p.chunk = t[p.sent] + 1
  /\ p.pc = "silence" => p.chunk = t[p.sent] + 1 /\ t \in AppendsSilence

(* Points at which a producer will still speak from its cursor on. *)
Speaks(p, x) ==
  \/ p.pc \in {"queued", "open", "pull", "check", "send", "silence"}
  \/ p.pc \in {"sentence", "tail"} /\ ~x

(* The state of a stream whose consumer holds the receiver and was given   *)
(* G, with an error among them if e.                                       *)
OnCourse(t, p, c, x, G, e) ==
  LET W == RealtimeItems[t]
      D == G \cup Places(c)
  IN /\ InOrder(c, G, W)
     /\ CursorInv(t, p, x)
     /\ p.pc # "gone" => \A q \in D : Before(q, Cursor(p))
     /\ Speaks(p, x) => \A q \in W : Before(q, Cursor(p)) => q \in D
     /\ p.pc = "gone" => W \subseteq D \/ x \/ e \/ HasError(c)

-----------------------------------------------------------------------------
(* The order of places, and the places of a text.                          *)

(* What a listener has heard once one more item is appended. *)
LEMMA AppendAdds ==
  ASSUME NEW S, NEW seq \in Seq(S), NEW e \in S, NEW longer, longer = Append(seq, e)
  PROVE  /\ {longer[k] : k \in DOMAIN longer} = {seq[k] : k \in DOMAIN seq} \cup {e}
         /\ Len(seq) \in Nat /\ Len(longer) = Len(seq) + 1
<1>1. /\ Len(seq) \in Nat /\ Len(longer) = Len(seq) + 1
      /\ DOMAIN longer = 1 .. Len(seq) + 1 /\ DOMAIN seq = 1 .. Len(seq)
  OBVIOUS
<1>2. longer[Len(seq) + 1] = e /\ \A k \in DOMAIN seq : longer[k] = seq[k]
  OBVIOUS
<1>3. ASSUME NEW k \in DOMAIN longer
      PROVE  k \in DOMAIN seq \/ k = Len(seq) + 1
  BY <1>1
<1>4. DOMAIN seq \subseteq DOMAIN longer /\ Len(seq) + 1 \in DOMAIN longer
  BY <1>1
<1>5. {longer[k] : k \in DOMAIN longer} \subseteq {seq[k] : k \in DOMAIN seq} \cup {e}
  BY <1>2, <1>3
<1>6. {seq[k] : k \in DOMAIN seq} \cup {e} \subseteq {longer[k] : k \in DOMAIN longer}
  BY <1>2, <1>4
<1> QED
  BY <1>1, <1>5, <1>6

LEMMA OrderOfPlaces ==
  ASSUME NEW p \in Positions, NEW q \in Positions, NEW r \in Positions
  PROVE  /\ ~Before(p, p)
         /\ Before(p, q) /\ Before(q, r) => Before(p, r)
         /\ p # q => Before(p, q) \/ Before(q, p)
  BY DEF Positions, Before

LastItem(t, i) == IF t \in AppendsSilence THEN t[i] + 1 ELSE t[i]

LEMMA PlacesOfText ==
  ASSUME NEW t \in Texts
  PROVE  /\ t \in Seq(Nat)
         /\ RealtimeItems[t] \subseteq Positions
         /\ \A q \in RealtimeItems[t] : /\ q[1] \in 1 .. Len(t)
                                        /\ q[2] \in 1 .. LastItem(t, q[1])
         /\ \A i \in 1 .. Len(t) : \A k \in 1 .. LastItem(t, i) :
              <<i, k>> \in RealtimeItems[t]
<1>1. t \in Seq(Nat)
  BY TextsAssumption
<1>2. RealtimeItems[t] = UNION {{i} \X (1 .. LastItem(t, i)) : i \in 1 .. Len(t)}
  BY DEF RealtimeItems, LastItem
<1>3. \A i \in 1 .. Len(t) : LastItem(t, i) \in Nat /\ i \in Nat \ {0}
  BY <1>1 DEF LastItem
<1>4. ASSUME NEW q \in RealtimeItems[t]
      PROVE  /\ q \in Positions
             /\ q[1] \in 1 .. Len(t)
             /\ q[2] \in 1 .. LastItem(t, q[1])
  <2>1. PICK i \in 1 .. Len(t) : q \in {i} \X (1 .. LastItem(t, i))
    BY <1>2
  <2>2. q = <<i, q[2]>> /\ q[2] \in 1 .. LastItem(t, i)
    BY <2>1
  <2>3. q[1] = i /\ q[2] \in Nat
    BY <2>2, <1>3
  <2> QED
    BY <1>3, <2>2, <2>3 DEF Positions
<1>5. ASSUME NEW i \in 1 .. Len(t), NEW k \in 1 .. LastItem(t, i)
      PROVE  <<i, k>> \in RealtimeItems[t]
  <2>1. <<i, k>> \in {i} \X (1 .. LastItem(t, i))
    OBVIOUS
  <2> QED
    BY <1>2, <2>1
<1> QED
  BY <1>1, <1>4, <1>5

-----------------------------------------------------------------------------
(* The channel, as items are put in at its end and taken from its head.    *)

LEMMA AppendInOrder ==
  ASSUME NEW c \in Seq(Items), NEW x \in Items, NEW G, NEW W,
         InOrder(c, G, W), Follows(x, G \cup Places(c), W)
  PROVE  /\ InOrder(Append(c, x), G, W)
         /\ Places(Append(c, x)) = Places(c) \cup {x.at}
         /\ HasError(Append(c, x)) <=> HasError(c) \/ ~x.ok
<1> DEFINE d == Append(c, x)
<1>1. /\ d \in Seq(Items) /\ Len(d) = Len(c) + 1 /\ Len(c) \in Nat
      /\ d[Len(c) + 1] = x
      /\ \A j \in 1 .. Len(c) : d[j] = c[j]
      /\ DOMAIN d = 1 .. Len(c) + 1 /\ DOMAIN c = 1 .. Len(c)
  OBVIOUS
<1> HIDE DEF d
<1>2. \A j \in DOMAIN d : j \in DOMAIN c \/ j = Len(c) + 1
  BY <1>1
<1>3. Places(d) = Places(c) \cup {x.at}
  BY <1>1, <1>2 DEF Places
<1>4. HasError(d) <=> HasError(c) \/ ~x.ok
  BY <1>1, <1>2 DEF HasError
<1>5. ASSUME NEW k \in DOMAIN d
      PROVE  Follows(d[k], G \cup {d[j].at : j \in 1 .. k - 1}, W)
  <2>1. CASE k \in DOMAIN c
    <3>1. \A j \in 1 .. k - 1 : d[j] = c[j]
      BY <1>1, <2>1
    <3>2. {d[j].at : j \in 1 .. k - 1} = {c[j].at : j \in 1 .. k - 1}
      BY <3>1
    <3> QED
      BY <1>1, <2>1, <3>2 DEF InOrder
  <2>2. CASE k = Len(c) + 1
    <3>1. 1 .. k - 1 = DOMAIN c
      BY <1>1, <2>2
    <3>2. {d[j].at : j \in 1 .. k - 1} = Places(c)
      BY <1>1, <3>1 DEF Places
    <3> QED
      BY <1>1, <2>2, <3>2
  <2> QED
    BY <1>2, <2>1, <2>2
<1> QED
  BY <1>3, <1>4, <1>5 DEF InOrder, d

LEMMA TakeInOrder ==
  ASSUME NEW c \in Seq(Items), c # <<>>, NEW G, NEW W, InOrder(c, G, W)
  PROVE  /\ Head(c) \in Items /\ Tail(c) \in Seq(Items)
         /\ Follows(Head(c), G, W)
         /\ InOrder(Tail(c), G \cup {Head(c).at}, W)
         /\ Places(c) = {Head(c).at} \cup Places(Tail(c))
         /\ HasError(c) <=> ~Head(c).ok \/ HasError(Tail(c))
<1> DEFINE d == Tail(c)
<1>1. /\ Len(c) \in Nat \ {0} /\ d \in Seq(Items) /\ Len(d) = Len(c) - 1
      /\ c[1] = Head(c) /\ Head(c) \in Items
      /\ \A j \in 1 .. Len(c) - 1 : d[j] = c[j + 1]
      /\ DOMAIN d = 1 .. Len(c) - 1 /\ DOMAIN c = 1 .. Len(c)
  OBVIOUS
<1> HIDE DEF d
<1>2. \A j \in DOMAIN c : j = 1 \/ (j - 1 \in DOMAIN d /\ d[j - 1] = c[j])
  BY <1>1
<1>3. \A j \in DOMAIN d : j + 1 \in DOMAIN c /\ d[j] = c[j + 1]
  BY <1>1
<1>4. Places(c) = {Head(c).at} \cup Places(d)
  <2>1. ASSUME NEW j \in DOMAIN c PROVE c[j].at = Head(c).at \/ c[j].at \in Places(d)
    BY <1>1, <1>2, <2>1 DEF Places
  <2>2. 1 \in DOMAIN c /\ c[1].at \in Places(c)
    BY <1>1 DEF Places
  <2>3. ASSUME NEW j \in DOMAIN d PROVE d[j].at \in Places(c)
    BY <1>3, <2>3 DEF Places
  <2>4. Places(c) \subseteq {Head(c).at} \cup Places(d)
    BY <2>1 DEF Places
  <2>5. Places(d) \subseteq Places(c)
    BY <2>3 DEF Places
  <2> QED
    BY <1>1, <2>2, <2>4, <2>5
<1>5. HasError(c) <=> ~Head(c).ok \/ HasError(d)
  <2>1. 1 \in DOMAIN c
    BY <1>1
  <2> QED
    BY <1>1, <1>2, <1>3, <2>1 DEF HasError
<1>6. Follows(Head(c), G, W)
  <2>1. 1 \in DOMAIN c
    BY <1>1
  <2>2. G \cup {c[j].at : j \in 1 .. 1 - 1} = G
    OBVIOUS
  <2> QED
    BY <1>1, <2>1, <2>2 DEF InOrder
<1>7. ASSUME NEW k \in DOMAIN d
      PROVE  Follows(d[k], (G \cup {Head(c).at}) \cup {d[j].at : j \in 1 .. k - 1}, W)
  <2>1. k \in Nat \ {0} /\ k + 1 \in DOMAIN c /\ d[k] = c[k + 1]
    BY <1>1, <1>3
  <2>2. Follows(c[k + 1], G \cup {c[j].at : j \in 1 .. (k + 1) - 1}, W)
    BY <2>1 DEF InOrder
  <2>3. {c[j].at : j \in 1 .. (k + 1) - 1} = {Head(c).at} \cup {d[j].at : j \in 1 .. k - 1}
    <3>1. \A j \in 1 .. (k + 1) - 1 : j = 1 \/ (j - 1 \in 1 .. k - 1 /\ d[j - 1] = c[j])
      BY <1>2, <1>1, <2>1
    <3>2. \A j \in 1 .. k - 1 : j + 1 \in 1 .. (k + 1) - 1 /\ d[j] = c[j + 1]
      BY <1>1, <2>1
    <3>3. 1 \in 1 .. (k + 1) - 1
      BY <2>1
    <3> QED
      BY <1>1, <3>1, <3>2, <3>3
  <2>4. G \cup {c[j].at : j \in 1 .. (k + 1) - 1}
          = (G \cup {Head(c).at}) \cup {d[j].at : j \in 1 .. k - 1}
    BY <2>3
  <2> QED
    BY <2>1, <2>2, <2>4
<1> QED
  BY <1>1, <1>4, <1>5, <1>6, <1>7 DEF InOrder, d

-----------------------------------------------------------------------------
(* Types.                                                                  *)

(* What a producer hands over is an item. *)
LEMMA PushType ==
  ASSUME StreamTypeOK, NEW s \in Streams, NEW ok \in BOOLEAN
  PROVE  /\ Result(s, ok) \in Items
         /\ Push(s, ok) => chan' \in [Streams -> Seq(Items)]
<1>1. Result(s, ok) \in Items
  BY DEF StreamTypeOK, Result, Items, Positions, Producers
<1>2. chan[s] \in Seq(Items)
  BY DEF StreamTypeOK
<1>3. Append(chan[s], Result(s, ok)) \in Seq(Items)
  BY <1>1, <1>2
<1> QED
  BY <1>1, <1>3 DEF Push, StreamTypeOK

(* A producer changes its program point, its sentence or its chunk. *)
LEMMA ProducerRecordType ==
  /\ NoProducer \in Producers
  /\ \A r \in Producers, pc \in ProducerPoints : [r EXCEPT !.pc = pc] \in Producers
  /\ \A r \in Producers, ok \in BOOLEAN :
       [r EXCEPT !.pc = "check", !.ok = ok] \in Producers
  /\ \A r \in Producers :
       [r EXCEPT !.pc = "pull", !.chunk = @ + 1, !.ok = TRUE] \in Producers
  /\ \A r \in Producers :
       [NoProducer EXCEPT !.pc = "sentence", !.sent = r.sent + 1] \in Producers
<1> USE DEF Producers
<1>1. NoProducer \in Producers
  BY DEF NoProducer, ProducerPoints
<1>2. ASSUME NEW r \in Producers, NEW pc \in ProducerPoints
      PROVE  [r EXCEPT !.pc = pc] \in Producers
  OBVIOUS
<1>3. ASSUME NEW r \in Producers, NEW ok \in BOOLEAN
      PROVE  [r EXCEPT !.pc = "check", !.ok = ok] \in Producers
  BY DEF ProducerPoints
<1>4. ASSUME NEW r \in Producers
      PROVE  [r EXCEPT !.pc = "pull", !.chunk = @ + 1, !.ok = TRUE] \in Producers
  <2>1. r.chunk + 1 \in Nat \ {0}
    OBVIOUS
  <2> QED
    BY <2>1 DEF ProducerPoints
<1>5. ASSUME NEW r \in Producers
      PROVE  [NoProducer EXCEPT !.pc = "sentence", !.sent = r.sent + 1] \in Producers
  <2>1. r.sent + 1 \in Nat \ {0}
    OBVIOUS
  <2>2. "sentence" \in ProducerPoints
    BY DEF ProducerPoints
  <2> QED
    BY <1>1, <2>1, <2>2
<1> QED
  BY <1>1, <1>2, <1>3, <1>4, <1>5

(* The ways a producer closure moves on. *)
LEMMA ProducerMoveType ==
  ASSUME StreamTypeOK, NEW s \in Streams,
         \/ Return(s)
         \/ LeaveSentence(s)
         \/ \E pc \in ProducerPoints : Go(s, pc)
  PROVE  /\ producer' \in [Streams -> Producers]
         /\ running' \subseteq running
<1>1. producer \in [Streams -> Producers]
  BY DEF StreamTypeOK
<1>2. CASE Return(s)
  <2>1. [NoProducer EXCEPT !.pc = "gone"] \in Producers
    BY ProducerRecordType DEF ProducerPoints
  <2> QED
    BY <1>1, <1>2, <2>1 DEF Return
<1>3. CASE LeaveSentence(s)
  BY <1>1, <1>3, ProducerRecordType DEF LeaveSentence
<1>4. CASE \E pc \in ProducerPoints : Go(s, pc)
  <2>1. PICK pc \in ProducerPoints : Go(s, pc)
    BY <1>4
  <2>2. [producer[s] EXCEPT !.pc = pc] \in Producers
    BY <1>1, ProducerRecordType
  <2> QED
    BY <1>1, <2>1, <2>2 DEF Go
<1> QED
  BY <1>2, <1>3, <1>4

LEMMA StreamStepType ==
  ASSUME StreamTypeOK, NEW s \in Streams, ProducerStep(s)
  PROVE  StreamTypeOK' /\ running' \subseteq running /\ queued' = queued
<1> SUFFICES /\ producer' \in [Streams -> Producers]
             /\ running' \subseteq running
             /\ chan' \in [Streams -> Seq(Items)]
             /\ UNCHANGED <<text, receiver, cancelled, queued>>
  BY DEF StreamTypeOK
<1> USE DEF ProducerPoints
<1>1. CASE LoopHead(s)
  BY <1>1, ProducerMoveType DEF LoopHead, StreamTypeOK
<1>2. CASE OpenStream(s)
  <2>1. chan' \in [Streams -> Seq(Items)]
    BY <1>2, PushType DEF OpenStream, StreamTypeOK
  <2> QED
    BY <1>2, <2>1, ProducerMoveType DEF OpenStream
<1>3. CASE PullChunk(s)
  <2>1. CASE \E ok \in BOOLEAN :
               /\ producer' = [producer EXCEPT ![s].pc = "check", ![s].ok = ok]
               /\ UNCHANGED running
    <3>1. PICK ok \in BOOLEAN :
            producer' = [producer EXCEPT ![s].pc = "check", ![s].ok = ok]
      BY <2>1
    <3>2. [producer[s] EXCEPT !.pc = "check", !.ok = ok] \in Producers
      BY ProducerRecordType DEF StreamTypeOK
    <3> QED
      BY <1>3, <2>1, <3>1, <3>2 DEF PullChunk, StreamTypeOK
  <2>2. CASE Go(s, "tail")
    BY <1>3, <2>2, ProducerMoveType DEF PullChunk, StreamTypeOK
  <2> QED
    BY <1>3, <2>1, <2>2 DEF PullChunk
<1>4. CASE CheckChunk(s)
  BY <1>4, ProducerMoveType DEF CheckChunk, StreamTypeOK
<1>5. CASE SendChunk(s)
  <2>1. CASE receiver[s] = "open"
    <3>1. producer[s].ok \in BOOLEAN
      BY DEF StreamTypeOK, Producers
    <3>2. chan' \in [Streams -> Seq(Items)]
      BY <1>5, <2>1, <3>1, PushType DEF SendChunk
    <3>3. producer' \in [Streams -> Producers]
      <4>1. [producer[s] EXCEPT !.pc = "pull", !.chunk = @ + 1, !.ok = TRUE] \in Producers
        BY ProducerRecordType DEF StreamTypeOK
      <4> QED
        BY <1>5, <2>1, <4>1 DEF SendChunk, StreamTypeOK
    <3> QED
      BY <1>5, <2>1, <3>2, <3>3 DEF SendChunk
  <2>2. CASE receiver[s] # "open"
    BY <1>5, <2>2, ProducerMoveType DEF SendChunk, StreamTypeOK
  <2> QED
    BY <2>1, <2>2
<1>6. CASE EndSentence(s)
  BY <1>6, ProducerMoveType DEF EndSentence, StreamTypeOK
<1>7. CASE SendSilence(s)
  <2>1. chan' \in [Streams -> Seq(Items)]
    BY <1>7, PushType DEF SendSilence, StreamTypeOK
  <2> QED
    BY <1>7, <2>1, ProducerMoveType DEF SendSilence
<1> QED
  BY <1>1, <1>2, <1>3, <1>4, <1>5, <1>6, <1>7 DEF ProducerStep

-----------------------------------------------------------------------------
(* The course of a producer.                                               *)

Spoken(t, p, c, x, G, e) ==
  /\ t \in Texts /\ p \in Producers /\ c \in Seq(Items)
  /\ x \in BOOLEAN /\ e \in BOOLEAN /\ G \subseteq Positions
  /\ OnCourse(t, p, c, x, G, e)

LEMMA SpokenPlaces ==
  ASSUME NEW t, NEW p, NEW c, NEW x, NEW G, NEW e, Spoken(t, p, c, x, G, e)
  PROVE  /\ Cursor(p) \in Positions
         /\ p.sent \in Nat \ {0} /\ p.chunk \in Nat \ {0}
         /\ G \cup Places(c) \subseteq Positions
<1>1. p.sent \in Nat \ {0} /\ p.chunk \in Nat \ {0}
  BY DEF Spoken, Producers
<1>2. Cursor(p) \in Positions
  BY <1>1 DEF Cursor, Positions
<1>3. ASSUME NEW j \in DOMAIN c PROVE c[j].at \in Positions
  <2>1. c[j] \in Items
    BY DEF Spoken
  <2> QED
    BY <2>1 DEF Items
<1> QED
  BY <1>1, <1>2, <1>3 DEF Spoken, Places

LEMMA InSentence ==
  ASSUME NEW t, NEW p, NEW c, NEW x, NEW G, NEW e, Spoken(t, p, c, x, G, e)
  PROVE  /\ t \in Texts /\ t \in Seq(Nat) /\ CursorInv(t, p, x)
         /\ p.pc \in {"open", "pull", "check", "send", "tail", "silence"} =>
              p.sent \in 1 .. Len(t) /\ t[p.sent] \in Nat
<1>1. t \in Texts /\ t \in Seq(Nat) /\ CursorInv(t, p, x)
  BY PlacesOfText DEF Spoken, OnCourse
<1>2. p.pc \in {"open", "pull", "check", "send", "tail", "silence"} => p.sent <= Len(t)
  BY <1>1 DEF CursorInv
<1>3. p.pc \in {"open", "pull", "check", "send", "tail", "silence"} => p.sent \in 1 .. Len(t)
  BY <1>1, <1>2, SpokenPlaces
<1> QED
  BY <1>1, <1>3

(* A step from one point to another that leaves the cursor where it is. *)
LEMMA SameCursor ==
  ASSUME NEW t, NEW p, NEW c, NEW x, NEW G, NEW e, Spoken(t, p, c, x, G, e),
         NEW r \in Producers, r.sent = p.sent, r.chunk = p.chunk,
         p.pc # "gone", r.pc # "gone",
         CursorInv(t, r, x), Speaks(r, x) => Speaks(p, x)
  PROVE  OnCourse(t, r, c, x, G, e)
<1>1. Cursor(r) = Cursor(p)
  BY DEF Cursor
<1> QED
  BY <1>1 DEF Spoken, OnCourse

AfterSentence(p) == [NoProducer EXCEPT !.pc = "sentence", !.sent = p.sent + 1]

(* What lies before the next sentence. *)
LEMMA BeforeNext ==
  ASSUME NEW t \in Texts, NEW p \in Producers
  PROVE  /\ AfterSentence(p) \in Producers /\ AfterSentence(p).pc = "sentence"
         /\ Cursor(AfterSentence(p)) = <<p.sent + 1, 1>>
         /\ Cursor(p) \in Positions
         /\ Before(Cursor(p), <<p.sent + 1, 1>>)
         /\ \A q \in Positions : Before(q, Cursor(p)) => Before(q, <<p.sent + 1, 1>>)
         /\ \A q \in RealtimeItems[t] :
              Before(q, <<p.sent + 1, 1>>) =>
                \/ Before(q, Cursor(p))
                \/ q[1] = p.sent /\ q[2] >= p.chunk /\ q[2] <= LastItem(t, p.sent)
<1>1. /\ p.sent \in Nat \ {0} /\ p.chunk \in Nat \ {0}
      /\ AfterSentence(p) \in Producers
  BY ProducerRecordType DEF Producers, AfterSentence
<1>2. Cursor(AfterSentence(p)) = <<p.sent + 1, 1>> /\ AfterSentence(p).pc = "sentence"
  BY DEF AfterSentence, NoProducer, Cursor
<1>3. Cursor(p) \in Positions /\ Before(Cursor(p), <<p.sent + 1, 1>>)
  BY <1>1 DEF Cursor, Positions, Before
<1>4. ASSUME NEW q \in Positions, Before(q, Cursor(p)) PROVE Before(q, <<p.sent + 1, 1>>)
  BY <1>1, <1>4 DEF Cursor, Positions, Before
<1>5. ASSUME NEW q \in RealtimeItems[t], Before(q, <<p.sent + 1, 1>>)
      PROVE  \/ Before(q, Cursor(p))
             \/ q[1] = p.sent /\ q[2] >= p.chunk /\ q[2] <= LastItem(t, p.sent)
  <2>1. q \in Positions /\ q[1] \in Nat /\ q[2] \in Nat \ {0}
    BY PlacesOfText DEF Positions
  <2>2. q[2] <= LastItem(t, q[1])
    <3>1. q[2] \in 1 .. LastItem(t, q[1]) /\ q[1] \in 1 .. Len(t) /\ t \in Seq(Nat)
      BY PlacesOfText
    <3>2. LastItem(t, q[1]) \in Nat
      BY <3>1 DEF LastItem
    <3> QED
      BY <3>1, <3>2
  <2>3. q[1] < p.sent + 1
    BY <1>5, <2>1, <1>1 DEF Before
  <2>4. CASE q[1] < p.sent
    BY <2>4 DEF Before, Cursor
  <2>5. CASE q[1] = p.sent
    BY <2>5, <2>1, <2>2, <1>1 DEF Before, Cursor
  <2> QED
    BY <2>1, <2>3, <2>4, <2>5, <1>1
<1> QED
  BY <1>1, <1>2, <1>3, <1>4, <1>5

(* The sentence is left, with nothing more of it to be spoken. *)
LEMMA LeaveOnCourse ==
  ASSUME NEW t, NEW p, NEW c, NEW x, NEW G, NEW e, Spoken(t, p, c, x, G, e),
         \/ p.pc \in {"check", "tail"} /\ x
         \/ p.pc = "tail" /\ t \notin AppendsSilence
  PROVE  OnCourse(t, AfterSentence(p), c, x, G, e)
<1> DEFINE W == RealtimeItems[t]
           D == G \cup Places(c)
           r == AfterSentence(p)
<1>1. t \in Texts /\ p \in Producers
  BY DEF Spoken
<1>2. r.pc = "sentence" /\ Cursor(r) = <<p.sent + 1, 1>> /\ r.chunk = 1
  BY <1>1, BeforeNext DEF AfterSentence, NoProducer
<1>3. CursorInv(t, r, x)
  BY <1>2 DEF CursorInv
<1>4. ASSUME NEW q \in D PROVE Before(q, Cursor(r))
  <2>1. q \in Positions
    BY SpokenPlaces
  <2>2. Before(q, Cursor(p))
    BY DEF Spoken, OnCourse
  <2> QED
    BY <1>1, <1>2, <2>1, <2>2, BeforeNext
<1>5. ASSUME ~x, NEW q \in W, Before(q, Cursor(r))
      PROVE  q \in D
  <2>1. p.pc = "tail" /\ t \notin AppendsSilence /\ p.chunk = t[p.sent] + 1
    BY <1>5, InSentence DEF CursorInv
  <2>2. LastItem(t, p.sent) = t[p.sent]
    BY <2>1 DEF LastItem
  <2>3. t[p.sent] \in Nat
    BY <2>1, InSentence
  <2>4. q[2] \in Nat
    BY <1>1, <1>5, PlacesOfText DEF Positions
  <2>5. Before(q, Cursor(p)) \/ (q[2] >= p.chunk /\ q[2] <= LastItem(t, p.sent))
    BY <1>1, <1>2, <1>5, BeforeNext
  <2>6. Before(q, Cursor(p))
    BY <2>1, <2>2, <2>3, <2>4, <2>5
  <2> QED
    BY <1>5, <2>1, <2>6 DEF Spoken, OnCourse, Speaks
<1> HIDE DEF r
<1> QED
  BY <1>2, <1>3, <1>4, <1>5 DEF Spoken, OnCourse, Speaks, r

(* An item at the cursor is put into the channel. *)
LEMMA PushInOrder ==
  ASSUME NEW t, NEW p, NEW c, NEW x, NEW G, NEW e, Spoken(t, p, c, x, G, e),
         NEW i \in Items, i.at = Cursor(p),
         \/ p.pc \in {"send", "silence"}
         \/ p.pc = "open" /\ ~i.ok
  PROVE  /\ InOrder(Append(c, i), G, RealtimeItems[t])
         /\ Append(c, i) \in Seq(Items)
         /\ G \cup Places(Append(c, i)) = (G \cup Places(c)) \cup {Cursor(p)}
         /\ HasError(Append(c, i)) <=> HasError(c) \/ ~i.ok
<1>1. c \in Seq(Items) /\ InOrder(c, G, RealtimeItems[t])
  BY DEF Spoken, OnCourse
<1>2. Follows(i, G \cup Places(c), RealtimeItems[t])
  <2>1. ASSUME i.ok PROVE i.at \in RealtimeItems[t]
    <3>1. p.pc \in {"send", "silence"}
      BY <2>1
    <3>2. t \in Texts /\ p.sent \in 1 .. Len(t) /\ t[p.sent] \in Nat /\ CursorInv(t, p, x)
      BY <3>1, InSentence
    <3>3. p.chunk \in Nat \ {0}
      BY SpokenPlaces
    <3>4. p.chunk \in 1 .. LastItem(t, p.sent)
      BY <3>1, <3>2, <3>3 DEF CursorInv, LastItem
    <3> QED
      BY <3>2, <3>4, PlacesOfText DEF Cursor
  <2>2. /\ \A q \in RealtimeItems[t] : Before(q, Cursor(p)) => q \in G \cup Places(c)
        /\ \A q \in G \cup Places(c) : Before(q, Cursor(p))
    BY DEF Spoken, OnCourse, Speaks
  <2> QED
    BY <2>1, <2>2 DEF Follows
<1> QED
  BY <1>1, <1>2, AppendInOrder

(* A chunk is sent. *)
LEMMA SendOnCourse ==
  ASSUME NEW t, NEW p, NEW c, NEW x, NEW G, NEW e, Spoken(t, p, c, x, G, e),
         p.pc = "send",
         NEW i \in Items, i.at = Cursor(p)
  PROVE  OnCourse(t, [p EXCEPT !.pc = "pull", !.chunk = @ + 1, !.ok = TRUE],
                  Append(c, i), x, G, e)
<1> DEFINE W == RealtimeItems[t]
           D == G \cup Places(c)
           r == [p EXCEPT !.pc = "pull", !.chunk = @ + 1, !.ok = TRUE]
           F == G \cup Places(Append(c, i))
<1>1. /\ p.sent \in Nat \ {0} /\ p.chunk \in Nat \ {0} /\ p \in Producers
      /\ Cursor(p) \in Positions /\ D \subseteq Positions
      /\ t \in Texts /\ W \subseteq Positions /\ t[p.sent] \in Nat
      /\ p.sent <= Len(t) /\ p.chunk <= t[p.sent]
  BY SpokenPlaces, InSentence, PlacesOfText DEF Spoken, CursorInv
<1>2. r.pc = "pull" /\ r.sent = p.sent /\ r.chunk = p.chunk + 1
  BY <1>1 DEF Producers
<1> HIDE DEF r
<1>3. CursorInv(t, r, x)
  BY <1>1, <1>2 DEF CursorInv
<1>4. Cursor(r) = <<p.sent, p.chunk + 1>>
  BY <1>2 DEF Cursor
<1>5. F = D \cup {Cursor(p)} /\ InOrder(Append(c, i), G, W)
  BY PushInOrder
<1>6. ASSUME NEW q \in F PROVE Before(q, Cursor(r))
  <2>1. q \in Positions /\ (q = Cursor(p) \/ Before(q, Cursor(p)))
    BY <1>1, <1>5 DEF Spoken, OnCourse
  <2> QED
    BY <1>1, <1>4, <2>1 DEF Before, Cursor, Positions
<1>7. ASSUME NEW q \in W, Before(q, Cursor(r)) PROVE q \in F
  <2>1. Before(q, Cursor(p)) \/ q = Cursor(p)
    BY <1>1, <1>4, <1>7 DEF Before, Cursor, Positions
  <2>2. Before(q, Cursor(p)) => q \in D
    BY DEF Spoken, OnCourse, Speaks
  <2> QED
    BY <1>5, <2>1, <2>2
<1> QED
  BY <1>2, <1>3, <1>5, <1>6, <1>7 DEF OnCourse, r

(* The silence after a sentence is sent, and the sentence is left. *)
LEMMA SilenceOnCourse ==
  ASSUME NEW t, NEW p, NEW c, NEW x, NEW G, NEW e, Spoken(t, p, c, x, G, e),
         p.pc = "silence",
         NEW i \in Items, i.at = Cursor(p)
  PROVE  OnCourse(t, AfterSentence(p), Append(c, i), x, G, e)
<1> DEFINE W == RealtimeItems[t]
           D == G \cup Places(c)
           r == AfterSentence(p)
           F == G \cup Places(Append(c, i))
<1>1. /\ p.sent \in Nat \ {0} /\ p.chunk \in Nat \ {0} /\ p \in Producers
      /\ Cursor(p) \in Positions /\ D \subseteq Positions
      /\ t \in Texts /\ W \subseteq Positions
      /\ p.chunk = LastItem(t, p.sent)
  BY SpokenPlaces, InSentence, PlacesOfText DEF Spoken, CursorInv, LastItem
<1>2. r.pc = "sentence" /\ Cursor(r) = <<p.sent + 1, 1>> /\ r.chunk = 1
  BY <1>1, BeforeNext DEF AfterSentence, NoProducer
<1>3. CursorInv(t, r, x)
  BY <1>2 DEF CursorInv
<1>4. F = D \cup {Cursor(p)} /\ InOrder(Append(c, i), G, W)
  BY PushInOrder
<1>5. ASSUME NEW q \in F PROVE Before(q, Cursor(r))
  <2>1. q \in Positions /\ (q = Cursor(p) \/ Before(q, Cursor(p)))
    BY <1>1, <1>4 DEF Spoken, OnCourse
  <2> QED
    BY <1>1, <1>2, <2>1, BeforeNext
<1>6. ASSUME NEW q \in W, Before(q, Cursor(r)) PROVE q \in F
  <2>1. \/ Before(q, Cursor(p))
        \/ q[1] = p.sent /\ q[2] >= p.chunk /\ q[2] <= LastItem(t, p.sent)
    BY <1>1, <1>2, <1>6, BeforeNext
  <2>2. q = <<q[1], q[2]>> /\ q[2] \in Nat
    BY <1>1 DEF Positions
  <2>3. Before(q, Cursor(p)) \/ q = Cursor(p)
    BY <1>1, <2>1, <2>2 DEF Cursor
  <2>4. Before(q, Cursor(p)) => q \in D
    BY DEF Spoken, OnCourse, Speaks
  <2> QED
    BY <1>4, <2>3, <2>4
<1> HIDE DEF r
<1> QED
  BY <1>2, <1>3, <1>4, <1>5, <1>6 DEF OnCourse, r

(* The closure returns: at the end of the text, because it was cancelled,  *)
(* or because the next sentence could not be opened.                       *)
LEMMA ReturnOnCourse ==
  ASSUME NEW t, NEW p, NEW c, NEW x, NEW G, NEW e, Spoken(t, p, c, x, G, e),
         NEW r, r.pc = "gone",
         NEW d,
         \/ p.pc = "sentence" /\ d = c /\ (x \/ p.sent > Len(t))
         \/ p.pc = "open" /\ \E i \in Items : i.at = Cursor(p) /\ ~i.ok /\ d = Append(c, i)
  PROVE  OnCourse(t, r, d, x, G, e)
<1> DEFINE W == RealtimeItems[t]
<1>1. CursorInv(t, r, x) /\ ~Speaks(r, x)
  BY DEF CursorInv, Speaks
<1>2. CASE p.pc = "sentence" /\ d = c /\ (x \/ p.sent > Len(t))
  <2>1. ASSUME ~x PROVE W \subseteq G \cup Places(c)
    <3>1. p.sent > Len(t) /\ p.sent \in Nat \ {0} /\ t \in Texts
      BY <1>2, <2>1, SpokenPlaces, InSentence
    <3>2. ASSUME NEW q \in W PROVE Before(q, Cursor(p))
      BY <3>1, PlacesOfText DEF Before, Cursor
    <3> QED
      BY <1>2, <2>1, <3>2 DEF Spoken, OnCourse, Speaks
  <2> QED
    BY <1>1, <1>2, <2>1 DEF Spoken, OnCourse
<1>3. CASE p.pc = "open" /\ \E i \in Items : i.at = Cursor(p) /\ ~i.ok /\ d = Append(c, i)
  <2>1. PICK i \in Items : i.at = Cursor(p) /\ ~i.ok /\ d = Append(c, i)
    BY <1>3
  <2>2. InOrder(d, G, W) /\ HasError(d)
    BY <1>3, <2>1, PushInOrder
  <2> QED
    BY <1>1, <2>2 DEF OnCourse
<1> QED
  BY <1>2, <1>3

(* Whatever a producer does while its receiver is there, it stays on       *)
(* course for a consumer that was given G.                                 *)
LEMMA ProducerOnCourse ==
  ASSUME StreamTypeOK, NEW s \in Streams, ProducerStep(s), receiver[s] = "open",
         NEW G, NEW e, NEW x, x <=> s \in cancelled,
         Spoken(text[s], producer[s], chan[s], x, G, e)
  PROVE  Spoken(text[s], producer'[s], chan'[s], x, G, e)
<1> DEFINE t == text[s]
           p == producer[s]
           c == chan[s]
<1> SUFFICES OnCourse(t, producer'[s], chan'[s], x, G, e)
  BY StreamStepType DEF Spoken, StreamTypeOK
<1>1. /\ p \in Producers /\ producer'[s] \in Producers
      /\ p.sent \in Nat \ {0} /\ p.chunk \in Nat \ {0} /\ CursorInv(t, p, x)
      /\ producer \in [Streams -> Producers] /\ chan \in [Streams -> Seq(Items)]
  BY StreamStepType, SpokenPlaces, InSentence DEF StreamTypeOK
<1>2. \A ok \in BOOLEAN : Result(s, ok) \in Items /\ Result(s, ok).at = Cursor(p)
                          /\ Result(s, ok).ok = ok
  BY PushType DEF Result, Cursor
<1>3. ASSUME NEW ok \in BOOLEAN, Push(s, ok) PROVE chan'[s] = Append(c, Result(s, ok))
  BY <1>1, <1>3 DEF Push
<1>4. ASSUME NEW pc \in ProducerPoints \ {"gone"}, Go(s, pc), UNCHANGED chan, p.pc # "gone"
      PROVE  /\ producer'[s].pc = pc /\ producer'[s].sent = p.sent
             /\ producer'[s].chunk = p.chunk
             /\ CursorInv(t, producer'[s], x) /\ (Speaks(producer'[s], x) => Speaks(p, x))
                  => OnCourse(t, producer'[s], chan'[s], x, G, e)
  <2>1. /\ producer'[s].pc = pc /\ producer'[s].sent = p.sent
        /\ producer'[s].chunk = p.chunk
    BY <1>1, <1>4 DEF Go, Producers
  <2> QED
    BY <1>1, <1>4, <2>1, SameCursor
<1>5. ASSUME Return(s) PROVE producer'[s].pc = "gone"
  BY <1>1, <1>5 DEF Return, NoProducer
<1>6. ASSUME LeaveSentence(s) PROVE producer'[s] = AfterSentence(p)
  BY <1>1, <1>6 DEF LeaveSentence, AfterSentence
<1>7. CASE LoopHead(s)
  <2>1. p.pc = "sentence" /\ chan'[s] = c
    BY <1>7 DEF LoopHead, At
  <2>2. CASE Return(s)
    <3>1. Go(s, "open") => producer'[s].pc = "open"
      BY <1>1 DEF Go
    <3>2. x \/ p.sent > Len(t)
      BY <1>5, <1>7, <2>2, <3>1 DEF LoopHead
    <3> QED
      BY <1>5, <2>1, <2>2, <3>2, ReturnOnCourse
  <2>3. CASE ~x /\ p.sent <= Len(t) /\ Go(s, "open")
    <3>1. /\ producer'[s].pc = "open" /\ producer'[s].sent = p.sent
          /\ producer'[s].chunk = p.chunk /\ UNCHANGED chan
      BY <1>4, <1>7, <2>1, <2>3 DEF LoopHead, ProducerPoints
    <3>2. CursorInv(t, producer'[s], x) /\ Speaks(p, x)
      BY <1>1, <2>1, <2>3, <3>1 DEF CursorInv, Speaks
    <3> QED
      BY <1>4, <2>1, <2>3, <3>1, <3>2 DEF ProducerPoints
  <2> QED
    BY <1>7, <2>2, <2>3 DEF LoopHead
<1>8. CASE OpenStream(s)
  <2>1. p.pc = "open"
    BY <1>8 DEF OpenStream, At
  <2>2. CASE Go(s, "pull") /\ UNCHANGED chan
    <3>1. t[p.sent] \in Nat
      BY <2>1, InSentence
    <3>2. /\ producer'[s].pc = "pull" /\ producer'[s].sent = p.sent
          /\ producer'[s].chunk = p.chunk
      BY <1>4, <2>1, <2>2 DEF ProducerPoints
    <3>3. CursorInv(t, producer'[s], x) /\ Speaks(p, x)
      BY <1>1, <2>1, <3>1, <3>2 DEF CursorInv, Speaks
    <3> QED
      BY <1>4, <2>1, <2>2, <3>3 DEF ProducerPoints
  <2>3. CASE Push(s, FALSE) /\ Return(s)
    BY <1>2, <1>3, <1>5, <2>1, <2>3, ReturnOnCourse
  <2> QED
    BY <1>8, <2>2, <2>3 DEF OpenStream
<1>9. CASE PullChunk(s)
  <2>1. p.pc = "pull" /\ UNCHANGED chan /\ t[p.sent] \in Nat
    BY <1>9, InSentence DEF PullChunk, At
  <2>2. CASE /\ p.chunk <= t[p.sent]
             /\ \E ok \in BOOLEAN :
                  producer' = [producer EXCEPT ![s].pc = "check", ![s].ok = ok]
    <3>1. /\ producer'[s].pc = "check" /\ producer'[s].sent = p.sent
          /\ producer'[s].chunk = p.chunk
      BY <1>1, <2>2 DEF Producers
    <3>2. CursorInv(t, producer'[s], x) /\ Speaks(p, x)
      BY <1>1, <2>1, <2>2, <3>1 DEF CursorInv, Speaks
    <3> QED
      BY <1>1, <2>1, <3>1, <3>2, SameCursor
  <2>3. CASE (p.chunk > t[p.sent] \/ s \in cancelled) /\ Go(s, "tail")
    <3>1. x \/ p.chunk = t[p.sent] + 1
      BY <1>1, <2>1, <2>3 DEF CursorInv
    <3>2. /\ producer'[s].pc = "tail" /\ producer'[s].sent = p.sent
          /\ producer'[s].chunk = p.chunk
      BY <1>4, <2>1, <2>3 DEF ProducerPoints
    <3>3. CursorInv(t, producer'[s], x) /\ Speaks(p, x)
      BY <1>1, <2>1, <3>1, <3>2 DEF CursorInv, Speaks
    <3> QED
      BY <1>4, <2>1, <2>3, <3>3 DEF ProducerPoints
  <2> QED
    BY <1>9, <2>2, <2>3 DEF PullChunk
<1>10. CASE CheckChunk(s)
  <2>1. p.pc = "check" /\ UNCHANGED chan
    BY <1>10 DEF CheckChunk, At
  <2>2. CASE x /\ LeaveSentence(s)
    BY <1>6, <2>1, <2>2, LeaveOnCourse
  <2>3. CASE Go(s, "send")
    <3>1. /\ producer'[s].pc = "send" /\ producer'[s].sent = p.sent
          /\ producer'[s].chunk = p.chunk
      BY <1>4, <2>1, <2>3 DEF ProducerPoints
    <3>2. CursorInv(t, producer'[s], x) /\ Speaks(p, x)
      BY <1>1, <2>1, <2>3, <3>1 DEF CursorInv, Speaks
    <3> QED
      BY <1>4, <2>1, <2>3, <3>2 DEF ProducerPoints
  <2> QED
    BY <1>10, <2>2, <2>3 DEF CheckChunk
<1>11. CASE SendChunk(s)
  <2>1. /\ p.pc = "send" /\ p.ok \in BOOLEAN
        /\ Push(s, p.ok)
        /\ producer'[s] = [p EXCEPT !.pc = "pull", !.chunk = @ + 1, !.ok = TRUE]
    BY <1>1, <1>11 DEF SendChunk, At, Producers
  <2>2. /\ Result(s, p.ok) \in Items /\ Result(s, p.ok).at = Cursor(p)
        /\ chan'[s] = Append(c, Result(s, p.ok))
    BY <1>2, <1>3, <2>1
  <2>3. OnCourse(t, [p EXCEPT !.pc = "pull", !.chunk = @ + 1, !.ok = TRUE],
                 Append(c, Result(s, p.ok)), x, G, e)
    BY <2>1, <2>2, SendOnCourse
  <2> QED
    BY <2>1, <2>2, <2>3
<1>12. CASE EndSentence(s)
  <2>1. p.pc = "tail" /\ UNCHANGED chan
    BY <1>12 DEF EndSentence, At
  <2>2. CASE (x \/ text[s] \notin AppendsSilence) /\ LeaveSentence(s)
    BY <1>6, <2>1, <2>2, LeaveOnCourse
  <2>3. CASE ~x /\ text[s] \in AppendsSilence /\ Go(s, "silence")
    <3>1. /\ producer'[s].pc = "silence" /\ producer'[s].sent = p.sent
          /\ producer'[s].chunk = p.chunk
      BY <1>4, <2>1, <2>3 DEF ProducerPoints
    <3>2. CursorInv(t, producer'[s], x) /\ Speaks(p, x)
      BY <1>1, <2>1, <2>3, <3>1 DEF CursorInv, Speaks
    <3> QED
      BY <1>4, <2>1, <2>3, <3>2 DEF ProducerPoints
  <2> QED
    BY <1>12, <2>2, <2>3 DEF EndSentence
<1>13. CASE SendSilence(s)
  <2>1. p.pc = "silence" /\ LeaveSentence(s) /\ \E ok \in BOOLEAN : Push(s, ok)
    BY <1>13 DEF SendSilence, At
  <2>2. PICK ok \in BOOLEAN : Push(s, ok)
    BY <2>1
  <2>3. /\ Result(s, ok) \in Items /\ Result(s, ok).at = Cursor(p)
        /\ chan'[s] = Append(c, Result(s, ok)) /\ producer'[s] = AfterSentence(p)
    BY <1>2, <1>3, <1>6, <2>1, <2>2
  <2>4. OnCourse(t, AfterSentence(p), Append(c, Result(s, ok)), x, G, e)
    BY <2>1, <2>3, SilenceOnCourse
  <2> QED
    BY <2>3, <2>4
<1> QED
  BY <1>7, <1>8, <1>9, <1>10, <1>11, <1>12, <1>13 DEF ProducerStep

-----------------------------------------------------------------------------
(* What a consumer may rely on.                                            *)

(* A stream begins on course, with nothing given; a thread takes it; the   *)
(* token is set.                                                           *)
LEMMA BeginOnCourse ==
  ASSUME NEW t \in Texts, NEW x \in BOOLEAN
  PROVE  Spoken(t, [NoProducer EXCEPT !.pc = "queued"], <<>>, x, {}, FALSE)
<1> DEFINE r == [NoProducer EXCEPT !.pc = "queued"]
<1>1. r.pc = "queued" /\ r.sent = 1 /\ r.chunk = 1 /\ r \in Producers
  BY ProducerRecordType DEF NoProducer, ProducerPoints
<1>2. <<>> \in Seq(Items) /\ DOMAIN <<>> = {} /\ Places(<<>>) = {} /\ Cursor(r) = <<1, 1>>
  BY <1>1 DEF Places, Cursor
<1>3. ASSUME NEW q \in RealtimeItems[t] PROVE ~Before(q, <<1, 1>>)
  <2>1. q \in Positions /\ q[1] \in 1 .. Len(t) /\ q[2] \in 1 .. LastItem(t, q[1])
    BY PlacesOfText
  <2>2. q[1] >= 1 /\ q[1] \in Nat /\ q[2] >= 1 /\ q[2] \in Nat
    BY <2>1 DEF Positions
  <2> QED
    BY <2>2 DEF Before
<1> HIDE DEF r
<1>4. CursorInv(t, r, x)
  BY <1>1 DEF CursorInv
<1>5. OnCourse(t, r, <<>>, x, {}, FALSE)
  BY <1>1, <1>2, <1>3, <1>4 DEF OnCourse, InOrder
<1> QED
  BY <1>1, <1>2, <1>5 DEF Spoken, r

LEMMA StartOnCourse ==
  ASSUME NEW t, NEW p, NEW c, NEW x, NEW G, NEW e, Spoken(t, p, c, x, G, e),
         p.pc = "queued"
  PROVE  Spoken(t, [p EXCEPT !.pc = "sentence"], c, x, G, e)
<1> DEFINE r == [p EXCEPT !.pc = "sentence"]
<1>1. p \in Producers /\ CursorInv(t, p, x)
  BY DEF Spoken, OnCourse
<1>2. r \in Producers
  BY <1>1, ProducerRecordType DEF ProducerPoints
<1>3. r.pc = "sentence" /\ r.sent = p.sent /\ r.chunk = p.chunk
  BY <1>1 DEF Producers
<1> HIDE DEF r
<1>4. CursorInv(t, r, x) /\ Speaks(p, x)
  BY <1>1, <1>3 DEF CursorInv, Speaks
<1>5. OnCourse(t, r, c, x, G, e)
  BY <1>2, <1>3, <1>4, SameCursor
<1> QED
  BY <1>2, <1>5 DEF Spoken, r

LEMMA CancelOnCourse ==
  ASSUME NEW t, NEW p, NEW c, NEW x, NEW G, NEW e, Spoken(t, p, c, x, G, e)
  PROVE  Spoken(t, p, c, TRUE, G, e)
<1>1. CursorInv(t, p, TRUE) /\ (Speaks(p, TRUE) => Speaks(p, x))
  BY DEF Spoken, OnCourse, CursorInv, Speaks
<1> QED
  BY <1>1 DEF Spoken, OnCourse

(* The oldest item of the channel continues what was given. *)
LEMMA TakeOnCourse ==
  ASSUME NEW t, NEW p, NEW c, NEW x, NEW G, NEW e, Spoken(t, p, c, x, G, e),
         c # <<>>
  PROVE  /\ Head(c) \in Items /\ Follows(Head(c), G, RealtimeItems[t])
         /\ Spoken(t, p, Tail(c), x, G \cup {Head(c).at}, e \/ ~Head(c).ok)
<1> DEFINE h == Head(c)
           d == Tail(c)
<1>1. /\ c \in Seq(Items) /\ InOrder(c, G, RealtimeItems[t]) /\ G \subseteq Positions
      /\ CursorInv(t, p, x) /\ OnCourse(t, p, c, x, G, e)
  BY DEF Spoken, OnCourse
<1>2. /\ h \in Items /\ d \in Seq(Items) /\ Follows(h, G, RealtimeItems[t])
      /\ InOrder(d, G \cup {h.at}, RealtimeItems[t])
      /\ Places(c) = {h.at} \cup Places(d)
      /\ HasError(c) <=> ~h.ok \/ HasError(d)
  BY <1>1, TakeInOrder
<1>3. G \cup Places(c) = (G \cup {h.at}) \cup Places(d)
  BY <1>2
<1>4. h.at \in Positions /\ h.ok \in BOOLEAN
  BY <1>2 DEF Items
<1> HIDE DEF h, d
<1>5. OnCourse(t, p, d, x, G \cup {h.at}, e \/ ~h.ok)
  BY <1>1, <1>2, <1>3 DEF OnCourse
<1>6. Spoken(t, p, d, x, G \cup {h.at}, e \/ ~h.ok)
  BY <1>1, <1>2, <1>4, <1>5 DEF Spoken
<1> QED
  BY <1>2, <1>6 DEF h, d

(* When the producer is gone and its channel empty, a consumer that was    *)
(* given no error was given the whole text, unless it cancelled.           *)
LEMMA WholeText ==
  ASSUME NEW t, NEW p, NEW x, NEW G, Spoken(t, p, <<>>, x, G, FALSE),
         p.pc = "gone", ~x
  PROVE  RealtimeItems[t] \subseteq G
<1>1. Places(<<>>) = {} /\ ~HasError(<<>>)
  BY DEF Places, HasError
<1> QED
  BY <1>1 DEF Spoken, OnCourse
=============================================================================

------------------------- MODULE JavaProtocolProofs -------------------------
(***************************************************************************)
(* What is proved of the stream between the Java process and abuild, for   *)
(* every number of builds, every kind of output, every size of a chunk and *)
(* every number of unexpected ends.                                        *)
(*                                                                         *)
(* The tokens that have left a thread of the process and that abuild has   *)
(* not handled yet are a sequence of messages one after the other: there   *)
(* are places in it between which the messages lie.  Nothing is said of    *)
(* how the places are found, so that no induction is needed: a message     *)
(* more, or one less at the front, is the same statement about a list that *)
(* is longer or shorter by one.  After an unexpected end the list keeps    *)
(* the messages that will not arrive.                                      *)
(***************************************************************************)
EXTENDS JavaProtocol, ListLemmas

Tokens == Bytes \cup {NL, CR} \cup Lines
Eols == {<<NL>>, <<CR, NL>>}

\* The messages of the process: the number-th output of a build, its answer,
\* and output that was put after the answer, which has no number of its own.
Messages ==
  [kind : {"output", "late"}, job : Jobs \cup {0}, number : Nat \ {0}, text : Payloads]
  \cup [kind : {"answer"}, job : Jobs, status : BOOLEAN]

Output(job, number, text) ==
  [kind |-> "output", job |-> job, number |-> number, text |-> text]
Late(job, text) == [kind |-> "late", job |-> job, number |-> 1, text |-> text]
Answer(job, status) == [kind |-> "answer", job |-> job, status |-> status]

\* What the responder thread writes for a message.
Encoded(m, e) ==
  IF m.kind = "answer"
  THEN <<Response(m.job, m.status)>> \o e
  ELSE (<<Header(m.job, Len(m.text)), NL>> \o m.text) \o e

\* whole holds the messages msg, each between the places cut; the last of
\* them may be missing, or cut short.
Frames(n, msg, cut, whole, e) ==
  /\ n \in Nat
  /\ msg \in [1..n -> Messages]
  /\ cut \in [0..n -> Nat]
  /\ cut[0] = 0
  /\ \A k \in 1..n : cut[k] = cut[k - 1] + Len(Encoded(msg[k], e))
  /\ \A a, b \in 0..n : a <= b => cut[a] <= cut[b]
  /\ \A k \in 1..n : \A i \in 1..Len(Encoded(msg[k], e)) :
       cut[k - 1] + i <= Len(whole)
         => whole[cut[k - 1] + i] = Encoded(msg[k], e)[i]
  /\ Len(whole) <= cut[n]

-----------------------------------------------------------------------------
(* Messages and the places between them *)

LEMMA Kinds ==
  ASSUME NEW m \in Messages
  PROVE  \/ /\ m.kind \in {"output", "late"} /\ m.kind # "answer"
            /\ m.job \in Jobs \cup {0}
            /\ m.number \in Nat \ {0}
            /\ m.text \in Payloads
            /\ Len(m.text) \in Nat
            /\ m.text \in Seq(Bytes)
         \/ /\ m.kind = "answer"
            /\ m.kind # "output" /\ m.kind # "late"
            /\ m.job \in Jobs
            /\ m.status \in BOOLEAN
<1>1. CASE m \in [kind : {"output", "late"}, job : Jobs \cup {0},
                  number : Nat \ {0}, text : Payloads]
  <2>1. /\ m.kind \in {"output", "late"} /\ m.job \in Jobs \cup {0}
        /\ m.number \in Nat \ {0} /\ m.text \in Payloads
    BY <1>1
  <2>2. m.text \in Seq(Bytes)
    BY <2>1, JavaAssumptions
  <2>3. Len(m.text) \in Nat
    BY <2>2, LenProperties
  <2> QED BY <2>1, <2>2, <2>3
<1>2. CASE m \in [kind : {"answer"}, job : Jobs, status : BOOLEAN]
  BY <1>2
<1> QED BY <1>1, <1>2 DEF Messages

LEMMA TokenTypes ==
  /\ NL \in Tokens /\ CR \in Tokens /\ NL # CR
  /\ \A job \in Jobs, status \in BOOLEAN :
       Response(job, status) \in Tokens /\ Response(job, status) # NL
  /\ \A job \in Jobs \cup {0}, length \in Nat :
       Header(job, length) \in Tokens /\ Header(job, length) # NL
  /\ \A payload \in Payloads : payload \in Seq(Tokens)
<1>1. NL \in Tokens /\ CR \in Tokens /\ NL # CR
  BY DEF Tokens, NL, CR
<1>2. ASSUME NEW job \in Jobs, NEW status \in BOOLEAN
      PROVE  Response(job, status) \in Tokens /\ Response(job, status) # NL
  BY DEF Tokens, Lines, Response, NL
<1>3. ASSUME NEW job \in Jobs \cup {0}, NEW length \in Nat
      PROVE  Header(job, length) \in Tokens /\ Header(job, length) # NL
  BY DEF Tokens, Lines, Header, NL
<1>4. ASSUME NEW payload \in Payloads PROVE payload \in Seq(Tokens)
  <2>1. payload \in Seq(Bytes) /\ Bytes \subseteq Tokens
    BY JavaAssumptions DEF Tokens
  <2> QED BY <2>1, SeqMonotonic
<1> QED BY <1>1, <1>2, <1>3, <1>4

\* The two ends of a line.
LEMMA EolShape ==
  ASSUME NEW e \in Eols
  PROVE  /\ e \in Seq(Tokens)
         /\ Len(e) \in {1, 2}
         /\ Len(e) = 1 => e[1] = NL
         /\ Len(e) = 2 => e[1] = CR /\ e[2] = NL
<1>1. CASE e = <<NL>>
  BY <1>1, TokenTypes
<1>2. CASE e = <<CR, NL>>
  BY <1>2, TokenTypes
<1> QED BY <1>1, <1>2 DEF Eols

LEMMA OutputShape ==
  ASSUME NEW m \in Messages, m.kind # "answer", NEW e \in Eols
  PROVE  /\ Encoded(m, e) \in Seq(Tokens)
         /\ Len(Encoded(m, e)) = 2 + Len(m.text) + Len(e)
         /\ Encoded(m, e)[1] = Header(m.job, Len(m.text))
         /\ Encoded(m, e)[2] = NL
         /\ \A i \in 1..Len(m.text) : Encoded(m, e)[2 + i] = m.text[i]
         /\ \A i \in 1..Len(e) : Encoded(m, e)[2 + Len(m.text) + i] = e[i]
<1> DEFINE head == <<Header(m.job, Len(m.text)), NL>>
           front == head \o m.text
<1>1. /\ m.job \in Jobs \cup {0} /\ m.text \in Payloads /\ Len(m.text) \in Nat
  BY Kinds
<1>2. /\ m.text \in Seq(Tokens) /\ e \in Seq(Tokens) /\ Len(e) \in Nat
  BY <1>1, TokenTypes, EolShape
<1>3. /\ head \in Seq(Tokens) /\ Len(head) = 2
      /\ head[1] = Header(m.job, Len(m.text)) /\ head[2] = NL
  BY <1>1, TokenTypes
<1> HIDE DEF head
<1>4. /\ front \in Seq(Tokens) /\ Len(front) = 2 + Len(m.text)
      /\ \A i \in 1..(2 + Len(m.text)) :
           front[i] = IF i <= 2 THEN head[i] ELSE m.text[i - 2]
  <2>1. /\ front \in Seq(Tokens) /\ Len(front) = Len(head) + Len(m.text)
        /\ \A i \in 1..(Len(head) + Len(m.text)) :
             front[i] = IF i <= Len(head) THEN head[i] ELSE m.text[i - Len(head)]
    BY <1>2, <1>3, ConcatProperties
  <2> HIDE DEF front
  <2> QED BY <1>3, <2>1
<1> HIDE DEF front
<1>5. /\ front \o e \in Seq(Tokens) /\ Len(front \o e) = Len(front) + Len(e)
      /\ \A i \in 1..(Len(front) + Len(e)) :
           (front \o e)[i] = IF i <= Len(front) THEN front[i] ELSE e[i - Len(front)]
  BY <1>2, <1>4, ConcatProperties
<1>6. Encoded(m, e) = front \o e
  BY DEF Encoded, front, head
<1>7. /\ Encoded(m, e)[1] = head[1] /\ Encoded(m, e)[2] = head[2]
  BY <1>1, <1>2, <1>4, <1>5, <1>6
<1>8. \A i \in 1..Len(m.text) : Encoded(m, e)[2 + i] = m.text[i]
  BY <1>1, <1>2, <1>4, <1>5, <1>6
<1>9. \A i \in 1..Len(e) : Encoded(m, e)[2 + Len(m.text) + i] = e[i]
  <2> TAKE i \in 1..Len(e)
  <2> DEFINE x == 2 + Len(m.text) + i
  <2>1. /\ x \in 1..(Len(front) + Len(e))
        /\ ~(x <= Len(front)) /\ x - Len(front) = i
    BY <1>1, <1>2, <1>4
  <2> HIDE DEF x
  <2>2. (front \o e)[x] = e[i]
    BY <2>1, <1>5
  <2> QED BY <2>2, <1>6 DEF x
<1>10. Encoded(m, e) \in Seq(Tokens) /\ Len(Encoded(m, e)) = 2 + Len(m.text) + Len(e)
  BY <1>4, <1>5, <1>6
<1> QED BY <1>3, <1>7, <1>8, <1>9, <1>10

LEMMA AnswerShape ==
  ASSUME NEW m \in Messages, m.kind = "answer", NEW e \in Eols
  PROVE  /\ Encoded(m, e) \in Seq(Tokens)
         /\ Len(Encoded(m, e)) = 1 + Len(e)
         /\ Encoded(m, e)[1] = Response(m.job, m.status)
         /\ \A i \in 1..Len(e) : Encoded(m, e)[1 + i] = e[i]
<1> DEFINE head == <<Response(m.job, m.status)>>
<1>1. m.job \in Jobs /\ m.status \in BOOLEAN
  BY Kinds
<1>2. e \in Seq(Tokens) /\ Len(e) \in Nat
  BY EolShape
<1>3. /\ head \in Seq(Tokens) /\ Len(head) = 1
      /\ head[1] = Response(m.job, m.status)
  BY <1>1, TokenTypes
<1>4. Encoded(m, e) = head \o e
  BY <1>1 DEF Encoded
<1> HIDE DEF head
<1>5. /\ head \o e \in Seq(Tokens) /\ Len(head \o e) = 1 + Len(e)
      /\ \A i \in 1..(1 + Len(e)) :
           (head \o e)[i] = IF i <= 1 THEN head[i] ELSE e[i - 1]
  <2> DEFINE all == head \o e
  <2>1. /\ all \in Seq(Tokens) /\ Len(all) = Len(head) + Len(e)
        /\ \A i \in 1..(Len(head) + Len(e)) :
             all[i] = IF i <= Len(head) THEN head[i] ELSE e[i - Len(head)]
    BY <1>2, <1>3, ConcatProperties
  <2> HIDE DEF all
  <2>2. /\ all \in Seq(Tokens) /\ Len(all) = 1 + Len(e)
        /\ \A i \in 1..(1 + Len(e)) : all[i] = IF i <= 1 THEN head[i] ELSE e[i - 1]
    BY <1>3, <2>1
  <2> QED BY <2>2 DEF all
<1> QED BY <1>2, <1>3, <1>4, <1>5

\* A message is not empty and ends with a line end.
LEMMA EncodedShape ==
  ASSUME NEW m \in Messages, NEW e \in Eols
  PROVE  /\ Encoded(m, e) \in Seq(Tokens)
         /\ Len(Encoded(m, e)) \in Nat \ {0}
         /\ Encoded(m, e)[Len(Encoded(m, e))] = NL
         /\ Encoded(m, e)[1] # NL
<1>1. CASE m.kind # "answer"
  <2>1. m.job \in Jobs \cup {0} /\ Len(m.text) \in Nat
    BY <1>1, Kinds
  <2>2. Encoded(m, e)[2 + Len(m.text) + Len(e)] = e[Len(e)]
    BY <1>1, OutputShape, EolShape
  <2>3. Len(Encoded(m, e)) = 2 + Len(m.text) + Len(e)
    BY <1>1, OutputShape
  <2>4. e[Len(e)] = NL /\ Len(e) \in {1, 2}
    BY EolShape
  <2>5. Encoded(m, e)[1] # NL
    <3>1. Header(m.job, Len(m.text)) # NL
      BY <2>1, TokenTypes
    <3>2. Encoded(m, e)[1] = Header(m.job, Len(m.text))
      BY <1>1, OutputShape
    <3> QED BY <3>1, <3>2, Zenon
  <2>6. Encoded(m, e) \in Seq(Tokens)
    BY <1>1, OutputShape
  <2> QED BY <2>1, <2>2, <2>3, <2>4, <2>5, <2>6
<1>2. CASE m.kind = "answer"
  <2>1. m.job \in Jobs /\ m.status \in BOOLEAN
    BY <1>2, Kinds
  <2>2. Encoded(m, e)[1 + Len(e)] = e[Len(e)]
    BY <1>2, AnswerShape, EolShape
  <2>3. Len(Encoded(m, e)) = 1 + Len(e)
    BY <1>2, AnswerShape
  <2>4. e[Len(e)] = NL /\ Len(e) \in {1, 2}
    BY EolShape
  <2>5. Encoded(m, e)[1] # NL
    <3>1. Response(m.job, m.status) # NL
      BY <2>1, TokenTypes
    <3>2. Encoded(m, e)[1] = Response(m.job, m.status)
      BY <1>2, AnswerShape
    <3> QED BY <3>1, <3>2, Zenon
  <2>6. Encoded(m, e) \in Seq(Tokens)
    BY <1>2, AnswerShape
  <2> QED BY <2>2, <2>3, <2>4, <2>5, <2>6
<1> QED BY <1>1, <1>2, Kinds

\* Losing the end of what is on its way.
LEMMA FramesOfPrefix ==
  ASSUME NEW n, NEW msg, NEW cut, NEW e, NEW whole, NEW part,
         Frames(n, msg, cut, whole, e),
         Len(whole) \in Nat, Len(part) \in Nat, Len(part) <= Len(whole),
         \A i \in 1..Len(part) : part[i] = whole[i]
  PROVE  Frames(n, msg, cut, part, e)
<1>1. ASSUME NEW k \in 1..n, NEW i \in 1..Len(Encoded(msg[k], e)),
             cut[k - 1] + i <= Len(part)
      PROVE  part[cut[k - 1] + i] = Encoded(msg[k], e)[i]
  <2>1. n \in Nat /\ cut[k - 1] \in Nat /\ i \in Int /\ i >= 1
    BY DEF Frames
  <2>2. cut[k - 1] + i \in 1..Len(part) /\ cut[k - 1] + i <= Len(whole)
    BY <1>1, <2>1
  <2>3. whole[cut[k - 1] + i] = Encoded(msg[k], e)[i]
    BY <2>2 DEF Frames
  <2> QED BY <2>2, <2>3
<1>2. Len(part) <= cut[n]
  <2>1. cut[n] \in Nat /\ Len(whole) <= cut[n]
    BY DEF Frames
  <2> QED BY <2>1
<1> QED BY <1>1, <1>2 DEF Frames

\* A list with one more message, and its places.
More(n, msg, m) == [k \in 1..(n + 1) |-> IF k = n + 1 THEN m ELSE msg[k]]
MoreCut(n, cut, length) ==
  [k \in 0..(n + 1) |-> IF k = n + 1 THEN cut[n] + length ELSE cut[k]]

\* A thread sends a message.
LEMMA FramesOfMore ==
  ASSUME NEW n, NEW msg, NEW cut, NEW e \in Eols, NEW m \in Messages,
         NEW whole \in Seq(Tokens),
         Frames(n, msg, cut, whole, e), Len(whole) = cut[n]
  PROVE  LET longer == MoreCut(n, cut, Len(Encoded(m, e)))
             all == whole \o Encoded(m, e)
         IN  Frames(n + 1, More(n, msg, m), longer, all, e)
             /\ Len(all) = longer[n + 1]
<1> DEFINE code == Encoded(m, e)
           longer == MoreCut(n, cut, Len(code))
           list == More(n, msg, m)
           all == whole \o code
<1>1. /\ code \in Seq(Tokens) /\ Len(code) \in Nat \ {0}
  BY EncodedShape
<1>2. /\ n \in Nat /\ msg \in [1..n -> Messages] /\ cut \in [0..n -> Nat]
      /\ cut[0] = 0
  BY DEF Frames
<1>3. /\ Len(all) = Len(whole) + Len(code)
      /\ \A i \in 1..(Len(whole) + Len(code)) :
           all[i] = IF i <= Len(whole) THEN whole[i] ELSE code[i - Len(whole)]
      /\ Len(whole) \in Nat
  BY <1>1, ConcatProperties, LenProperties
<1>4. /\ list \in [1..(n + 1) -> Messages]
      /\ list[n + 1] = m /\ \A k \in 1..n : list[k] = msg[k]
  BY <1>2 DEF More
<1> HIDE DEF code
<1>5. /\ longer \in [0..(n + 1) -> Nat]
      /\ longer[n + 1] = cut[n] + Len(code) /\ \A k \in 0..n : longer[k] = cut[k]
  BY <1>1, <1>2 DEF MoreCut
<1> HIDE DEF list, longer, all
<1>6. \A k \in 1..(n + 1) : longer[k] = longer[k - 1] + Len(Encoded(list[k], e))
  <2>1. longer[n + 1] = longer[n] + Len(Encoded(list[n + 1], e))
    BY <1>2, <1>4, <1>5 DEF code
  <2>2. ASSUME NEW k \in 1..n
        PROVE  longer[k] = longer[k - 1] + Len(Encoded(list[k], e))
    <3>1. longer[k] = cut[k] /\ longer[k - 1] = cut[k - 1] /\ list[k] = msg[k]
      BY <1>2, <1>4, <1>5
    <3>2. cut[k] = cut[k - 1] + Len(Encoded(msg[k], e))
      BY DEF Frames
    <3> QED BY <3>1, <3>2
  <2>3. (n + 1) - 1 = n /\ \A k \in 1..(n + 1) : k \in 1..n \/ k = n + 1
    BY <1>2
  <2> QED BY <2>1, <2>2, <2>3
<1>7. \A a, b \in 0..(n + 1) : a <= b => longer[a] <= longer[b]
  <2>1. \A a, b \in 0..n : a <= b => cut[a] <= cut[b]
    BY DEF Frames
  <2>2. \A a \in 0..n : longer[a] <= longer[n + 1]
    <3> TAKE a \in 0..n
    <3>1. cut[a] <= cut[n] /\ cut[a] \in Nat /\ cut[n] \in Nat
      BY <1>2, <2>1
    <3> QED BY <1>1, <1>5, <3>1
  <2>3. ASSUME NEW a \in 0..(n + 1), NEW b \in 0..(n + 1), a <= b
        PROVE  longer[a] <= longer[b]
    <3>1. CASE b = n + 1 /\ a = n + 1
      BY <3>1, <1>5
    <3>2. CASE b = n + 1 /\ a \in 0..n
      BY <3>2, <2>2
    <3>3. CASE a \in 0..n /\ b \in 0..n
      BY <3>3, <2>1, <2>3, <1>5
    <3> QED BY <3>1, <3>2, <3>3, <2>3, <1>2
  <2> QED BY <2>3
<1>8. \A k \in 1..(n + 1) : \A i \in 1..Len(Encoded(list[k], e)) :
        longer[k - 1] + i <= Len(all)
          => all[longer[k - 1] + i] = Encoded(list[k], e)[i]
  <2>1. ASSUME NEW i \in 1..Len(code)
        PROVE  all[longer[n] + i] = code[i]
    <3> DEFINE x == longer[n] + i
    <3>1. longer[n] = Len(whole) /\ i \in Int /\ i >= 1 /\ i <= Len(code)
      BY <1>1, <1>2, <1>5
    <3>2. x \in 1..(Len(whole) + Len(code)) /\ ~(x <= Len(whole)) /\ x - Len(whole) = i
      BY <3>1, <1>1, <1>3
    <3> HIDE DEF x
    <3>3. all[x] = IF x <= Len(whole) THEN whole[x] ELSE code[x - Len(whole)]
      BY <3>2, <1>3
    <3>4. all[x] = code[i]
      BY <3>2, <3>3
    <3> QED BY <3>4 DEF x
  <2>2. ASSUME NEW k \in 1..n, NEW i \in 1..Len(Encoded(list[k], e))
        PROVE  all[longer[k - 1] + i] = Encoded(list[k], e)[i]
    <3>1. longer[k - 1] = cut[k - 1] /\ list[k] = msg[k]
      BY <1>2, <1>4, <1>5
    <3>2. Encoded(msg[k], e) \in Seq(Tokens) /\ Len(Encoded(msg[k], e)) \in Nat
      BY <1>2, EncodedShape
    <3>3. /\ cut[k] = cut[k - 1] + Len(Encoded(msg[k], e)) /\ cut[k] <= cut[n]
          /\ cut[k] \in Nat /\ cut[n] \in Nat /\ cut[k - 1] \in Nat
      <4>1. k \in 0..n /\ n \in 0..n /\ k - 1 \in 0..n /\ k <= n
        BY <1>2
      <4>2. cut[k] <= cut[n]
        BY <4>1 DEF Frames
      <4>3. cut[k] = cut[k - 1] + Len(Encoded(msg[k], e))
        BY DEF Frames
      <4> QED BY <1>2, <4>1, <4>2, <4>3
    <3>4. cut[k - 1] + i \in 1..Len(whole)
      BY <2>2, <3>1, <3>2, <3>3
    <3>5. whole[cut[k - 1] + i] = Encoded(msg[k], e)[i]
      BY <2>2, <3>1, <3>4 DEF Frames
    <3>6. all[cut[k - 1] + i] = whole[cut[k - 1] + i]
      <4>1. \A x \in 1..Len(whole) : all[x] = whole[x]
        <5> TAKE x \in 1..Len(whole)
        <5>1. x \in 1..(Len(whole) + Len(code)) /\ x <= Len(whole)
          BY <1>1
        <5> QED BY <5>1, <1>3
      <4> QED BY <3>4, <4>1
    <3> QED BY <3>1, <3>5, <3>6
  <2>3. Encoded(list[n + 1], e) = code /\ n + 1 - 1 = n
    BY <1>2, <1>4 DEF code
  <2> SUFFICES ASSUME NEW k \in 1..(n + 1), NEW i \in 1..Len(Encoded(list[k], e))
               PROVE  all[longer[k - 1] + i] = Encoded(list[k], e)[i]
    OBVIOUS
  <2>4. CASE k \in 1..n
    BY <2>2, <2>4
  <2>5. CASE k = n + 1
    <3>1. k - 1 = n
      BY <1>2, <2>5
    <3>2. Encoded(list[k], e) = code
      BY <2>3, <2>5, Zenon
    <3>3. i \in 1..Len(code)
      BY <3>2, Zenon
    <3> QED BY <2>1, <3>1, <3>2, <3>3
  <2>6. k \in 1..n \/ k = n + 1
    BY <1>2
  <2> QED BY <2>4, <2>5, <2>6
<1>9. Len(all) = longer[n + 1]
  BY <1>3, <1>5
<1>10. Frames(n + 1, list, longer, all, e)
  <2>1. n + 1 \in Nat /\ longer[0] = 0 /\ Len(all) <= longer[n + 1]
    BY <1>1, <1>2, <1>3, <1>5, <1>9
  <2> QED BY <1>4, <1>5, <1>6, <1>7, <1>8, <2>1 DEF Frames
<1> QED BY <1>9, <1>10 DEF list, longer, all, code

\* The list without its first message.
Less(n, msg) == [k \in 1..(n - 1) |-> msg[k + 1]]
LessCut(n, cut) == [k \in 0..(n - 1) |-> cut[k + 1] - cut[1]]

\* r is s without its first c elements.
Dropped(r, s, c) ==
  /\ Len(r) = Len(s) - c
  /\ \A i \in 1..Len(r) : r[i] = s[c + i]

\* abuild takes the first message.
LEMMA FramesOfLess ==
  ASSUME NEW n, NEW msg, NEW cut, NEW e \in Eols, NEW whole, NEW rest,
         Frames(n, msg, cut, whole, e), n # 0,
         Len(whole) \in Nat, Len(rest) \in Nat, cut[1] <= Len(whole),
         Dropped(rest, whole, cut[1])
  PROVE  /\ Frames(n - 1, Less(n, msg), LessCut(n, cut), rest, e)
         /\ Len(whole) = cut[n] => Len(rest) = LessCut(n, cut)[n - 1]
<1> DEFINE list == Less(n, msg)
           shorter == LessCut(n, cut)
<1>0. Len(rest) = Len(whole) - cut[1] /\ \A i \in 1..Len(rest) : rest[i] = whole[cut[1] + i]
  BY DEF Dropped
<1>1. /\ n \in Nat /\ n >= 1 /\ n - 1 \in Nat
      /\ msg \in [1..n -> Messages] /\ cut \in [0..n -> Nat]
  BY DEF Frames
<1>2. \A k \in 1..n : cut[1] <= cut[k]
  BY <1>1 DEF Frames
<1>3. /\ list \in [1..(n - 1) -> Messages]
      /\ \A k \in 1..(n - 1) : list[k] = msg[k + 1]
  BY <1>1 DEF Less
<1>4. /\ shorter \in [0..(n - 1) -> Nat]
      /\ \A k \in 0..(n - 1) : shorter[k] = cut[k + 1] - cut[1]
  <2>1. \A k \in 0..(n - 1) : k + 1 \in 1..n /\ cut[k + 1] \in Nat /\ cut[1] \in Nat
    BY <1>1
  <2>2. \A k \in 0..(n - 1) : cut[k + 1] - cut[1] \in Nat
    BY <2>1, <1>2
  <2> QED BY <2>2 DEF LessCut
<1> HIDE DEF list, shorter
<1>5. shorter[0] = 0
  BY <1>1, <1>4
<1>6. ASSUME NEW k \in 1..(n - 1)
      PROVE  /\ k + 1 \in 1..n /\ list[k] = msg[k + 1]
             /\ shorter[k] = cut[k + 1] - cut[1] /\ shorter[k - 1] = cut[k] - cut[1]
             /\ cut[k] \in Nat /\ cut[k + 1] \in Nat /\ cut[1] \in Nat
             /\ cut[k + 1] = cut[k] + Len(Encoded(msg[k + 1], e))
  <2>1. k + 1 \in 1..n /\ k - 1 \in 0..(n - 1) /\ k \in 0..(n - 1)
        /\ (k + 1) - 1 = k /\ (k - 1) + 1 = k /\ k \in 0..n /\ 1 \in 0..n
    BY <1>1
  <2>2. cut[k + 1] = cut[(k + 1) - 1] + Len(Encoded(msg[k + 1], e))
    BY <2>1 DEF Frames
  <2>3. shorter[k - 1] = cut[(k - 1) + 1] - cut[1]
    BY <2>1, <1>4
  <2> QED BY <2>1, <2>2, <2>3, <1>1, <1>3, <1>4
<1>7. \A k \in 1..(n - 1) : shorter[k] = shorter[k - 1] + Len(Encoded(list[k], e))
  <2> TAKE k \in 1..(n - 1)
  <2> DEFINE length == Len(Encoded(msg[k + 1], e))
  <2>1. length \in Nat
    BY <1>6, <1>1, EncodedShape
  <2>2. /\ shorter[k] = cut[k + 1] - cut[1] /\ shorter[k - 1] = cut[k] - cut[1]
        /\ cut[k] \in Nat /\ cut[k + 1] \in Nat /\ cut[1] \in Nat
        /\ cut[k + 1] = cut[k] + length /\ Len(Encoded(list[k], e)) = length
    BY <1>6
  <2> HIDE DEF length
  <2> QED BY <2>1, <2>2
<1>8. \A a, b \in 0..(n - 1) : a <= b => shorter[a] <= shorter[b]
  <2> TAKE a, b \in 0..(n - 1)
  <2> HAVE a <= b
  <2>1. a + 1 \in 0..n /\ b + 1 \in 0..n /\ a + 1 <= b + 1 /\ 1 \in 0..n
    BY <1>1
  <2>2. cut[a + 1] <= cut[b + 1]
    BY <2>1 DEF Frames
  <2>3. cut[a + 1] \in Nat /\ cut[b + 1] \in Nat /\ cut[1] \in Nat
    BY <2>1, <1>1
  <2> QED BY <2>2, <2>3, <1>4
<1>9. \A k \in 1..(n - 1) : \A i \in 1..Len(Encoded(list[k], e)) :
        shorter[k - 1] + i <= Len(rest)
          => rest[shorter[k - 1] + i] = Encoded(list[k], e)[i]
  <2> TAKE k \in 1..(n - 1)
  <2> TAKE i \in 1..Len(Encoded(list[k], e))
  <2> HAVE shorter[k - 1] + i <= Len(rest)
  <2>1. /\ k + 1 \in 1..n /\ list[k] = msg[k + 1] /\ (k + 1) - 1 = k
        /\ shorter[k - 1] = cut[k] - cut[1]
        /\ cut[k] \in Nat /\ cut[1] \in Nat /\ k \in Nat
        /\ Len(Encoded(list[k], e)) \in Nat
    <3>1. k \in Nat /\ (k + 1) - 1 = k
      BY <1>1
    <3>2. Len(Encoded(msg[k + 1], e)) \in Nat
      BY <1>6, <1>1, EncodedShape
    <3> QED BY <1>6, <3>1, <3>2
  <2>2. shorter[k - 1] \in Nat
    BY <1>4, <1>1
  <2>3. /\ shorter[k - 1] + i \in 1..Len(rest)
        /\ cut[1] + (shorter[k - 1] + i) = cut[k] + i
        /\ cut[k] + i <= Len(whole)
    <3> DEFINE before == shorter[k - 1]
    <3>1. /\ before \in Nat /\ before + i <= Len(rest) /\ before = cut[k] - cut[1]
          /\ cut[k] \in Nat /\ cut[1] \in Nat /\ i \in Int /\ i >= 1
      BY <2>1, <2>2
    <3> HIDE DEF before
    <3>2. /\ before + i \in 1..Len(rest) /\ cut[1] + (before + i) = cut[k] + i
          /\ cut[k] + i <= Len(whole)
      <4>1. before + i \in 1..Len(rest)
        BY <3>1
      <4>2. cut[1] + (before + i) = cut[k] + i
        <5> DEFINE first == cut[1]
                   there == cut[k]
        <5>1. /\ first \in Nat /\ there \in Nat /\ before \in Nat /\ i \in Int
              /\ before = there - first
          BY <3>1
        <5> HIDE DEF first, there
        <5>2. first + (before + i) = there + i
          BY <5>1
        <5> QED BY <5>2 DEF first, there
      <4>3. Len(whole) = cut[1] + Len(rest)
        <5>1. Len(rest) = Len(whole) - cut[1] /\ cut[1] \in Nat
          BY <1>0, <3>1
        <5> QED BY <5>1
      <4>4. cut[1] + (before + i) <= cut[1] + Len(rest)
        BY <3>1
      <4>5. cut[k] + i <= Len(whole)
        BY <4>2, <4>3, <4>4, Zenon
      <4> QED BY <4>1, <4>2, <4>5
    <3> QED BY <3>2 DEF before
  <2>4. rest[shorter[k - 1] + i] = whole[cut[1] + (shorter[k - 1] + i)]
    BY <1>0, <2>3
  <2>5. whole[cut[(k + 1) - 1] + i] = Encoded(msg[k + 1], e)[i]
    BY <2>1, <2>3 DEF Frames
  <2> QED BY <2>1, <2>3, <2>4, <2>5
<1>10. /\ cut[n] \in Nat /\ cut[1] \in Nat /\ Len(whole) <= cut[n]
       /\ shorter[n - 1] = cut[n] - cut[1]
  <2>1. n - 1 \in 0..(n - 1) /\ (n - 1) + 1 = n
    BY <1>1
  <2>2. shorter[n - 1] = cut[(n - 1) + 1] - cut[1]
    BY <2>1, <1>4
  <2> QED BY <2>1, <2>2, <1>1 DEF Frames
<1>11. Frames(n - 1, list, shorter, rest, e)
  <2>1. Len(rest) <= shorter[n - 1]
    BY <1>0, <1>10
  <2> QED BY <1>1, <1>3, <1>4, <1>5, <1>7, <1>8, <1>9, <2>1 DEF Frames
<1> QED BY <1>0, <1>10, <1>11 DEF list, shorter

-----------------------------------------------------------------------------
(* Types *)

\* A token that reads like a line of the protocol is one.
LEMMA LineTokens ==
  /\ \A t \in Tokens : t.token = "response" => t.job \in Jobs /\ t.status \in BOOLEAN
  /\ \A t \in Tokens : t.token = "header" => t.job \in Jobs \cup {0} /\ t.length \in Nat
<1>1. ASSUME NEW t \in Tokens, t.token \in {"response", "header"}
      PROVE  t \in Lines
  BY <1>1, JavaAssumptions DEF Tokens, NL, CR
<1>2. ASSUME NEW t \in Lines, t.token = "response"
      PROVE  t.job \in Jobs /\ t.status \in BOOLEAN
  <2>1. t \in [token : {"response"}, job : Jobs, status : BOOLEAN]
    BY <1>2 DEF Lines
  <2> QED BY <2>1
<1>3. ASSUME NEW t \in Lines, t.token = "header"
      PROVE  t.job \in Jobs \cup {0} /\ t.length \in Nat
  <2>1. t \in [token : {"header"}, job : Jobs \cup {0}, length : Nat]
    BY <1>3 DEF Lines
  <2> QED BY <2>1
<1> QED BY <1>1, <1>2, <1>3

LEMMA PartTypes ==
  ASSUME NEW s \in Seq(Tokens), NEW m \in Nat \ {0}, NEW n \in Nat, n <= Len(s)
  PROVE  /\ SubSeq(s, m, n) \in Seq(Tokens)
         /\ Len(SubSeq(s, m, n)) = IF m <= n THEN n - m + 1 ELSE 0
         /\ \A i \in 1..(n - m + 1) : SubSeq(s, m, n)[i] = s[m + i - 1]
<1>1. m \in Int /\ n \in Int
  OBVIOUS
<1>2. \A i \in m..n : s[i] \in Tokens
  <2> TAKE i \in m..n
  <2>1. i \in 1..Len(s)
    BY LenProperties
  <2> QED BY <2>1, ElementOfSeq
<1> QED BY <1>1, <1>2, SubSeqProperties

\* The line the loop of handleResponse takes first.
LEMMA FirstLine ==
  ASSUME accumulated_response \in Seq(Tokens)
  PROVE  /\ HasLine <=> \E x \in 1..Len(accumulated_response) : accumulated_response[x] = NL
         /\ HasLine =>
              /\ LineEnd \in 1..Len(accumulated_response)
              /\ accumulated_response[LineEnd] = NL
              /\ \A y \in 1..(LineEnd - 1) : accumulated_response[y] # NL
<1> DEFINE acc == accumulated_response
           Ends == {x \in 1..Len(acc) : acc[x] = NL}
           First(n) == acc[n] = NL /\ \A y \in 1..(n - 1) : acc[y] # NL
<1>1. Len(acc) \in Nat /\ DOMAIN acc = 1..Len(acc)
  BY LenProperties
<1>2. HasLine <=> \E x \in 1..Len(acc) : acc[x] = NL
  BY <1>1 DEF HasLine
<1>3. ASSUME HasLine PROVE \E x \in DOMAIN acc : First(x)
  <2>1. Ends \subseteq Nat /\ Ends # {}
    BY <1>1, <1>2, <1>3
  <2>2. PICK x \in Ends : \A y \in Ends : x <= y
    <3> HIDE DEF Ends
    <3> QED BY <2>1, LeastNatural
  <2>3. x \in 1..Len(acc) /\ acc[x] = NL
    BY <2>2
  <2>4. \A y \in 1..(x - 1) : acc[y] # NL
    <3> TAKE y \in 1..(x - 1)
    <3>1. y \in 1..Len(acc) /\ ~(x <= y)
      BY <1>1, <2>3
    <3>2. y \notin Ends
      BY <2>2, <3>1
    <3> QED BY <3>1, <3>2
  <2> QED BY <1>1, <2>3, <2>4
<1>4. LineEnd = CHOOSE x \in DOMAIN acc : First(x)
  BY DEF LineEnd
<1>5. ASSUME HasLine PROVE LineEnd \in DOMAIN acc /\ First(LineEnd)
  <2> HIDE DEF First
  <2> QED BY <1>3, <1>4, <1>5
<1> QED BY <1>1, <1>2, <1>5

LEMMA LineTypes ==
  ASSUME accumulated_response \in Seq(Tokens), HasLine
  PROVE  /\ Line \in Seq(Tokens) /\ Rest \in Seq(Tokens)
         /\ Len(Line) = LineEnd - 1
         /\ \A i \in 1..(LineEnd - 1) : Line[i] = accumulated_response[i]
         /\ Len(Rest) = Len(accumulated_response) - LineEnd
         /\ \A i \in 1..Len(Rest) : Rest[i] = accumulated_response[LineEnd + i]
<1> DEFINE acc == accumulated_response
           n == LineEnd
<1>1. n \in 1..Len(acc) /\ Len(acc) \in Nat
  BY FirstLine, LenProperties
<1>2. n - 1 \in Nat /\ n - 1 <= Len(acc) /\ n + 1 \in Nat \ {0} /\ n \in Nat
  BY <1>1
<1>3. /\ Line \in Seq(Tokens) /\ Len(Line) = n - 1
      /\ \A i \in 1..(n - 1) : Line[i] = acc[i]
  <2>1. /\ Line \in Seq(Tokens) /\ Len(Line) = IF 1 <= n - 1 THEN (n - 1) - 1 + 1 ELSE 0
        /\ \A i \in 1..((n - 1) - 1 + 1) : Line[i] = acc[1 + i - 1]
    <3> HIDE DEF n
    <3> QED BY <1>2, PartTypes DEF Line, n
  <2> HIDE DEF n
  <2> QED BY <1>2, <2>1
<1>4. /\ Rest \in Seq(Tokens) /\ Len(Rest) = Len(acc) - n
      /\ \A i \in 1..(Len(acc) - n) : Rest[i] = acc[n + i]
  <2>1. /\ Rest \in Seq(Tokens)
        /\ Len(Rest) = IF n + 1 <= Len(acc) THEN Len(acc) - (n + 1) + 1 ELSE 0
        /\ \A i \in 1..(Len(acc) - (n + 1) + 1) : Rest[i] = acc[(n + 1) + i - 1]
    <3> HIDE DEF n
    <3> QED BY <1>1, <1>2, PartTypes DEF Rest, n
  <2> HIDE DEF n
  <2> QED BY <1>1, <1>2, <2>1
<1> QED BY <1>3, <1>4

LEMMA RestAfterTypes ==
  ASSUME accumulated_response \in Seq(Tokens), HasLine, NEW length \in Nat
  PROVE  /\ RestAfter(length) \subseteq Seq(Tokens)
         /\ RestAfter(length) # {} =>
              Len(Rest) > length /\ SubSeq(Rest, 1, length) \in Seq(Tokens)
<1> DEFINE rest == SubSeq(Rest, length + 1, Len(Rest))
<1>1. Rest \in Seq(Tokens) /\ Len(Rest) \in Nat
  BY LineTypes, LenProperties
<1>2. rest \in Seq(Tokens)
  BY <1>1, PartTypes
<1>3. rest # <<>> => Tail(rest) \in Seq(Tokens)
  BY <1>2, HeadTailProperties
<1>4. SubSeq(rest, 3, Len(rest)) \in Seq(Tokens)
  BY <1>2, PartTypes, LenProperties
<1>5. Len(Rest) > length => rest # <<>>
  <2>1. Len(rest) = IF length + 1 <= Len(Rest) THEN Len(Rest) - (length + 1) + 1 ELSE 0
    BY <1>1, PartTypes
  <2> HIDE DEF rest
  <2>2. Len(Rest) > length => Len(rest) # 0
    BY <1>1, <2>1
  <2> QED BY <2>2
<1>6. Len(Rest) > length => SubSeq(Rest, 1, length) \in Seq(Tokens)
  BY <1>1, PartTypes
<1>7. \/ RestAfter(length) = {Tail(rest)} /\ Len(Rest) > length
      \/ RestAfter(length) = {SubSeq(rest, 3, Len(rest))} /\ Len(Rest) > length + 1
      \/ RestAfter(length) = {}
  <2> DEFINE Unix == Len(Rest) > length /\ rest[1] = NL
             Dos == Len(Rest) > length + 1 /\ SubSeq(rest, 1, 2) = <<CR, NL>>
             one == {Tail(rest)}
             two == {SubSeq(rest, 3, Len(rest))}
  <2>1. RestAfter(length) = CASE Unix -> one [] Dos -> two [] OTHER -> {}
    BY DEF RestAfter
  <2>2. (Unix => Len(Rest) > length) /\ (Dos => Len(Rest) > length + 1)
    OBVIOUS
  <2> HIDE DEF Unix, Dos, one, two
  <2>3. \/ RestAfter(length) = one /\ Unix
        \/ RestAfter(length) = two /\ Dos
        \/ RestAfter(length) = {}
    BY <2>1
  <2> QED BY <2>2, <2>3 DEF one, two
<1> HIDE DEF rest
<1>8. CASE RestAfter(length) = {Tail(rest)} /\ Len(Rest) > length
  BY <1>3, <1>5, <1>6, <1>8
<1>9. CASE RestAfter(length) = {SubSeq(rest, 3, Len(rest))} /\ Len(Rest) > length + 1
  <2>1. Len(Rest) > length
    BY <1>1, <1>9
  <2> QED BY <1>4, <1>6, <1>9, <2>1
<1> QED BY <1>7, <1>8, <1>9

\* The type invariant by the names used here.
Types ==
  /\ up \in BOOLEAN
  /\ eol \in Eols
  /\ building \subseteq Jobs /\ assigned \subseteq Jobs /\ late \subseteq Jobs
  /\ putting \subseteq [stream : Streams, job : Jobs \cup {0}, own : BOOLEAN,
                        payload : Payloads]
  /\ outputs \in 0..MaxOutputs
  /\ sent \in [Jobs \cup {0} -> Seq(Payloads)]
  /\ responseQueue \in Seq(Seq(Tokens)) /\ Len(responseQueue) <= 1
  /\ stream \in Seq(Tokens)
  /\ accumulated_response \in Seq(Tokens)
  /\ deaths \in 0..MaxDeaths
  /\ left_over \in BOOLEAN
  /\ last_request \in 0..LastJob
  /\ job_data \subseteq Jobs
  /\ parsing \in BOOLEAN /\ protocol_error \in BOOLEAN
  /\ delivered \in [Jobs \cup {0} -> Seq(Seq(Tokens))]
  /\ answers \in [Jobs -> Seq(BOOLEAN)]

LEMMA TypesAgree == TypeOK <=> Types
  BY Zenon DEF TypeOK, Types, Tokens, Eols

LEMMA TypesInit == Init => Types
<1> SUFFICES ASSUME Init PROVE Types
  OBVIOUS
<1>1. /\ sent \in [Jobs \cup {0} -> Seq(Payloads)]
      /\ delivered \in [Jobs \cup {0} -> Seq(Seq(Tokens))]
      /\ answers \in [Jobs -> Seq(BOOLEAN)]
  BY DEF Init
<1>2. 0 \in 0..MaxDeaths /\ 0 \in 0..LastJob /\ 0 \in 0..MaxOutputs
  BY JavaAssumptions
<1>3. /\ responseQueue \in Seq(Seq(Tokens)) /\ Len(responseQueue) <= 1
      /\ stream \in Seq(Tokens) /\ accumulated_response \in Seq(Tokens)
  BY DEF Init
<1> QED BY <1>1, <1>2, <1>3 DEF Init, Types, Eols

\* A queue of one message.
LEMMA OneMessage ==
  ASSUME NEW s \in Seq(Tokens)
  PROVE  /\ <<s>> \in Seq(Seq(Tokens)) /\ Len(<<s>>) = 1
         /\ <<s>> # <<>> /\ Head(<<s>>) = s
  OBVIOUS

LEMMA TypesJava ==
  ASSUME Types, \/ JavaStep
                \/ respond
                \/ die
  PROVE  Types'
<1>1. ASSUME NEW m \in putting, putOutput(m) PROVE Types'
  <2>1. /\ m.job \in Jobs \cup {0} /\ m.payload \in Payloads
        /\ m.job # 0 => m.job \in Jobs
    BY DEF Types
  <2>2. m.payload \in Seq(Tokens) /\ Len(m.payload) \in Nat
    BY <2>1, TokenTypes, LenProperties
  <2> DEFINE head == <<Header(m.job, Len(m.payload)), NL>>
  <2>3. head \in Seq(Tokens)
    <3>1. Header(m.job, Len(m.payload)) \in Tokens /\ NL \in Tokens
      BY <2>1, <2>2, TokenTypes
    <3> QED BY <3>1
  <2> HIDE DEF head
  <2>4. head \o m.payload \in Seq(Tokens)
    BY <2>2, <2>3, ConcatProperties
  <2>5. responseQueue' = <<head \o m.payload>>
    BY <1>1 DEF putOutput, head
  <2>6. responseQueue' \in Seq(Seq(Tokens)) /\ Len(responseQueue') <= 1
    BY <2>4, <2>5, OneMessage
  <2>7. late' \subseteq Jobs
    BY <1>1, <2>1 DEF putOutput, Types
  <2>8. sent' \in [Jobs \cup {0} -> Seq(Payloads)]
    <3>1. Append(sent[m.job], m.payload) \in Seq(Payloads)
      BY <2>1, AppendProperties DEF Types
    <3>2. sent' \in {sent, [sent EXCEPT ![m.job] = Append(sent[m.job], m.payload)]}
      BY <1>1 DEF putOutput
    <3> QED BY <2>1, <3>1, <3>2 DEF Types
  <2> QED BY <1>1, <2>6, <2>7, <2>8 DEF putOutput, Types, ends, abuild
<1>2. ASSUME NEW job \in Jobs, NEW status \in BOOLEAN, sendResponse(job, status)
      PROVE  Types'
  <2>1. <<Response(job, status)>> \in Seq(Tokens)
    BY TokenTypes
  <2>2. responseQueue' \in Seq(Seq(Tokens)) /\ Len(responseQueue') <= 1
    BY <1>2, <2>1, OneMessage DEF sendResponse
  <2> QED BY <1>2, <2>2 DEF sendResponse, Types, ends, abuild, printed
<1>3. ASSUME respond PROVE Types'
  <2>1. Head(responseQueue) \in Seq(Tokens)
    BY <1>3, HeadTailProperties DEF respond, Types
  <2>2. stream \o Head(responseQueue) \in Seq(Tokens) /\ eol \in Seq(Tokens)
    BY <2>1, ConcatProperties, EolShape DEF Types
  <2>3. (stream \o Head(responseQueue)) \o eol \in Seq(Tokens)
    BY <2>2, ConcatProperties
  <2>4. stream' \in Seq(Tokens)
    BY <1>3, <2>3 DEF respond
  <2>5. responseQueue' \in Seq(Seq(Tokens)) /\ Len(responseQueue') <= 1
    BY <1>3 DEF respond
  <2> QED BY <1>3, <2>4, <2>5 DEF respond, Types, ends, abuild, printed, threads
<1>4. ASSUME die PROVE Types'
  <2>1. PICK n \in 0..Len(stream) : stream' = SubSeq(stream, 1, n)
    BY <1>4 DEF die
  <2>2. stream \in Seq(Tokens) /\ n \in Nat /\ n <= Len(stream) /\ 1 \in Nat \ {0}
    BY <2>1, LenProperties DEF Types
  <2>3. stream' \in Seq(Tokens)
    BY <2>1, <2>2, PartTypes
  <2>4. responseQueue' \in Seq(Seq(Tokens)) /\ Len(responseQueue') <= 1
    BY <1>4 DEF die
  <2>5. deaths' \in 0..MaxDeaths
    BY <1>4, JavaAssumptions DEF die, Types
  <2> QED BY <1>4, <2>3, <2>4, <2>5 DEF die, Types, abuild, printed
<1>5. ASSUME NEW s \in Streams, NEW job \in Jobs \cup {0}, NEW own \in BOOLEAN,
             NEW payload \in Payloads, sendOutput(s, job, own, payload)
      PROVE  Types'
  <2>1. outputs' \in 0..MaxOutputs
    BY <1>5, JavaAssumptions DEF sendOutput, Types
  <2>2. putting' \subseteq [stream : Streams, job : Jobs \cup {0}, own : BOOLEAN,
                           payload : Payloads]
    BY <1>5 DEF sendOutput, Types
  <2> QED BY <1>5, <2>1, <2>2 DEF sendOutput, Types, ends, abuild, printed
<1>6. ASSUME NEW job \in Jobs, setJobNull(job) PROVE Types'
  BY <1>6 DEF setJobNull, Types, ends, abuild, printed
<1> QED BY <1>1, <1>2, <1>3, <1>4, <1>5, <1>6 DEF JavaStep

LEMMA TypesAbuild ==
  ASSUME Types, \/ makeRequest
                \/ Read
                \/ failPending
  PROVE  Types'
<1>1. ASSUME makeRequest PROVE Types'
  <2>1. last_request' \in 0..LastJob /\ last_request' \in Jobs
    BY <1>1, JavaAssumptions DEF makeRequest, Types, Jobs
  <2> QED BY <1>1, <2>1 DEF makeRequest, Types, ends, printed
<1>2. ASSUME NEW length \in 1..MaxChunk, handleRead(length) PROVE Types'
  <2>1. /\ stream \in Seq(Tokens) /\ Len(stream) \in Nat
        /\ length \in Nat /\ length <= Len(stream) /\ length + 1 \in Nat \ {0}
        /\ 1 \in Nat \ {0} /\ Len(stream) <= Len(stream)
    BY <1>2, LenProperties, JavaAssumptions DEF handleRead, Types
  <2>2. SubSeq(stream, 1, length) \in Seq(Tokens)
    BY <2>1, PartTypes
  <2>3. SubSeq(stream, length + 1, Len(stream)) \in Seq(Tokens)
    BY <2>1, PartTypes
  <2>4. accumulated_response \o SubSeq(stream, 1, length) \in Seq(Tokens)
    BY <2>2, ConcatProperties DEF Types
  <2> QED BY <1>2, <2>3, <2>4 DEF handleRead, Types, java, threads, printed, ends
<1>3. ASSUME failPending PROVE Types'
  <2>1. \A job \in Jobs : Append(answers[job], FALSE) \in Seq(BOOLEAN)
    BY AppendProperties DEF Types
  <2>2. answers' \in [Jobs -> Seq(BOOLEAN)]
    BY <1>3, <2>1 DEF failPending, Types
  <2>3. left_over' \in BOOLEAN
    BY <1>3, Zenon DEF failPending
  <2> QED BY <1>3, <2>2, <2>3 DEF failPending, Types, threads, printed
<1> QED BY <1>1, <1>2, <1>3 DEF Read

LEMMA TypesHandle ==
  ASSUME Types, handleResponse
  PROVE  Types'
<1> USE DEF quiet, java, threads, printed, ends
<1>1. accumulated_response \in Seq(Tokens)
  BY DEF Types
<1>2. ASSUME HasLine PROVE Line \in Seq(Tokens) /\ Rest \in Seq(Tokens)
  BY <1>1, <1>2, LineTypes
<1>3. ASSUME HasLine, lineResponse PROVE Types'
  <2>1. Line[1] \in Tokens /\ Line[1].token = "response"
    BY <1>2, <1>3, HeadTailProperties DEF lineResponse, Matches
  <2>2. Line[1].job \in Jobs /\ Line[1].status \in BOOLEAN
    BY <2>1, LineTokens
  <2>3. protocol_error' \in BOOLEAN
    BY <1>3 DEF lineResponse
  <2>4. answers' \in [Jobs -> Seq(BOOLEAN)]
    <3>1. answers[Line[1].job] \in Seq(BOOLEAN)
      BY <2>2 DEF Types
    <3>2. Append(answers[Line[1].job], Line[1].status) \in Seq(BOOLEAN)
      BY <2>2, <3>1, AppendProperties
    <3> QED BY <1>3, <2>2, <3>1, <3>2 DEF lineResponse, Types
  <2> QED BY <1>2, <1>3, <2>3, <2>4 DEF lineResponse, Types
<1>4. ASSUME HasLine, lineData PROVE Types'
  <2>1. Line[1] \in Tokens /\ Line[1].token = "header"
    BY <1>2, <1>4, HeadTailProperties DEF lineData, Matches
  <2>2. Line[1].job \in Jobs \cup {0} /\ Line[1].length \in Nat
    BY <2>1, LineTokens
  <2>3. CASE /\ parsing' = FALSE
             /\ UNCHANGED <<accumulated_response, delivered, protocol_error>>
    BY <1>4, <2>3 DEF lineData, Types
  <2>4. ASSUME NEW rest \in RestAfter(Line[1].length), accumulated_response' = rest,
               UNCHANGED parsing
        PROVE  accumulated_response' \in Seq(Tokens)
               /\ SubSeq(Rest, 1, Line[1].length) \in Seq(Tokens)
    BY <1>1, <1>4, <2>2, <2>4, RestAfterTypes
  <2>5. ASSUME NEW rest \in RestAfter(Line[1].length), accumulated_response' = rest,
               UNCHANGED parsing,
               delivered' = [delivered EXCEPT ![Line[1].job] =
                               Append(@, SubSeq(Rest, 1, Line[1].length))],
               UNCHANGED protocol_error
        PROVE  Types'
    <3>1. delivered[Line[1].job] \in Seq(Seq(Tokens))
      BY <2>2 DEF Types
    <3>2. Append(delivered[Line[1].job], SubSeq(Rest, 1, Line[1].length)) \in Seq(Seq(Tokens))
      BY <2>4, <2>5, <3>1, AppendProperties
    <3>3. delivered' \in [Jobs \cup {0} -> Seq(Seq(Tokens))]
      BY <2>5, <3>2 DEF Types
    <3> QED BY <1>4, <2>4, <2>5, <3>3 DEF lineData, Types
  <2>6. ASSUME NEW rest \in RestAfter(Line[1].length), accumulated_response' = rest,
               UNCHANGED parsing, protocol_error' = TRUE, UNCHANGED delivered
        PROVE  Types'
    BY <1>4, <2>4, <2>6 DEF lineData, Types
  <2> QED BY <1>4, <2>3, <2>5, <2>6 DEF lineData
<1>5. ASSUME HasLine, lineOther PROVE Types'
  BY <1>5 DEF lineOther, Types
<1>6. ASSUME lineNone PROVE Types'
  BY <1>6 DEF lineNone, Types
<1> QED BY <1>3, <1>4, <1>5, <1>6 DEF handleResponse

LEMMA TypesStep == Types /\ [Next]_vars => Types'
<1> SUFFICES ASSUME Types, [Next]_vars PROVE Types'
  OBVIOUS
<1>1. CASE UNCHANGED vars
  BY <1>1 DEF vars, java, threads, printed, ends, abuild, Types
<1>2. CASE Quiescent
  BY <1>1, <1>2 DEF Quiescent
<1> QED BY <1>1, <1>2, TypesJava, TypesAbuild, TypesHandle DEF Next

\* Every variable has its type: of the variables that abuild shares with the
\* process, of the tokens of the stream however they are cut, and of what the
\* parser makes of them, also after an end in the middle of a message.
THEOREM TypeCorrectness == Spec => []TypeOK
<1>1. Init => Types
  BY TypesInit
<1>2. Types /\ [Next]_vars => Types'
  BY TypesStep
<1> QED BY <1>1, <1>2, TypesAgree, PTL DEF Spec

-----------------------------------------------------------------------------
(* The inductive invariant *)

\* What abuild has still to handle, in the order it will: what it has read,
\* what is in the stream, and the message the responder has not written.
Queued == IF responseQueue = <<>> THEN <<>> ELSE Head(responseQueue) \o eol
Incoming == (accumulated_response \o stream) \o Queued

\* An output on its way is one that was printed.
Genuine(n, msg) ==
  \A k \in 1..n : msg[k].kind = "output" =>
     /\ msg[k].number \in 1..Len(sent[msg[k].job])
     /\ sent[msg[k].job][msg[k].number] = msg[k].text

\* abuild knows the build that a message is about, unless the message is late:
\* then abuild does not know the build any more when it gets to the message,
\* because its answer comes before it.
Expected(n, msg) == \A k \in 1..n : msg[k].kind # "late" => msg[k].job \in job_data \cup {0}
Behind(n, msg, k) ==
  \E i \in 1..n : i < k /\ msg[i].kind = "answer" /\ msg[i].job = msg[k].job
Outdated(n, msg) ==
  \A k \in 1..n : msg[k].kind = "late" =>
     /\ msg[k].job \in late \ building
     /\ msg[k].job \notin job_data \/ Behind(n, msg, k)

\* An output on its way was not delivered before,
Undelivered(n, msg) ==
  \A k \in 1..n : msg[k].kind = "output" => msg[k].number > Len(delivered[msg[k].job])

\* and one that was not delivered is on its way, or was.
Accountable == job_data \cup {job \in {0} : deaths = 0}
Carries(n, msg, job, number) ==
  \E k \in 1..n : msg[k].kind = "output" /\ msg[k].job = job /\ msg[k].number = number
Complete(n, msg) ==
  \A job \in Accountable :
    \A number \in (Len(delivered[job]) + 1)..Len(sent[job]) : Carries(n, msg, job, number)

\* The outputs of a build are in the order in which they were sent, its answer
\* is after them, and what is late comes last.
InOrder(n, msg) ==
  \A a, b \in 1..n : a < b /\ msg[a].job = msg[b].job /\ msg[b].kind # "late" =>
     /\ msg[a].kind = "output"
     /\ msg[b].kind = "output" => msg[a].number < msg[b].number

\* A build in progress is not answered; one that has ended is, as long as the
\* process is there.
Unanswered(n, msg) == \A k \in 1..n : msg[k].kind = "answer" => msg[k].job \notin building
Answering(n, msg) ==
  up => \A job \in job_data \ building :
          \E k \in 1..n : msg[k].kind = "answer" /\ msg[k].job = job

\* abuild stops parsing only when it has not got all of the next message.
Waiting(n, cut) == parsing \/ n = 0 \/ Len(accumulated_response) < cut[1]

Framed(n, msg, cut) ==
  /\ Frames(n, msg, cut, Incoming, eol)
  /\ up => Len(Incoming) = cut[n]
  /\ Waiting(n, cut)

Ordered(n, msg) ==
  /\ Genuine(n, msg) /\ Expected(n, msg)
  /\ Undelivered(n, msg) /\ Complete(n, msg)
  /\ InOrder(n, msg) /\ Unanswered(n, msg) /\ Answering(n, msg)
  /\ Outdated(n, msg)

\* What abuild has told the callers.
Known ==
  /\ protocol_error => late # {}
  /\ building \subseteq job_data
  /\ \A job \in job_data : job <= last_request /\ answers[job] = <<>>
  /\ \A job \in Jobs : job > last_request =>
       answers[job] = <<>> /\ sent[job] = <<>> /\ delivered[job] = <<>>
Delivered ==
  /\ \A job \in Jobs \cup {0} : Len(delivered[job]) <= Len(sent[job])
  /\ \A job \in Jobs \cup {job \in {0} : deaths = 0} :
       \A k \in 1..Len(delivered[job]) : delivered[job][k] = sent[job][k]
Answered ==
  \A job \in Jobs : \/ job \in job_data
                    \/ delivered[job] = sent[job]
                    \/ deaths > 0 /\ answers[job] = <<FALSE>>

Ended == up \/ (deaths > 0 /\ building = {} /\ putting = {} /\ responseQueue = <<>>)

\* The threads of the process print for builds that have been requested, and
\* the thread of a build for one that has not been answered.
Threads ==
  /\ building \subseteq assigned
  /\ \A job \in assigned \cup late : job <= last_request
  /\ \A m \in putting : m.job <= last_request /\ (m.own => m.job \in building)

Sound ==
  /\ Known /\ Delivered /\ Answered
  /\ \E n, msg, cut : Framed(n, msg, cut) /\ Ordered(n, msg)

IInv == Types /\ Ended /\ Threads /\ (left_over \/ Sound)

-----------------------------------------------------------------------------
(* How Incoming changes *)

LEMMA QueuedType == ASSUME Types PROVE Queued \in Seq(Tokens)
<1>1. CASE responseQueue = <<>>
  BY <1>1 DEF Queued
<1>2. CASE responseQueue # <<>>
  <2>1. Head(responseQueue) \in Seq(Tokens) /\ eol \in Seq(Tokens)
    BY <1>2, HeadTailProperties, EolShape DEF Types
  <2>2. Head(responseQueue) \o eol \in Seq(Tokens)
    BY <2>1, ConcatProperties
  <2> QED BY <1>2, <2>2 DEF Queued
<1> QED BY <1>1, <1>2

LEMMA IncomingShape ==
  ASSUME Types
  PROVE  /\ Incoming \in Seq(Tokens) /\ Len(Incoming) \in Nat
         /\ Len(accumulated_response) \in Nat
         /\ Len(accumulated_response) <= Len(Incoming)
         /\ \A i \in 1..Len(accumulated_response) :
              Incoming[i] = accumulated_response[i]
<1> DEFINE acc == accumulated_response
           front == acc \o stream
<1>1. acc \in Seq(Tokens) /\ stream \in Seq(Tokens) /\ Queued \in Seq(Tokens)
  BY QueuedType DEF Types
<1>2. /\ Len(acc) \in Nat /\ Len(stream) \in Nat /\ Len(Queued) \in Nat
  BY <1>1, LenProperties
<1>3. /\ front \in Seq(Tokens) /\ Len(front) = Len(acc) + Len(stream)
      /\ \A i \in 1..(Len(acc) + Len(stream)) :
           front[i] = IF i <= Len(acc) THEN acc[i] ELSE stream[i - Len(acc)]
  BY <1>1, ConcatProperties
<1> HIDE DEF front
<1>4. /\ front \o Queued \in Seq(Tokens)
      /\ Len(front \o Queued) = Len(front) + Len(Queued)
      /\ \A i \in 1..(Len(front) + Len(Queued)) :
           (front \o Queued)[i] = IF i <= Len(front) THEN front[i] ELSE Queued[i - Len(front)]
  <2>1. front \in Seq(Tokens) /\ Queued \in Seq(Tokens)
    BY <1>1, <1>3
  <2> QED BY <2>1, ConcatProperties
<1>5. Incoming = front \o Queued
  BY DEF Incoming, front
<1>6. \A i \in 1..Len(acc) : Incoming[i] = acc[i]
  BY <1>2, <1>3, <1>4, <1>5
<1> QED BY <1>2, <1>3, <1>4, <1>5, <1>6

\* Removing the front of the first of two lists, and the end of the second.
LEMMA ConcatDrop ==
  ASSUME NEW s \in Seq(Tokens), NEW t \in Seq(Tokens), NEW r \in Seq(Tokens),
         NEW c \in Nat, c <= Len(s), Dropped(r, s, c)
  PROVE  r \o t \in Seq(Tokens) /\ Dropped(r \o t, s \o t, c)
<1> DEFINE rt == r \o t
           st == s \o t
<1>0. Len(r) = Len(s) - c /\ \A i \in 1..Len(r) : r[i] = s[c + i]
  BY DEF Dropped
<1>1. Len(s) \in Nat /\ Len(t) \in Nat /\ Len(r) \in Nat /\ c \in Nat
  BY LenProperties
<1>2. /\ rt \in Seq(Tokens) /\ Len(rt) = Len(r) + Len(t)
      /\ \A i \in 1..(Len(r) + Len(t)) : rt[i] = IF i <= Len(r) THEN r[i] ELSE t[i - Len(r)]
  BY ConcatProperties
<1>3. /\ Len(st) = Len(s) + Len(t)
      /\ \A i \in 1..(Len(s) + Len(t)) : st[i] = IF i <= Len(s) THEN s[i] ELSE t[i - Len(s)]
  BY ConcatProperties
<1> HIDE DEF rt, st
<1>4. ASSUME NEW i \in 1..Len(rt) PROVE rt[i] = st[c + i]
  <2>1. i \in 1..(Len(r) + Len(t)) /\ i \in Nat
    BY <1>1, <1>2
  <2>2. CASE i <= Len(r)
    <3>1. i \in 1..Len(r) /\ c + i \in 1..(Len(s) + Len(t)) /\ c + i <= Len(s)
      BY <1>0, <1>1, <2>1, <2>2
    <3>2. rt[i] = r[i] /\ st[c + i] = s[c + i]
      BY <1>2, <1>3, <2>1, <3>1
    <3> QED BY <1>0, <3>1, <3>2
  <2>3. CASE ~(i <= Len(r))
    <3> DEFINE x == c + i
    <3>1. x \in 1..(Len(s) + Len(t)) /\ ~(x <= Len(s)) /\ x - Len(s) = i - Len(r)
      BY <1>0, <1>1, <2>1, <2>3
    <3> HIDE DEF x
    <3>2. rt[i] = t[i - Len(r)]
      BY <1>2, <2>1, <2>3
    <3>3. st[x] = t[x - Len(s)]
      BY <1>3, <3>1
    <3> QED BY <3>1, <3>2, <3>3 DEF x
  <2> QED BY <2>2, <2>3
<1>5. Len(rt) = Len(st) - c
  BY <1>0, <1>1, <1>2, <1>3
<1> QED BY <1>2, <1>4, <1>5 DEF rt, st, Dropped

LEMMA ConcatCutShort ==
  ASSUME NEW S, NEW s \in Seq(S), NEW t \in Seq(S), NEW p \in Seq(S),
         Len(p) <= Len(t), \A i \in 1..Len(p) : p[i] = t[i]
  PROVE  /\ s \o p \in Seq(S) /\ Len(s \o p) <= Len(s \o t)
         /\ \A i \in 1..Len(s \o p) : (s \o p)[i] = (s \o t)[i]
<1> DEFINE sp == s \o p
           st == s \o t
<1>1. Len(s) \in Nat /\ Len(t) \in Nat /\ Len(p) \in Nat
  BY LenProperties
<1>2. /\ sp \in Seq(S) /\ Len(sp) = Len(s) + Len(p)
      /\ \A i \in 1..(Len(s) + Len(p)) : sp[i] = IF i <= Len(s) THEN s[i] ELSE p[i - Len(s)]
  BY ConcatProperties
<1>3. /\ Len(st) = Len(s) + Len(t)
      /\ \A i \in 1..(Len(s) + Len(t)) : st[i] = IF i <= Len(s) THEN s[i] ELSE t[i - Len(s)]
  BY ConcatProperties
<1> HIDE DEF sp, st
<1>4. ASSUME NEW i \in 1..Len(sp) PROVE sp[i] = st[i]
  <2>1. i \in 1..(Len(s) + Len(p)) /\ i \in 1..(Len(s) + Len(t)) /\ i \in Nat
    BY <1>1, <1>2
  <2>2. CASE i <= Len(s)
    BY <1>2, <1>3, <2>1, <2>2
  <2>3. CASE ~(i <= Len(s))
    <3> DEFINE x == i - Len(s)
    <3>1. x \in 1..Len(p)
      BY <1>1, <2>1, <2>3
    <3>2. sp[i] = p[x] /\ st[i] = t[x]
      BY <1>2, <1>3, <2>1, <2>3
    <3> HIDE DEF x
    <3> QED BY <3>1, <3>2
  <2> QED BY <2>2, <2>3
<1>5. Len(sp) <= Len(st)
  BY <1>1, <1>2, <1>3
<1> QED BY <1>2, <1>4, <1>5 DEF sp, st

\* A thread puts a message in the queue.
LEMMA IncomingSend ==
  ASSUME Types, NEW body \in Seq(Tokens),
         responseQueue = <<>>, responseQueue' = <<body>>,
         UNCHANGED <<accumulated_response, stream, eol>>
  PROVE  Incoming' = Incoming \o (body \o eol)
<1> DEFINE front == accumulated_response \o stream
<1>1. front \in Seq(Tokens)
  BY ConcatProperties DEF Types
<1>2. Incoming = front
  <2>1. Incoming = front \o <<>>
    BY DEF Incoming, Queued
  <2> HIDE DEF front
  <2> QED BY <1>1, <2>1, ConcatEmptySeq
<1>3. responseQueue' # <<>> /\ Head(responseQueue') = body
  BY OneMessage
<1>4. Queued' = body \o eol
  BY <1>3 DEF Queued
<1> QED BY <1>2, <1>4 DEF Incoming

LEMMA ConcatTokens ==
  \A s, t, u \in Seq(Tokens) : (s \o t) \o u = s \o (t \o u)
<1> TAKE s, t, u \in Seq(Tokens)
<1> DEFINE any == Tokens
<1>1. s \in Seq(any) /\ t \in Seq(any) /\ u \in Seq(any)
  OBVIOUS
<1> HIDE DEF any
<1> QED BY <1>1, ConcatAssociative

LEMMA IncomingRespond ==
  ASSUME Types, respond
  PROVE  Incoming' = Incoming
<1> DEFINE acc == accumulated_response
           code == Head(responseQueue) \o eol
<1>1. responseQueue # <<>> /\ responseQueue' = <<>> /\ acc' = acc
      /\ stream' = (stream \o Head(responseQueue)) \o eol
  BY DEF respond, abuild
<1>2. /\ acc \in Seq(Tokens) /\ stream \in Seq(Tokens)
      /\ Head(responseQueue) \in Seq(Tokens) /\ eol \in Seq(Tokens)
  BY <1>1, HeadTailProperties, EolShape DEF Types
<1>3. code \in Seq(Tokens)
  BY <1>2, ConcatProperties
<1>4. stream' = stream \o code
  <2> DEFINE head == Head(responseQueue)
  <2>1. stream \in Seq(Tokens) /\ head \in Seq(Tokens) /\ eol \in Seq(Tokens)
    BY <1>2
  <2> HIDE DEF head, code
  <2>2. (stream \o head) \o eol = stream \o (head \o eol)
    BY <2>1, ConcatTokens, Zenon
  <2>3. stream' = (stream \o head) \o eol /\ code = head \o eol
    BY <1>1 DEF head, code
  <2> QED BY <2>2, <2>3
<1>5. Queued = code /\ Queued' = <<>>
  BY <1>1 DEF Queued
<1> HIDE DEF code
<1>6. acc \o (stream \o code) \in Seq(Tokens)
  BY <1>2, <1>3, ConcatProperties
<1>7. Incoming' = (acc \o (stream \o code)) \o <<>>
  BY <1>1, <1>4, <1>5 DEF Incoming
<1>8. Incoming' = acc \o (stream \o code)
  BY <1>6, <1>7, ConcatEmptySeq
<1>9. (acc \o stream) \o code = acc \o (stream \o code)
  <2>1. acc \in Seq(Tokens) /\ stream \in Seq(Tokens) /\ code \in Seq(Tokens)
    BY <1>2, <1>3
  <2> HIDE DEF acc
  <2> QED BY <2>1, ConcatTokens, Zenon
<1>10. Incoming = (acc \o stream) \o code
  BY <1>5 DEF Incoming
<1> QED BY <1>8, <1>9, <1>10

LEMMA IncomingRead ==
  ASSUME Types, NEW length \in 1..MaxChunk, handleRead(length)
  PROVE  Incoming' = Incoming
<1> DEFINE acc == accumulated_response
           one == SubSeq(stream, 1, length)
           two == SubSeq(stream, length + 1, Len(stream))
<1>1. /\ acc' = acc \o one /\ stream' = two /\ length <= Len(stream)
      /\ responseQueue' = responseQueue /\ eol' = eol
  BY DEF handleRead, java
<1>2. /\ acc \in Seq(Tokens) /\ stream \in Seq(Tokens) /\ Len(stream) \in Nat
      /\ length \in Nat \ {0}
  BY LenProperties, JavaAssumptions DEF Types
<1>3. one \in Seq(Tokens) /\ two \in Seq(Tokens)
  <2>1. length + 1 \in Nat \ {0} /\ 1 \in Nat \ {0} /\ Len(stream) <= Len(stream)
    BY <1>2
  <2> QED BY <1>1, <1>2, <2>1, PartTypes
<1>4. one \o two = stream
  <2>1. 1 \in 1..(Len(stream) + 1) /\ length \in (1 - 1)..Len(stream)
        /\ Len(stream) \in length..Len(stream)
    BY <1>1, <1>2
  <2>2. one \o two = SubSeq(stream, 1, Len(stream))
    BY <1>2, <2>1, ConcatAdjacentSubSeq
  <2>3. SubSeq(stream, 1, Len(stream)) = stream
    BY <1>2, SubSeqFull
  <2> QED BY <2>2, <2>3
<1> HIDE DEF one, two
<1>5. (acc \o one) \o two = acc \o (one \o two)
  BY <1>2, <1>3, ConcatTokens, Zenon
<1>6. acc' \o stream' = acc \o stream
  <2>1. acc' \o stream' = (acc \o one) \o two
    BY <1>1
  <2> QED BY <2>1, <1>4, <1>5
<1>7. Queued' = Queued
  BY <1>1 DEF Queued
<1> QED BY <1>6, <1>7 DEF Incoming

LEMMA IncomingCut ==
  ASSUME Types, Types', die
  PROVE  /\ Len(Incoming') \in Nat /\ Len(Incoming') <= Len(Incoming)
         /\ \A i \in 1..Len(Incoming') : Incoming'[i] = Incoming[i]
<1> DEFINE acc == accumulated_response
<1>1. acc' = acc /\ responseQueue' = <<>>
  BY DEF die, abuild
<1>2. PICK n \in 0..Len(stream) : stream' = SubSeq(stream, 1, n)
  BY DEF die
<1>3. /\ acc \in Seq(Tokens) /\ stream \in Seq(Tokens) /\ Len(stream) \in Nat
      /\ Queued \in Seq(Tokens) /\ stream' \in Seq(Tokens)
  BY LenProperties, QueuedType DEF Types
<1>4. /\ Len(stream') <= Len(stream)
      /\ \A i \in 1..Len(stream') : stream'[i] = stream[i]
  <2>1. n \in Nat /\ n <= Len(stream) /\ 1 \in Nat \ {0}
    BY <1>2, <1>3
  <2>2. /\ Len(stream') = IF 1 <= n THEN n - 1 + 1 ELSE 0
        /\ \A i \in 1..(n - 1 + 1) : stream'[i] = stream[1 + i - 1]
    BY <1>2, <1>3, <2>1, PartTypes
  <2>3. Len(stream') = n
    BY <2>1, <2>2
  <2>4. \A i \in 1..n : stream'[i] = stream[i]
    BY <2>1, <2>2
  <2> QED BY <2>1, <2>3, <2>4
<1>5. /\ Len(acc \o stream') <= Len(acc \o stream)
      /\ \A i \in 1..Len(acc \o stream') : (acc \o stream')[i] = (acc \o stream)[i]
  BY <1>3, <1>4, ConcatCutShort
<1>6. acc \o stream' \in Seq(Tokens) /\ acc \o stream \in Seq(Tokens)
  BY <1>3, ConcatProperties
<1>7. Incoming' = acc \o stream'
  <2>1. Incoming' = (acc \o stream') \o <<>>
    BY <1>1 DEF Incoming, Queued
  <2> QED BY <1>6, <2>1, ConcatEmptySeq
<1> DEFINE front == acc \o stream
<1>8. /\ Len(front \o Queued) = Len(front) + Len(Queued)
      /\ \A i \in 1..(Len(front) + Len(Queued)) :
           (front \o Queued)[i] = IF i <= Len(front) THEN front[i] ELSE Queued[i - Len(front)]
  <2>1. front \in Seq(Tokens) /\ Queued \in Seq(Tokens)
    BY <1>3, <1>6
  <2> HIDE DEF front
  <2> QED BY <2>1, ConcatProperties
<1>9. Incoming = front \o Queued
  BY DEF Incoming
<1>10. Len(front) \in Nat /\ Len(Queued) \in Nat /\ Len(Incoming') \in Nat
  BY <1>3, <1>6, <1>7, LenProperties
<1>11. \A i \in 1..Len(front) : Incoming[i] = front[i]
  <2> HIDE DEF front
  <2> QED BY <1>8, <1>9, <1>10
<1>12. /\ Len(Incoming') <= Len(front)
       /\ \A i \in 1..Len(Incoming') : Incoming'[i] = front[i]
  BY <1>5, <1>7
<1>13. Len(front) <= Len(Incoming)
  <2> HIDE DEF front
  <2> QED BY <1>8, <1>9, <1>10
<1>14. Len(Incoming) \in Nat
  BY IncomingShape
<1> HIDE DEF front
<1>15. Len(Incoming') <= Len(Incoming)
  BY <1>10, <1>12, <1>13, <1>14
<1>16. ASSUME NEW i \in 1..Len(Incoming') PROVE Incoming'[i] = Incoming[i]
  <2>1. i \in 1..Len(front)
    BY <1>10, <1>12
  <2> QED BY <2>1, <1>11, <1>12
<1> QED BY <1>10, <1>15, <1>16

\* handleResponse removes the front of what is accumulated.
LEMMA IncomingTake ==
  ASSUME Types, Types', NEW c \in 0..Len(accumulated_response),
         UNCHANGED <<stream, responseQueue, eol>>,
         Dropped(accumulated_response', accumulated_response, c)
  PROVE  Len(Incoming') \in Nat /\ Dropped(Incoming', Incoming, c)
<1> DEFINE acc == accumulated_response
           front == acc \o stream
           next == acc' \o stream
<1>1. /\ acc \in Seq(Tokens) /\ acc' \in Seq(Tokens) /\ stream \in Seq(Tokens)
      /\ Queued \in Seq(Tokens) /\ Queued' = Queued
  BY QueuedType DEF Types, Queued
<1>2. next \in Seq(Tokens) /\ Dropped(next, front, c)
  <2> DEFINE new == acc'
  <2>1. /\ acc \in Seq(Tokens) /\ new \in Seq(Tokens) /\ stream \in Seq(Tokens)
        /\ c \in Nat /\ c <= Len(acc) /\ Dropped(new, acc, c)
    BY <1>1
  <2> HIDE DEF new
  <2>2. new \o stream \in Seq(Tokens) /\ Dropped(new \o stream, acc \o stream, c)
    BY <2>1, ConcatDrop
  <2> QED BY <2>2 DEF new
<1>3. front \in Seq(Tokens) /\ Len(front) = Len(acc) + Len(stream)
      /\ Len(acc) \in Nat /\ Len(stream) \in Nat
  BY <1>1, ConcatProperties, LenProperties
<1>4. Incoming = front \o Queued /\ Incoming' = next \o Queued
  BY <1>1 DEF Incoming
<1> HIDE DEF front, next
<1>5. c \in Nat /\ c <= Len(front)
  BY <1>3
<1>6. next \o Queued \in Seq(Tokens) /\ Dropped(next \o Queued, front \o Queued, c)
  <2> DEFINE last == Queued
  <2>1. /\ front \in Seq(Tokens) /\ next \in Seq(Tokens) /\ last \in Seq(Tokens)
        /\ c \in Nat /\ c <= Len(front) /\ Dropped(next, front, c)
    BY <1>1, <1>2, <1>3, <1>5
  <2> HIDE DEF last
  <2>2. next \o last \in Seq(Tokens) /\ Dropped(next \o last, front \o last, c)
    BY <2>1, ConcatDrop
  <2> QED BY <2>2 DEF last
<1> QED BY <1>4, <1>6, LenProperties

-----------------------------------------------------------------------------
(* The process's steps *)

\* A message that is put in the queue comes after all others.
LEMMA FramedMore ==
  ASSUME Types, NEW n, NEW msg, NEW cut, Framed(n, msg, cut),
         NEW m \in Messages, NEW body \in Seq(Tokens), body \o eol = Encoded(m, eol),
         up, responseQueue = <<>>, responseQueue' = <<body>>,
         UNCHANGED <<accumulated_response, stream, eol, up, parsing>>,
         NEW list, list = More(n, msg, m)
  PROVE  \E longer : Framed(n + 1, list, longer)'
<1> PICK longer : longer = MoreCut(n, cut, Len(Encoded(m, eol)))
  OBVIOUS
<1>1. /\ Frames(n, msg, cut, Incoming, eol) /\ Len(Incoming) = cut[n]
      /\ Waiting(n, cut) /\ eol \in Eols /\ Incoming \in Seq(Tokens)
  BY IncomingShape DEF Framed, Types
<1>2. Incoming' = Incoming \o Encoded(m, eol)
  BY IncomingSend
<1>3. /\ Frames(n + 1, list, longer, Incoming', eol')
      /\ Len(Incoming') = longer[n + 1]
  BY <1>1, <1>2, FramesOfMore
<1>4. n \in Nat /\ cut \in [0..n -> Nat] /\ cut[0] = 0
  BY <1>1 DEF Frames
<1>5. Len(Encoded(m, eol)) \in Nat \ {0}
  BY <1>1, EncodedShape
<1>6. Len(accumulated_response) \in Nat /\ Len(accumulated_response) <= Len(Incoming)
      /\ Len(Incoming) \in Nat
  BY IncomingShape
<1>7. Waiting(n + 1, longer)'
  <2>1. CASE parsing
    BY <2>1 DEF Waiting
  <2>2. CASE n = 0
    <3>1. longer[1] = cut[0] + Len(Encoded(m, eol))
      BY <2>2 DEF MoreCut
    <3>2. Len(accumulated_response) = 0
      BY <1>1, <1>4, <1>6, <2>2
    <3>3. Len(accumulated_response) < longer[1]
      BY <1>4, <1>5, <3>1, <3>2
    <3> QED BY <3>3 DEF Waiting
  <2>3. CASE ~parsing /\ n # 0
    <3>1. longer[1] = cut[1]
      BY <1>4, <2>3 DEF MoreCut
    <3>2. Len(accumulated_response) < longer[1]
      BY <1>1, <2>3, <3>1 DEF Waiting
    <3> QED BY <3>2 DEF Waiting
  <2> QED BY <2>1, <2>2, <2>3
<1> QED BY <1>3, <1>7 DEF Framed

LEMMA MoreElements ==
  ASSUME NEW n \in Nat, NEW msg, NEW m
  PROVE  /\ n + 1 \in Nat
         /\ More(n, msg, m)[n + 1] = m
         /\ \A k \in 1..n : More(n, msg, m)[k] = msg[k]
         /\ \A k \in 1..(n + 1) : k \in 1..n \/ k = n + 1
         /\ 1..n \subseteq 1..(n + 1) /\ n + 1 \in 1..(n + 1)
         /\ \A a, b \in 1..(n + 1) : a < b => a \in 1..n
BY DEF More

\* A message stays behind its answer.
LEMMA BehindMore ==
  ASSUME NEW n \in Nat, NEW msg, NEW m, NEW k \in 1..n
  PROVE  Behind(n, msg, k) => Behind(n + 1, More(n, msg, m), k)
BY MoreElements DEF Behind

\* What is on its way when a build prints.
LEMMA OrderedOutput ==
  ASSUME Types, Known, Delivered, NEW n \in Nat, NEW msg \in [1..n -> Messages],
         Ordered(n, msg),
         NEW job \in building \cup {0}, NEW payload \in Payloads,
         sent' = [sent EXCEPT ![job] = Append(@, payload)],
         UNCHANGED <<up, building, job_data, delivered, deaths, late>>,
         NEW m \in Messages, m = Output(job, Len(sent[job]) + 1, payload),
         NEW list, list = More(n, msg, m)
  PROVE  Ordered(n + 1, list)'
<1>1. /\ m.kind = "output" /\ m.kind # "late" /\ m.job = job /\ m.number = Len(sent[job]) + 1
      /\ m.text = payload
  BY DEF Output
<1>2. /\ list[n + 1] = m /\ \A k \in 1..n : list[k] = msg[k]
      /\ \A k \in 1..(n + 1) : k \in 1..n \/ k = n + 1
      /\ 1..n \subseteq 1..(n + 1) /\ n + 1 \in 1..(n + 1)
      /\ \A a, b \in 1..(n + 1) : a < b => a \in 1..n
  BY MoreElements
<1>3. /\ job \in Jobs \cup {0} /\ job \in job_data \cup {0}
      /\ job \in building \/ job \notin Jobs
  BY DEF Types, Known, Jobs
<1>4. /\ \A j \in Jobs \cup {0} : sent[j] \in Seq(Payloads) /\ Len(sent[j]) \in Nat
      /\ \A j \in Jobs \cup {0} : Len(delivered[j]) \in Nat
  <2>1. \A j \in Jobs \cup {0} : sent[j] \in Seq(Payloads) /\ delivered[j] \in Seq(Seq(Tokens))
    BY DEF Types
  <2> QED BY <2>1, LenProperties
<1>5. /\ sent'[job] = Append(sent[job], payload)
      /\ \A j \in Jobs \cup {0} : j # job => sent'[j] = sent[j]
  BY <1>3 DEF Types
<1>6. /\ Len(sent'[job]) = Len(sent[job]) + 1
      /\ sent'[job][Len(sent[job]) + 1] = payload
      /\ \A x \in 1..Len(sent[job]) : sent'[job][x] = sent[job][x]
  BY <1>3, <1>4, <1>5, AppendProperties
<1>7. /\ Genuine(n, msg) /\ Expected(n, msg) /\ Undelivered(n, msg) /\ Complete(n, msg)
      /\ InOrder(n, msg) /\ Unanswered(n, msg) /\ Answering(n, msg)
      /\ Outdated(n, msg)
  BY DEF Ordered
<1>8. \A k \in 1..n : msg[k] \in Messages
  OBVIOUS
<1>9. Genuine(n + 1, list)'
  <2>1. ASSUME NEW k \in 1..n, msg[k].kind = "output"
        PROVE  /\ msg[k].number \in 1..Len(sent'[msg[k].job])
               /\ sent'[msg[k].job][msg[k].number] = msg[k].text
    <3>1. msg[k].job \in Jobs \cup {0}
      BY <1>8, <2>1, Kinds
    <3>2. /\ msg[k].number \in 1..Len(sent[msg[k].job])
          /\ sent[msg[k].job][msg[k].number] = msg[k].text
      BY <1>7, <2>1 DEF Genuine
    <3>3. CASE msg[k].job = job
      BY <1>3, <1>4, <1>6, <3>2, <3>3
    <3>4. CASE msg[k].job # job
      BY <1>5, <3>1, <3>2, <3>4
    <3> QED BY <3>3, <3>4
  <2>2. m.number \in 1..Len(sent'[m.job]) /\ sent'[m.job][m.number] = m.text
    BY <1>1, <1>3, <1>4, <1>6
  <2> QED BY <1>2, <2>1, <2>2 DEF Genuine
<1>10. Expected(n + 1, list)'
  BY <1>1, <1>2, <1>3, <1>7 DEF Expected
<1>11. Undelivered(n + 1, list)'
  <2>1. Len(sent[job]) + 1 > Len(delivered[job])
    BY <1>3, <1>4 DEF Delivered
  <2> QED BY <1>1, <1>2, <1>7, <2>1 DEF Undelivered
<1>12. Complete(n + 1, list)'
  <2>1. ASSUME NEW j, NEW number, Carries(n, msg, j, number)
        PROVE  Carries(n + 1, list, j, number)
    BY <1>2, <2>1 DEF Carries
  <2>2. Carries(n + 1, list, job, Len(sent[job]) + 1)
    BY <1>1, <1>2 DEF Carries
  <2>3. ASSUME NEW j \in Accountable, NEW number \in (Len(delivered[j]) + 1)..Len(sent'[j])
        PROVE  Carries(n + 1, list, j, number)
    <3>1. j \in Jobs \cup {0}
      BY DEF Accountable, Types
    <3>2. CASE j = job /\ number = Len(sent[job]) + 1
      BY <2>2, <3>2
    <3>3. CASE ~(j = job /\ number = Len(sent[job]) + 1)
      <4>1. number \in (Len(delivered[j]) + 1)..Len(sent[j])
        BY <1>3, <1>4, <1>5, <1>6, <3>1, <3>3
      <4> QED BY <1>7, <2>1, <4>1 DEF Complete
    <3> QED BY <3>2, <3>3
  <2>4. Accountable' = Accountable
    BY DEF Accountable
  <2> QED BY <2>3, <2>4 DEF Complete, Carries
<1>13. InOrder(n + 1, list)'
  <2>1. ASSUME NEW a \in 1..n, msg[a].job = job
        PROVE  msg[a].kind = "output" /\ msg[a].number < m.number
    <3>1. msg[a].kind = "output"
      BY <1>3, <1>7, <1>8, <2>1, Kinds DEF Unanswered, Outdated, Types
    <3>2. msg[a].number \in 1..Len(sent[job])
      BY <1>7, <2>1, <3>1 DEF Genuine
    <3> QED BY <1>1, <1>3, <1>4, <3>1, <3>2
  <2>2. ASSUME NEW a \in 1..(n + 1), NEW b \in 1..(n + 1), a < b, list[a].job = list[b].job,
               list[b].kind # "late"
        PROVE  /\ list[a].kind = "output"
               /\ list[b].kind = "output" => list[a].number < list[b].number
    <3>1. a \in 1..n /\ list[a] = msg[a]
      BY <1>2, <2>2
    <3>2. CASE b = n + 1
      BY <1>1, <1>2, <2>1, <2>2, <3>1, <3>2
    <3>3. CASE b \in 1..n
      BY <1>2, <1>7, <2>2, <3>1, <3>3 DEF InOrder
    <3> QED BY <1>2, <3>2, <3>3
  <2> QED BY <2>2 DEF InOrder
<1>14. Unanswered(n + 1, list)'
  BY <1>1, <1>2, <1>7 DEF Unanswered
<1>15. Answering(n + 1, list)'
  BY <1>2, <1>7 DEF Answering
<1>16. Outdated(n + 1, list)'
  BY <1>1, <1>2, <1>7, BehindMore DEF Outdated
<1> QED BY <1>9, <1>10, <1>11, <1>12, <1>13, <1>14, <1>15, <1>16 DEF Ordered

\* What is on its way when a build has ended.
LEMMA OrderedAnswer ==
  ASSUME Types, Known, NEW n \in Nat, NEW msg \in [1..n -> Messages],
         Ordered(n, msg),
         NEW job \in building, NEW status \in BOOLEAN, building' = building \ {job},
         UNCHANGED <<up, sent, job_data, delivered, deaths, late>>,
         NEW m \in Messages, m = Answer(job, status),
         NEW list, list = More(n, msg, m)
  PROVE  Ordered(n + 1, list)'
<1>1. m.kind = "answer" /\ m.job = job /\ m.kind # "output" /\ m.kind # "late"
  BY DEF Answer
<1>2. /\ list[n + 1] = m /\ \A k \in 1..n : list[k] = msg[k]
      /\ \A k \in 1..(n + 1) : k \in 1..n \/ k = n + 1
      /\ 1..n \subseteq 1..(n + 1) /\ n + 1 \in 1..(n + 1)
      /\ \A a, b \in 1..(n + 1) : a < b => a \in 1..n
  BY MoreElements
<1>3. job \in Jobs /\ job \in job_data
  BY DEF Types, Known
<1>4. /\ Genuine(n, msg) /\ Expected(n, msg) /\ Undelivered(n, msg) /\ Complete(n, msg)
      /\ InOrder(n, msg) /\ Unanswered(n, msg) /\ Answering(n, msg)
      /\ Outdated(n, msg)
  BY DEF Ordered
<1>5. Genuine(n + 1, list)'
  BY <1>1, <1>2, <1>4 DEF Genuine
<1>6. Expected(n + 1, list)'
  BY <1>1, <1>2, <1>3, <1>4 DEF Expected
<1>7. Undelivered(n + 1, list)'
  BY <1>1, <1>2, <1>4 DEF Undelivered
<1>8. Complete(n + 1, list)'
  <2>1. ASSUME NEW j, NEW number, Carries(n, msg, j, number)
        PROVE  Carries(n + 1, list, j, number)
    BY <1>2, <2>1 DEF Carries
  <2>2. Accountable' = Accountable
    BY DEF Accountable
  <2>3. ASSUME NEW j \in Accountable, NEW number \in (Len(delivered[j]) + 1)..Len(sent[j])
        PROVE  Carries(n + 1, list, j, number)
    BY <1>4, <2>1 DEF Complete
  <2> QED BY <2>2, <2>3 DEF Complete, Carries
<1>9. InOrder(n + 1, list)'
  <2>1. ASSUME NEW a \in 1..n, msg[a].job = job
        PROVE  msg[a].kind = "output"
    BY <1>4, <2>1, Kinds DEF Unanswered, Outdated
  <2>2. ASSUME NEW a \in 1..(n + 1), NEW b \in 1..(n + 1), a < b, list[a].job = list[b].job,
               list[b].kind # "late"
        PROVE  /\ list[a].kind = "output"
               /\ list[b].kind = "output" => list[a].number < list[b].number
    <3>1. a \in 1..n /\ list[a] = msg[a]
      BY <1>2, <2>2
    <3>2. CASE b = n + 1
      BY <1>1, <1>2, <2>1, <2>2, <3>1, <3>2
    <3>3. CASE b \in 1..n
      BY <1>2, <1>4, <2>2, <3>1, <3>3 DEF InOrder
    <3> QED BY <1>2, <3>2, <3>3
  <2> QED BY <2>2 DEF InOrder
<1>10. Unanswered(n + 1, list)'
  BY <1>1, <1>2, <1>4 DEF Unanswered
<1>11. Answering(n + 1, list)'
  BY <1>1, <1>2, <1>4 DEF Answering
<1>12. Outdated(n + 1, list)'
  BY <1>1, <1>2, <1>4, BehindMore DEF Outdated
<1> QED BY <1>5, <1>6, <1>7, <1>8, <1>9, <1>10, <1>11, <1>12 DEF Ordered

\* What is on its way when a thread that has outlived its build prints.
LEMMA OrderedLate ==
  ASSUME Types, NEW n \in Nat, NEW msg \in [1..n -> Messages],
         Ordered(n, msg), up,
         NEW job \in Jobs \ building, NEW payload \in Payloads,
         late' = late \cup {job},
         UNCHANGED <<up, building, sent, job_data, delivered, deaths>>,
         NEW m \in Messages, m = Late(job, payload),
         NEW list, list = More(n, msg, m)
  PROVE  Ordered(n + 1, list)'
<1>1. m.kind = "late" /\ m.job = job /\ m.kind # "output" /\ m.kind # "answer"
  BY DEF Late
<1>2. /\ list[n + 1] = m /\ \A k \in 1..n : list[k] = msg[k]
      /\ \A k \in 1..(n + 1) : k \in 1..n \/ k = n + 1
      /\ 1..n \subseteq 1..(n + 1) /\ n + 1 \in 1..(n + 1)
      /\ \A a, b \in 1..(n + 1) : a < b => a \in 1..n
      /\ \A k \in 1..n : k < n + 1
  <2>1. \A k \in 1..n : k < n + 1
    OBVIOUS
  <2> QED BY <2>1, MoreElements
<1>3. /\ Genuine(n, msg) /\ Expected(n, msg) /\ Undelivered(n, msg) /\ Complete(n, msg)
      /\ InOrder(n, msg) /\ Unanswered(n, msg) /\ Answering(n, msg)
      /\ Outdated(n, msg)
  BY DEF Ordered
<1>4. Genuine(n + 1, list)' /\ Undelivered(n + 1, list)' /\ Expected(n + 1, list)'
  BY <1>1, <1>2, <1>3 DEF Genuine, Undelivered, Expected
<1>5. Complete(n + 1, list)'
  <2>1. ASSUME NEW j, NEW number, Carries(n, msg, j, number)
        PROVE  Carries(n + 1, list, j, number)
    BY <1>2, <2>1 DEF Carries
  <2>2. Accountable' = Accountable
    BY DEF Accountable
  <2>3. ASSUME NEW j \in Accountable, NEW number \in (Len(delivered[j]) + 1)..Len(sent[j])
        PROVE  Carries(n + 1, list, j, number)
    BY <1>3, <2>1 DEF Complete
  <2> QED BY <2>2, <2>3 DEF Complete, Carries
<1>6. InOrder(n + 1, list)'
  <2>1. ASSUME NEW a \in 1..(n + 1), NEW b \in 1..(n + 1), a < b, list[a].job = list[b].job,
               list[b].kind # "late"
        PROVE  /\ list[a].kind = "output"
               /\ list[b].kind = "output" => list[a].number < list[b].number
    <3>1. a \in 1..n /\ list[a] = msg[a]
      BY <1>2, <2>1
    <3>2. b \in 1..n /\ list[b] = msg[b]
      BY <1>1, <1>2, <2>1
    <3> QED BY <1>3, <2>1, <3>1, <3>2 DEF InOrder
  <2> QED BY <2>1 DEF InOrder
<1>7. Unanswered(n + 1, list)' /\ Answering(n + 1, list)'
  BY <1>1, <1>2, <1>3 DEF Unanswered, Answering
<1>8. Outdated(n + 1, list)'
  <2>1. job \notin job_data \/ Behind(n + 1, list, n + 1)
    <3>1. ASSUME job \in job_data PROVE Behind(n + 1, list, n + 1)
      <4>1. PICK i \in 1..n : msg[i].kind = "answer" /\ msg[i].job = job
        BY <1>3, <3>1 DEF Answering
      <4> QED BY <1>1, <1>2, <4>1 DEF Behind
    <3> QED BY <3>1
  <2>2. ASSUME NEW k \in 1..n, list[k].kind = "late"
        PROVE  /\ list[k].job \in late' \ building
               /\ list[k].job \notin job_data \/ Behind(n + 1, list, k)
    BY <1>2, <1>3, <2>2, BehindMore DEF Outdated
  <2>3. ASSUME NEW k \in 1..(n + 1), list[k].kind = "late"
        PROVE  /\ list[k].job \in late' \ building
               /\ list[k].job \notin job_data \/ Behind(n + 1, list, k)
    <3>1. CASE k = n + 1
      BY <1>1, <1>2, <2>1, <3>1
    <3> QED BY <1>2, <2>2, <2>3, <3>1
  <2> QED BY <2>3 DEF Outdated, Behind
<1> QED BY <1>3, <1>4, <1>5, <1>6, <1>7, <1>8 DEF Ordered

\* A thread puts its message.
LEMMA PutOutput ==
  ASSUME Types, Ended, Threads, Sound, NEW message \in putting, putOutput(message)
  PROVE  Sound'
<1> DEFINE job == message.job
           payload == message.payload
           own == message.own
<1>0. /\ job \in Jobs \cup {0} /\ payload \in Payloads
      /\ own => job \in building
      /\ job \notin building \cup {0} => job \in Jobs \ building
      /\ up
  BY DEF Types, Threads, Ended, putOutput
<1>1. /\ responseQueue = <<>>
      /\ responseQueue' = <<<<Header(job, Len(payload)), NL>> \o payload>>
      /\ \/ /\ job \in building \cup {0}
            /\ sent' = [sent EXCEPT ![job] = Append(@, payload)]
            /\ UNCHANGED late
         \/ /\ job \in Jobs \ building
            /\ late' = late \cup {job}
            /\ UNCHANGED sent
      /\ UNCHANGED <<eol, up, building, stream, deaths, left_over, last_request, job_data,
                     accumulated_response, parsing, delivered, answers, protocol_error>>
  BY <1>0 DEF putOutput, ends, abuild
<1> HIDE DEF job, payload, own
<1>2. PICK n, msg, cut : Framed(n, msg, cut) /\ Ordered(n, msg)
  BY DEF Sound
<1>3. n \in Nat /\ msg \in [1..n -> Messages]
  BY <1>2 DEF Framed, Frames
<1>4. Known /\ Delivered /\ Answered
  BY DEF Sound
<1>5. /\ \A j \in Jobs \cup {0} : sent[j] \in Seq(Payloads) /\ Len(sent[j]) \in Nat
      /\ \A j \in Jobs \cup {0} : Len(delivered[j]) \in Nat
  <2>1. \A j \in Jobs \cup {0} : sent[j] \in Seq(Payloads) /\ delivered[j] \in Seq(Seq(Tokens))
    BY DEF Types
  <2> QED BY <2>1, LenProperties
<1>6. ASSUME NEW m \in Messages, m.kind # "answer", m.job = job, m.text = payload
      PROVE  \E longer : Framed(n + 1, More(n, msg, m), longer)'
  <2>1. PICK body : body = <<Header(job, Len(payload)), NL>> \o payload
    OBVIOUS
  <2>2. body \o eol = Encoded(m, eol)
    BY <1>6, <2>1 DEF Encoded
  <2>3. body \in Seq(Tokens)
    <3>1. payload \in Seq(Tokens) /\ Len(payload) \in Nat
      BY <1>0, TokenTypes, LenProperties
    <3>2. Header(job, Len(payload)) \in Tokens /\ NL \in Tokens
      BY <1>0, <3>1, TokenTypes
    <3>3. <<Header(job, Len(payload)), NL>> \in Seq(Tokens)
      BY <3>2
    <3> QED BY <2>1, <3>1, <3>3, ConcatProperties
  <2>4. PICK list : list = More(n, msg, m)
    OBVIOUS
  <2> QED BY <1>0, <1>1, <1>2, <2>1, <2>2, <2>3, <2>4, FramedMore
\* The thread has outlived its build.
<1>7. CASE job \in Jobs \ building /\ late' = late \cup {job} /\ sent' = sent
  <2>1. PICK m : m = Late(job, payload)
    OBVIOUS
  <2>2. /\ m \in Messages /\ m.kind # "answer" /\ m.job = job /\ m.text = payload
    BY <1>0, <2>1 DEF Late, Messages
  <2>3. PICK list : list = More(n, msg, m)
    OBVIOUS
  <2>4. \E longer : Framed(n + 1, list, longer)'
    BY <1>6, <2>2, <2>3
  <2>5. Ordered(n + 1, list)'
    BY <1>0, <1>1, <1>2, <1>3, <1>7, <2>1, <2>2, <2>3, OrderedLate
  <2>6. Known' /\ Delivered' /\ Answered'
    BY <1>1, <1>4, <1>7 DEF Known, Delivered, Answered
  <2> QED BY <2>4, <2>5, <2>6 DEF Sound
<1>8. CASE /\ job \in building \cup {0}
            /\ sent' = [sent EXCEPT ![job] = Append(@, payload)]
            /\ late' = late
  <2>1. PICK m : m = Output(job, Len(sent[job]) + 1, payload)
    OBVIOUS
  <2>2. /\ m \in Messages /\ m.kind # "answer" /\ m.job = job /\ m.text = payload
    BY <1>0, <1>5, <2>1 DEF Output, Messages
  <2>3. PICK list : list = More(n, msg, m)
    OBVIOUS
  <2>4. \E longer : Framed(n + 1, list, longer)'
    BY <1>6, <2>2, <2>3
  <2>5. Ordered(n + 1, list)'
    BY <1>0, <1>1, <1>2, <1>3, <1>4, <1>8, <2>1, <2>2, <2>3, OrderedOutput
  <2>6. \A j \in Jobs \cup {0} : j # job => sent'[j] = sent[j]
    BY <1>0, <1>8 DEF Types
  <2>7. sent'[job] = Append(sent[job], payload)
    BY <1>0, <1>8 DEF Types
  <2>8. /\ Len(sent'[job]) = Len(sent[job]) + 1
         /\ \A x \in 1..Len(sent[job]) : sent'[job][x] = sent[job][x]
    BY <1>0, <1>5, <2>7, AppendProperties
  <2>9. Known'
    <3>1. \A j \in Jobs : j > last_request => j # job
      <4>1. \A j \in building : j <= last_request
        BY <1>4 DEF Known
      <4>2. last_request \in Nat /\ \A j \in Jobs : j \in Nat \ {0}
        BY DEF Types, Jobs
      <4> QED BY <1>8, <4>1, <4>2
    <3> QED BY <1>1, <1>4, <1>8, <2>6, <3>1 DEF Known
  <2>10. Delivered'
    <3>1. ASSUME NEW j \in Jobs \cup {0} PROVE Len(delivered[j]) <= Len(sent'[j])
      <4>1. Len(delivered[j]) <= Len(sent[j])
        BY <1>4 DEF Delivered
      <4>2. CASE j = job
        BY <1>0, <1>5, <2>8, <4>1, <4>2
      <4>3. CASE j # job
        BY <2>6, <4>1, <4>3
      <4> QED BY <4>2, <4>3
    <3>2. ASSUME NEW j \in Jobs \cup {i \in {0} : deaths = 0}, NEW k \in 1..Len(delivered[j])
          PROVE  delivered[j][k] = sent'[j][k]
      <4>1. Len(delivered[j]) <= Len(sent[j]) /\ delivered[j][k] = sent[j][k]
        BY <1>4 DEF Delivered
      <4>2. CASE j = job
        BY <1>0, <1>5, <2>8, <4>1, <4>2
      <4>3. CASE j # job
        BY <2>6, <4>1, <4>3
      <4> QED BY <4>2, <4>3
    <3> QED BY <1>1, <3>1, <3>2 DEF Delivered
  <2>11. Answered'
    <3>1. \A j \in Jobs : j = job => j \in job_data
      <4>1. \A j \in Jobs : j # 0
        BY DEF Jobs
      <4> QED BY <1>4, <1>8, <4>1 DEF Known
    <3> QED BY <1>1, <1>4, <2>6, <3>1 DEF Answered
  <2> QED BY <2>4, <2>5, <2>9, <2>10, <2>11 DEF Sound
<1> QED BY <1>1, <1>7, <1>8

LEMMA SendResponse ==
  ASSUME Types, Ended, Sound, NEW job \in Jobs, NEW status \in BOOLEAN,
         sendResponse(job, status)
  PROVE  Sound'
<1>1. /\ job \in building /\ responseQueue = <<>>
      /\ responseQueue' = <<<<Response(job, status)>>>>
      /\ building' = building \ {job}
      /\ UNCHANGED <<eol, up, sent, late, stream, deaths, left_over, last_request, job_data,
                     accumulated_response, parsing, delivered, answers, protocol_error>>
  BY DEF sendResponse, ends, abuild, printed
<1>2. PICK n, msg, cut : Framed(n, msg, cut) /\ Ordered(n, msg)
  BY DEF Sound
<1>3. n \in Nat /\ msg \in [1..n -> Messages]
  BY <1>2 DEF Framed, Frames
<1>4. Known /\ Delivered /\ Answered
  BY DEF Sound
<1>5. up
  BY <1>1 DEF Ended
<1>6. PICK m : m = Answer(job, status)
  OBVIOUS
<1>7. /\ m \in Messages /\ m.kind = "answer" /\ m.kind # "output"
      /\ m.job = job /\ m.status = status
  BY <1>6 DEF Answer, Messages
<1>8. PICK body : body = <<Response(job, status)>>
  OBVIOUS
<1>9. body \o eol = Encoded(m, eol)
  BY <1>7, <1>8 DEF Encoded
<1>10. body \in Seq(Tokens)
  BY <1>8, TokenTypes
<1>11. PICK list : list = More(n, msg, m)
  OBVIOUS
<1>12. \E longer : Framed(n + 1, list, longer)'
  BY <1>1, <1>2, <1>5, <1>7, <1>8, <1>9, <1>10, <1>11, FramedMore
<1>13. Ordered(n + 1, list)'
  BY <1>1, <1>2, <1>3, <1>4, <1>6, <1>7, <1>11, OrderedAnswer
<1>14. Known' /\ Delivered' /\ Answered'
  BY <1>1, <1>4 DEF Known, Delivered, Answered
<1> QED BY <1>12, <1>13, <1>14 DEF Sound

\* Steps that change neither the messages nor the books.
LEMMA SameBooks ==
  ASSUME Known, Delivered, Answered,
         UNCHANGED <<building, sent, late, deaths, last_request, job_data, delivered, answers,
                     protocol_error>>
  PROVE  Known' /\ Delivered' /\ Answered'
BY DEF Known, Delivered, Answered

LEMMA SameOrder ==
  ASSUME NEW n, NEW msg, Ordered(n, msg),
         UNCHANGED <<up, building, sent, late, deaths, job_data, delivered>>
  PROVE  Ordered(n, msg)'
<1>1. /\ Genuine(n, msg) /\ Expected(n, msg) /\ Undelivered(n, msg) /\ Complete(n, msg)
      /\ InOrder(n, msg) /\ Unanswered(n, msg) /\ Answering(n, msg)
      /\ Outdated(n, msg)
  BY DEF Ordered
<1>2. Genuine(n, msg)' /\ Expected(n, msg)' /\ Undelivered(n, msg)'
  BY <1>1 DEF Genuine, Expected, Undelivered
<1>3. Complete(n, msg)'
  BY <1>1 DEF Complete, Accountable, Carries
<1>4. InOrder(n, msg)' /\ Unanswered(n, msg)' /\ Answering(n, msg)' /\ Outdated(n, msg)'
  BY <1>1 DEF InOrder, Unanswered, Answering, Outdated, Behind
<1> QED BY <1>2, <1>3, <1>4 DEF Ordered

\* A thread begins to print, or its group loses its job.
LEMMA ThreadStep ==
  ASSUME Sound,
         UNCHANGED <<eol, up, building, responseQueue, sent, late, stream, deaths,
                     last_request, job_data, accumulated_response, parsing, delivered,
                     answers, protocol_error>>
  PROVE  Sound'
<1>1. PICK n, msg, cut : Framed(n, msg, cut) /\ Ordered(n, msg)
  BY DEF Sound
<1>2. Queued' = Queued
  BY DEF Queued
<1>3. Framed(n, msg, cut)'
  BY <1>1, <1>2 DEF Framed, Waiting, Incoming
<1>4. Ordered(n, msg)'
  BY <1>1, SameOrder
<1>5. Known' /\ Delivered' /\ Answered'
  BY SameBooks DEF Sound
<1> QED BY <1>3, <1>4, <1>5 DEF Sound

LEMMA Respond ==
  ASSUME Types, Sound, respond
  PROVE  Sound'
<1>1. UNCHANGED <<eol, up, building, sent, late, deaths, left_over, last_request, job_data,
                  accumulated_response, parsing, delivered, answers, protocol_error>>
  BY DEF respond, ends, abuild, threads, printed
<1>2. PICK n, msg, cut : Framed(n, msg, cut) /\ Ordered(n, msg)
  BY DEF Sound
<1>3. Framed(n, msg, cut)'
  BY <1>1, <1>2, IncomingRespond DEF Framed, Waiting
<1>4. Ordered(n, msg)'
  BY <1>1, <1>2, SameOrder
<1> QED BY <1>1, <1>3, <1>4, SameBooks DEF Sound

LEMMA Die ==
  ASSUME Types, Types', Sound, die
  PROVE  Sound'
<1>1. /\ ~up' /\ building' = {} /\ deaths' > 0 /\ deaths' # 0
      /\ UNCHANGED <<eol, sent, late, left_over, last_request, job_data,
                     accumulated_response, parsing, delivered, answers, protocol_error>>
  BY DEF die, abuild, printed, Types
<1>2. PICK n, msg, cut : Framed(n, msg, cut) /\ Ordered(n, msg)
  BY DEF Sound
<1>3. Frames(n, msg, cut, Incoming', eol')
  BY <1>1, <1>2, IncomingCut, IncomingShape, FramesOfPrefix DEF Framed
<1>4. Framed(n, msg, cut)'
  BY <1>1, <1>2, <1>3 DEF Framed, Waiting
<1>5. /\ Genuine(n, msg) /\ Expected(n, msg) /\ Undelivered(n, msg) /\ Complete(n, msg)
      /\ InOrder(n, msg) /\ Outdated(n, msg)
  BY <1>2 DEF Ordered
<1>6. Complete(n, msg)'
  <2>1. Accountable' \subseteq Accountable
    BY <1>1 DEF Accountable
  <2> QED BY <1>1, <1>5, <2>1 DEF Complete, Carries
<1>7. Genuine(n, msg)' /\ Expected(n, msg)' /\ Undelivered(n, msg)'
  BY <1>1, <1>5 DEF Genuine, Expected, Undelivered
<1>8. InOrder(n, msg)' /\ Unanswered(n, msg)' /\ Answering(n, msg)' /\ Outdated(n, msg)'
  BY <1>1, <1>5 DEF InOrder, Unanswered, Answering, Outdated, Behind
<1>9. Ordered(n, msg)'
  BY <1>6, <1>7, <1>8 DEF Ordered
<1>10. Known' /\ Delivered' /\ Answered'
  BY <1>1 DEF Sound, Known, Delivered, Answered
<1> QED BY <1>4, <1>9, <1>10 DEF Sound

-----------------------------------------------------------------------------
(* abuild's steps *)

LEMMA MakeRequest ==
  ASSUME Types, Threads, Sound, makeRequest
  PROVE  Sound'
<1>1. /\ up /\ last_request' = last_request + 1
      /\ job_data' = job_data \cup {last_request + 1}
      /\ building' = building \cup {last_request + 1}
      /\ UNCHANGED <<eol, up, responseQueue, sent, late, stream, deaths, left_over,
                     accumulated_response, parsing, delivered, answers, protocol_error>>
  BY DEF makeRequest, ends, printed
<1>2. PICK job : job = last_request + 1
  OBVIOUS
<1>3. /\ job \in Jobs /\ job > last_request /\ last_request \in Nat
      /\ \A j \in Jobs : j \in Nat
  BY <1>2, JavaAssumptions DEF makeRequest, Types, Jobs
<1>4. Known /\ Delivered /\ Answered
  BY DEF Sound
<1>5. answers[job] = <<>> /\ sent[job] = <<>> /\ delivered[job] = <<>>
  BY <1>3, <1>4 DEF Known
<1>6. job \notin job_data
  BY <1>3, <1>4 DEF Known, Types
<1>7. PICK n, msg, cut : Framed(n, msg, cut) /\ Ordered(n, msg)
  BY DEF Sound
<1>8. n \in Nat /\ msg \in [1..n -> Messages]
  BY <1>7 DEF Framed, Frames
<1>9. Framed(n, msg, cut)'
  <2>1. Queued' = Queued
    BY <1>1 DEF Queued
  <2>2. Incoming' = Incoming
    BY <1>1, <2>1 DEF Incoming
  <2> QED BY <1>1, <1>7, <2>2 DEF Framed, Waiting
<1>10. /\ Genuine(n, msg) /\ Expected(n, msg) /\ Undelivered(n, msg) /\ Complete(n, msg)
       /\ InOrder(n, msg) /\ Unanswered(n, msg) /\ Answering(n, msg)
       /\ Outdated(n, msg)
  BY <1>7 DEF Ordered
<1>11. Complete(n, msg)'
  <2>1. Accountable' = Accountable \cup {job}
    BY <1>1, <1>2 DEF Accountable
  <2>2. ASSUME NEW j \in Accountable', NEW number \in (Len(delivered[j]) + 1)..Len(sent[j])
        PROVE  Carries(n, msg, j, number)
    <3>1. CASE j = job
      BY <1>5, <2>2, <3>1
    <3>2. CASE j \in Accountable
      BY <1>10, <2>2, <3>2 DEF Complete
    <3> QED BY <2>1, <3>1, <3>2
  <2> QED BY <1>1, <2>2 DEF Complete, Carries
<1>12. Genuine(n, msg)' /\ Expected(n, msg)' /\ Undelivered(n, msg)' /\ InOrder(n, msg)'
  BY <1>1, <1>10 DEF Genuine, Expected, Undelivered, InOrder
<1>13. Unanswered(n, msg)'
  <2>1. ASSUME NEW k \in 1..n, msg[k].kind = "answer" PROVE msg[k].job # job
    <3>1. msg[k].job \in Jobs /\ msg[k].job \in job_data \cup {0}
      BY <1>8, <1>10, <2>1, Kinds DEF Expected
    <3>2. msg[k].job # 0
      BY <3>1 DEF Jobs
    <3> QED BY <1>6, <3>1, <3>2
  <2> QED BY <1>1, <1>2, <1>10, <2>1 DEF Unanswered
<1>14. Answering(n, msg)'
  <2>1. job_data' \ building' \subseteq job_data \ building
    BY <1>1
  <2> QED BY <1>1, <1>10, <2>1 DEF Answering
<1>18. Outdated(n, msg)'
  <2>1. job \notin late
    BY <1>3 DEF Threads, Types
  <2> QED BY <1>1, <1>2, <1>10, <2>1 DEF Outdated, Behind
<1>15. Ordered(n, msg)'
  BY <1>11, <1>12, <1>13, <1>14, <1>18 DEF Ordered
<1>16. Known'
  <2>1. building' \subseteq job_data'
    BY <1>1, <1>4 DEF Known
  <2>2. \A j \in job_data' : j <= last_request' /\ answers'[j] = <<>>
    <3>1. \A j \in job_data : j <= last_request /\ answers[j] = <<>> /\ j \in Nat
      BY <1>3, <1>4 DEF Known, Types
    <3>2. job <= last_request'
      BY <1>1, <1>2, <1>3
    <3> QED BY <1>1, <1>2, <1>3, <1>5, <3>1, <3>2
  <2>3. \A j \in Jobs : j > last_request' => j > last_request
    BY <1>1, <1>3
  <2> QED BY <1>1, <1>4, <2>1, <2>2, <2>3 DEF Known
<1>17. Delivered' /\ Answered'
  BY <1>1, <1>4 DEF Delivered, Answered
<1> QED BY <1>9, <1>15, <1>16, <1>17 DEF Sound

LEMMA HandleRead ==
  ASSUME Types, Sound, NEW length \in 1..MaxChunk, handleRead(length)
  PROVE  Sound'
<1>1. /\ parsing'
      /\ UNCHANGED <<eol, up, building, sent, late, deaths, left_over, last_request, job_data,
                     delivered, answers, protocol_error>>
  BY DEF handleRead, ends, java, threads, printed
<1>2. PICK n, msg, cut : Framed(n, msg, cut) /\ Ordered(n, msg)
  BY DEF Sound
<1>3. Framed(n, msg, cut)'
  BY <1>1, <1>2, IncomingRead DEF Framed, Waiting
<1>4. Ordered(n, msg)'
  BY <1>1, <1>2, SameOrder
<1> QED BY <1>1, <1>3, <1>4, SameBooks DEF Sound

\* The end of the stream is reached between two messages.
LEMMA FailPending ==
  ASSUME Types, Ended, Sound, failPending, ~left_over'
  PROVE  Sound'
<1>1. /\ ~up /\ up' /\ stream = <<>> /\ stream' = <<>>
      /\ job_data' = {} /\ left_over' = (left_over \/ accumulated_response # <<>>)
      /\ answers' = [job \in Jobs |->
                       IF job \in job_data THEN Append(answers[job], FALSE)
                       ELSE answers[job]]
      /\ UNCHANGED <<eol, building, responseQueue, sent, late, deaths, last_request,
                     accumulated_response, parsing, delivered, protocol_error>>
  BY DEF failPending, threads, printed
<1>2. accumulated_response = <<>> /\ accumulated_response' = <<>>
  BY <1>1
<1>3. deaths > 0 /\ building = {} /\ responseQueue = <<>>
  BY <1>1 DEF Ended
<1>4. Incoming' = <<>>
  BY <1>1, <1>2, <1>3 DEF Incoming, Queued
<1>5. PICK msg : msg = [k \in 1..0 |-> Answer(1, TRUE)]
  OBVIOUS
<1>6. PICK cut : cut = [k \in 0..0 |-> 0]
  OBVIOUS
<1>7. Frames(0, msg, cut, <<>>, eol')
  <2>1. msg \in [1..0 -> Messages]
    BY <1>5
  <2>2. cut \in [0..0 -> Nat] /\ cut[0] = 0
    BY <1>6
  <2> QED BY <2>1, <2>2 DEF Frames
<1>8. Framed(0, msg, cut)'
  BY <1>4, <1>6, <1>7 DEF Framed, Waiting
<1>9. Ordered(0, msg)'
  <2>1. Accountable' = {}
    BY <1>1, <1>3 DEF Accountable, Types
  <2>2. Complete(0, msg)'
    BY <2>1 DEF Complete
  <2>3. Answering(0, msg)'
    BY <1>1 DEF Answering
  <2> QED BY <2>2, <2>3 DEF Ordered, Genuine, Expected, Undelivered, InOrder, Unanswered,
                         Outdated
<1>10. Known /\ Delivered /\ Answered
  BY DEF Sound
<1>11. Known'
  <2>1. \A j \in Jobs : j > last_request => j \notin job_data
    BY <1>10 DEF Known, Types, Jobs
  <2> QED BY <1>1, <1>3, <1>10, <2>1 DEF Known
<1>12. Delivered'
  BY <1>1, <1>10 DEF Delivered
<1>13. Answered'
  <2>1. \A j \in job_data : answers[j] = <<>>
    BY <1>10 DEF Known
  <2>2. Append(<<>>, FALSE) = <<FALSE>>
    OBVIOUS
  <2>3. \A j \in job_data : j \in Jobs => answers'[j] = <<FALSE>>
    BY <1>1, <2>1, <2>2
  <2> QED BY <1>1, <1>3, <1>10, <2>3 DEF Answered
<1> QED BY <1>8, <1>9, <1>11, <1>12, <1>13 DEF Sound

-----------------------------------------------------------------------------
(* The parser *)

\* The first message is at the front of what is accumulated.
LEMMA FirstMessage ==
  ASSUME Types, NEW n, NEW msg, NEW cut, Framed(n, msg, cut), n # 0
  PROVE  /\ n \in Nat /\ msg[1] \in Messages
         /\ cut[1] = Len(Encoded(msg[1], eol)) /\ cut[1] \in Nat \ {0}
         /\ \A i \in 1..Len(accumulated_response) :
              i <= cut[1] => accumulated_response[i] = Encoded(msg[1], eol)[i]
<1>1. /\ n \in Nat /\ msg \in [1..n -> Messages] /\ cut[0] = 0
      /\ \A k \in 1..n : cut[k] = cut[k - 1] + Len(Encoded(msg[k], eol))
      /\ \A k \in 1..n : \A i \in 1..Len(Encoded(msg[k], eol)) :
           cut[k - 1] + i <= Len(Incoming)
             => Incoming[cut[k - 1] + i] = Encoded(msg[k], eol)[i]
  BY DEF Framed, Frames
<1>2. 1 \in 1..n /\ 1 - 1 = 0
  BY <1>1
<1>3. msg[1] \in Messages /\ Len(Encoded(msg[1], eol)) \in Nat \ {0}
  BY <1>1, <1>2, EncodedShape DEF Types
<1>4. cut[1] = Len(Encoded(msg[1], eol))
  BY <1>1, <1>2, <1>3
<1>5. ASSUME NEW i \in 1..Len(accumulated_response), i <= cut[1]
      PROVE  accumulated_response[i] = Encoded(msg[1], eol)[i]
  <2>1. i \in 1..Len(Encoded(msg[1], eol)) /\ i <= Len(Incoming) /\ 0 + i = i
    BY <1>3, <1>4, <1>5, IncomingShape
  <2>2. Incoming[i] = Encoded(msg[1], eol)[i]
    BY <1>1, <1>2, <2>1
  <2> QED BY <1>5, <2>2, IncomingShape
<1> QED BY <1>1, <1>3, <1>4, <1>5

LEMMA NoLine ==
  ASSUME Types, NEW n, NEW msg, NEW cut, Framed(n, msg, cut), ~HasLine
  PROVE  n = 0 \/ Len(accumulated_response) < cut[1]
<1> SUFFICES ASSUME n # 0, ~(Len(accumulated_response) < cut[1])
             PROVE  FALSE
  OBVIOUS
<1>1. Len(accumulated_response) \in Nat /\ accumulated_response \in Seq(Tokens)
  BY IncomingShape DEF Types
<1>2. /\ msg[1] \in Messages /\ cut[1] = Len(Encoded(msg[1], eol))
      /\ cut[1] \in 1..Len(accumulated_response) /\ cut[1] <= cut[1]
  BY <1>1, FirstMessage
<1>3. accumulated_response[cut[1]] = Encoded(msg[1], eol)[cut[1]]
  BY <1>2, FirstMessage
<1>4. accumulated_response[cut[1]] = NL
  BY <1>2, <1>3, EncodedShape DEF Types
<1> QED BY <1>1, <1>2, <1>4, FirstLine

LEMMA SomeMessage ==
  ASSUME Types, NEW n, NEW msg, NEW cut, Framed(n, msg, cut), HasLine
  PROVE  n # 0
<1>1. Len(Incoming) <= cut[n] /\ cut[0] = 0
  BY DEF Framed, Frames
<1>2. Len(accumulated_response) \in Nat \ {0}
  <2>1. accumulated_response \in Seq(Tokens)
    BY DEF Types
  <2>2. LineEnd \in 1..Len(accumulated_response)
    BY <2>1, FirstLine
  <2> QED BY <2>2, IncomingShape
<1> QED BY <1>1, <1>2, IncomingShape

\* A response that has arrived with its line end is read as what it is.
LEMMA AnswerLine ==
  ASSUME Types, NEW n, NEW msg, NEW cut, Framed(n, msg, cut), n # 0, HasLine,
         msg[1].kind = "answer"
  PROVE  /\ LineEnd = cut[1] /\ cut[1] <= Len(accumulated_response)
         /\ Line # <<>> /\ Line[1] = Response(msg[1].job, msg[1].status)
         /\ Matches("response") /\ ~Matches("header")
<1> DEFINE acc == accumulated_response
           code == Encoded(msg[1], eol)
<1>1. /\ msg[1] \in Messages /\ cut[1] = Len(code)
      /\ \A i \in 1..Len(acc) : i <= cut[1] => acc[i] = code[i]
  BY FirstMessage
<1>2. /\ msg[1].job \in Jobs /\ msg[1].status \in BOOLEAN
  BY <1>1, Kinds
<1>3. /\ eol \in Eols /\ eol \in Seq(Tokens) /\ Len(eol) \in {1, 2}
      /\ Len(eol) = 1 => eol[1] = NL
      /\ Len(eol) = 2 => eol[1] = CR /\ eol[2] = NL
  BY EolShape DEF Types
<1>4. /\ Len(code) = 1 + Len(eol)
      /\ code[1] = Response(msg[1].job, msg[1].status)
      /\ \A i \in 1..Len(eol) : code[1 + i] = eol[i]
  BY <1>1, <1>3, AnswerShape
<1> HIDE DEF code
<1>5. /\ acc \in Seq(Tokens) /\ Len(acc) \in Nat
      /\ LineEnd \in 1..Len(acc) /\ acc[LineEnd] = NL
      /\ \A y \in 1..(LineEnd - 1) : acc[y] # NL
  BY FirstLine, LenProperties DEF Types
<1>6. acc[1] = code[1] /\ code[1] # NL
  <2>1. acc[1] = code[1]
    BY <1>1, <1>3, <1>4, <1>5
  <2>2. Response(msg[1].job, msg[1].status) # NL
    BY <1>2, TokenTypes
  <2> QED BY <1>4, <2>1, <2>2, Zenon
<1>7. LineEnd >= 2 /\ Len(acc) >= 2 /\ acc[2] = eol[1]
  <2>1. LineEnd # 1
    BY <1>5, <1>6
  <2>2. LineEnd >= 2 /\ Len(acc) >= 2
    BY <1>5, <2>1
  <2>3. code[1 + 1] = eol[1]
    BY <1>3, <1>4
  <2>4. acc[2] = code[2]
    BY <1>1, <1>3, <1>4, <1>5, <2>2
  <2> QED BY <2>2, <2>3, <2>4
<1>8. LineEnd = 1 + Len(eol)
  <2>1. CASE Len(eol) = 1
    <3>1. acc[2] = NL
      BY <1>3, <1>7, <2>1
    <3>2. ~(2 \in 1..(LineEnd - 1))
      BY <1>5, <3>1
    <3> QED BY <1>5, <1>7, <2>1, <3>2
  <2>2. CASE Len(eol) = 2
    <3>1. acc[2] # NL
      BY <1>3, <1>7, <2>2, TokenTypes
    <3>2. LineEnd >= 3 /\ Len(acc) >= 3
      BY <1>5, <1>7, <3>1
    <3>3. code[1 + 2] = NL
      BY <1>3, <1>4, <2>2
    <3>4. acc[3] = NL
      BY <1>1, <1>4, <1>5, <2>2, <3>2, <3>3
    <3>5. ~(3 \in 1..(LineEnd - 1))
      BY <1>5, <3>4
    <3> QED BY <1>5, <2>2, <3>2, <3>5
  <2> QED BY <1>3, <2>1, <2>2
<1>9. LineEnd = cut[1] /\ cut[1] <= Len(acc)
  BY <1>1, <1>4, <1>5, <1>8
<1>10. /\ Line \in Seq(Tokens) /\ Len(Line) = Len(eol)
       /\ \A i \in 1..Len(eol) : Line[i] = acc[i]
  <2>1. /\ Line \in Seq(Tokens) /\ Len(Line) = LineEnd - 1
        /\ \A i \in 1..(LineEnd - 1) : Line[i] = acc[i]
    BY <1>5, LineTypes
  <2> QED BY <1>3, <1>8, <2>1
<1>11. Line # <<>> /\ Line[1] = Response(msg[1].job, msg[1].status)
  <2>1. Line # <<>>
    BY <1>3, <1>10
  <2>2. Line[1] = acc[1]
    BY <1>3, <1>10
  <2> QED BY <1>4, <1>6, <2>1, <2>2
<1>12. Line[1].token = "response"
  BY <1>11 DEF Response
<1>13. Tail(Line) \in {<<>>, <<CR>>}
  <2>1. /\ Tail(Line) \in Seq(Tokens) /\ Len(Tail(Line)) = Len(eol) - 1
        /\ \A i \in 1..Len(Tail(Line)) : Tail(Line)[i] = Line[i + 1]
    BY <1>10, <1>11, HeadTailProperties
  <2>2. CASE Len(eol) = 1
    <3>1. Len(Tail(Line)) = 0
      BY <2>1, <2>2
    <3> QED BY <2>1, <3>1, EmptySeq
  <2>3. CASE Len(eol) = 2
    <3> DEFINE tail == Tail(Line)
    <3>1. Len(tail) = 1 /\ tail[1] = CR
      <4>1. Len(tail) = 1
        BY <2>1, <2>3
      <4>2. tail[1] = Line[1 + 1]
        <5>1. 1 \in 1..Len(tail)
          <6> HIDE DEF tail
          <6> QED BY <4>1
        <5> QED BY <2>1, <5>1, Zenon
      <4>3. Line[2] = acc[2]
        BY <1>10, <2>3
      <4>4. acc[2] = CR
        BY <1>3, <1>7, <2>3
      <4> QED BY <4>1, <4>2, <4>3, <4>4
    <3>2. <<CR>> \in Seq(Tokens) /\ Len(<<CR>>) = 1 /\ <<CR>>[1] = CR
      BY TokenTypes
    <3>3. tail = <<CR>>
      <4>1. tail \in Seq(Tokens) /\ Len(tail) = Len(<<CR>>)
        BY <2>1, <3>1, <3>2
      <4> HIDE DEF tail
      <4>2. \A i \in 1..Len(tail) : tail[i] = <<CR>>[i]
        BY <3>1, <3>2
      <4> QED BY <3>2, <4>1, <4>2, SeqEqual
    <3> QED BY <3>3
  <2> QED BY <1>3, <2>2, <2>3
<1>14. Matches("response") /\ ~Matches("header")
  BY <1>11, <1>12, <1>13 DEF Matches
<1> QED BY <1>9, <1>11, <1>14

\* A header is the first line of its message, whatever the output holds.
LEMMA HeaderLine ==
  ASSUME Types, NEW n, NEW msg, NEW cut, Framed(n, msg, cut), n # 0, HasLine,
         msg[1].kind # "answer"
  PROVE  /\ LineEnd = 2 /\ cut[1] = 2 + Len(msg[1].text) + Len(eol)
         /\ Len(accumulated_response) >= 2
         /\ Line # <<>> /\ Line[1] = Header(msg[1].job, Len(msg[1].text))
         /\ Matches("header") /\ ~Matches("response")
<1> DEFINE acc == accumulated_response
           code == Encoded(msg[1], eol)
<1>1. /\ msg[1] \in Messages /\ cut[1] = Len(code)
      /\ \A i \in 1..Len(acc) : i <= cut[1] => acc[i] = code[i]
  BY FirstMessage
<1>2. msg[1].job \in Jobs \cup {0} /\ Len(msg[1].text) \in Nat
  BY <1>1, Kinds
<1>3. eol \in Eols /\ Len(eol) \in {1, 2}
  BY EolShape DEF Types
<1>4. /\ Len(code) = 2 + Len(msg[1].text) + Len(eol)
      /\ code[1] = Header(msg[1].job, Len(msg[1].text)) /\ code[2] = NL
  BY <1>1, <1>3, OutputShape
<1> HIDE DEF code
<1>5. /\ acc \in Seq(Tokens) /\ Len(acc) \in Nat
      /\ LineEnd \in 1..Len(acc) /\ acc[LineEnd] = NL
      /\ \A y \in 1..(LineEnd - 1) : acc[y] # NL
  BY FirstLine, LenProperties DEF Types
<1>6. acc[1] = code[1] /\ code[1] # NL
  <2>1. acc[1] = code[1]
    BY <1>1, <1>2, <1>3, <1>4, <1>5
  <2>2. Header(msg[1].job, Len(msg[1].text)) # NL
    BY <1>2, TokenTypes
  <2> QED BY <1>4, <2>1, <2>2, Zenon
<1>7. LineEnd >= 2 /\ Len(acc) >= 2
  <2>1. LineEnd # 1
    BY <1>5, <1>6
  <2> QED BY <1>5, <2>1
<1>8. acc[2] = NL
  BY <1>1, <1>2, <1>3, <1>4, <1>5, <1>7
<1>9. LineEnd = 2
  <2>1. ~(2 \in 1..(LineEnd - 1))
    BY <1>5, <1>8
  <2> QED BY <1>5, <1>7, <2>1
<1>10. /\ Line \in Seq(Tokens) /\ Len(Line) = 1 /\ Line[1] = acc[1]
  <2>1. /\ Line \in Seq(Tokens) /\ Len(Line) = LineEnd - 1
        /\ \A i \in 1..(LineEnd - 1) : Line[i] = acc[i]
    BY <1>5, LineTypes
  <2> QED BY <1>9, <2>1
<1>11. Line # <<>> /\ Line[1] = Header(msg[1].job, Len(msg[1].text))
  <2>1. Len(Line) # Len(<<>>)
    BY <1>10
  <2>2. Line # <<>>
    BY <2>1, Zenon
  <2> QED BY <1>4, <1>6, <1>10, <2>2
<1>12. Line[1].token = "header"
  BY <1>11 DEF Header
<1>13. Tail(Line) = <<>>
  <2>1. Tail(Line) \in Seq(Tokens) /\ Len(Tail(Line)) = 0
    BY <1>10, <1>11, HeadTailProperties
  <2> QED BY <2>1, EmptySeq
<1>14. Matches("header") /\ ~Matches("response")
  BY <1>11, <1>12, <1>13 DEF Matches
<1> QED BY <1>1, <1>4, <1>7, <1>9, <1>11, <1>14

\* An output is taken when its last byte and its line end have arrived, and
\* not before.
LEMMA TakenWhenThere ==
  ASSUME Types, NEW n, NEW msg, NEW cut, Framed(n, msg, cut), n # 0, HasLine,
         msg[1].kind # "answer"
  PROVE  LET length == Len(msg[1].text)
         IN  \/ /\ cut[1] <= Len(accumulated_response)
                /\ SubSeq(Rest, 1, length) = msg[1].text
                /\ \E r : /\ RestAfter(length) = {r} /\ r \in Seq(Tokens)
                          /\ Dropped(r, accumulated_response, cut[1])
             \/ /\ Len(accumulated_response) < cut[1]
                /\ RestAfter(length) = {}
<1> DEFINE acc == accumulated_response
           code == Encoded(msg[1], eol)
           length == Len(msg[1].text)
           rest == SubSeq(Rest, length + 1, Len(Rest))
<1>1. /\ msg[1] \in Messages /\ cut[1] = Len(code)
      /\ \A i \in 1..Len(acc) : i <= cut[1] => acc[i] = code[i]
  BY FirstMessage
<1>2. /\ length \in Nat /\ msg[1].text \in Seq(Tokens)
  BY <1>1, Kinds, TokenTypes
<1>3. /\ eol \in Eols /\ Len(eol) \in {1, 2}
      /\ Len(eol) = 1 => eol[1] = NL
      /\ Len(eol) = 2 => eol[1] = CR /\ eol[2] = NL
  BY EolShape DEF Types
<1>4. /\ Len(code) = 2 + length + Len(eol)
      /\ \A i \in 1..length : code[2 + i] = msg[1].text[i]
      /\ \A i \in 1..Len(eol) : code[2 + length + i] = eol[i]
  BY <1>1, <1>3, OutputShape
<1> HIDE DEF code
<1>5. LineEnd = 2 /\ Len(acc) >= 2 /\ cut[1] = 2 + length + Len(eol)
  BY HeaderLine
<1>6. acc \in Seq(Tokens) /\ Len(acc) \in Nat
  BY LenProperties DEF Types
<1>7. /\ Rest \in Seq(Tokens) /\ Len(Rest) = Len(acc) - 2
      /\ \A i \in 1..Len(Rest) : Rest[i] = acc[2 + i]
  BY <1>5, <1>6, LineTypes
<1>8. Len(Rest) \in Nat
  BY <1>5, <1>6, <1>7
<1> HIDE DEF length
<1>9. /\ rest \in Seq(Tokens)
      /\ Len(Rest) > length => Len(rest) = Len(Rest) - length
      /\ \A i \in 1..(Len(Rest) - length) : rest[i] = Rest[length + i]
  <2>1. /\ rest \in Seq(Tokens)
        /\ Len(rest) = IF length + 1 <= Len(Rest) THEN Len(Rest) - (length + 1) + 1 ELSE 0
        /\ \A i \in 1..(Len(Rest) - (length + 1) + 1) : rest[i] = Rest[(length + 1) + i - 1]
    BY <1>2, <1>7, <1>8, PartTypes
  <2> HIDE DEF rest
  <2> QED BY <1>2, <1>8, <2>1
<1> DEFINE Unix == Len(Rest) > length /\ rest[1] = NL
           Dos == Len(Rest) > length + 1 /\ SubSeq(rest, 1, 2) = <<CR, NL>>
           one == {Tail(rest)}
           two == {SubSeq(rest, 3, Len(rest))}
<1>10. RestAfter(length) = CASE Unix -> one [] Dos -> two [] OTHER -> {}
  BY DEF RestAfter
<1> HIDE DEF rest
<1>11. Len(rest) \in Nat
  BY <1>9, LenProperties
<1>12. ASSUME cut[1] <= Len(acc)
       PROVE  /\ Len(rest) = Len(acc) - 2 - length /\ Len(rest) >= Len(eol)
              /\ \A i \in 1..Len(rest) : rest[i] = acc[2 + length + i]
              /\ \A i \in 1..Len(eol) : rest[i] = eol[i]
              /\ SubSeq(Rest, 1, length) = msg[1].text
  <2>1. Len(rest) = Len(acc) - 2 - length /\ Len(rest) >= Len(eol)
    BY <1>2, <1>3, <1>5, <1>6, <1>7, <1>9, <1>12
  <2>2. ASSUME NEW i \in 1..Len(rest) PROVE rest[i] = acc[2 + length + i]
    <3> DEFINE x == length + i
    <3>1. x \in 1..Len(Rest) /\ 2 + x = 2 + length + i /\ i \in 1..(Len(Rest) - length)
      BY <1>2, <1>6, <1>7, <1>11, <2>1
    <3> HIDE DEF x
    <3>2. Rest[x] = acc[2 + x]
      BY <1>7, <3>1
    <3>3. rest[i] = Rest[x]
      BY <1>9, <3>1 DEF x
    <3> QED BY <3>1, <3>2, <3>3
  <2>3. ASSUME NEW i \in 1..Len(eol) PROVE rest[i] = eol[i]
    <3> DEFINE y == 2 + length + i
    <3>1. i \in 1..Len(rest)
      BY <1>3, <1>11, <2>1
    <3>2. y \in 1..Len(acc) /\ y <= cut[1]
      BY <1>2, <1>3, <1>5, <1>6, <1>12
    <3>3. rest[i] = acc[y] /\ code[y] = eol[i]
      BY <1>4, <2>2, <3>1
    <3> HIDE DEF y
    <3>4. acc[y] = code[y]
      BY <1>1, <3>2
    <3> QED BY <3>3, <3>4
  <2>4. SubSeq(Rest, 1, length) = msg[1].text
    <3> DEFINE text == SubSeq(Rest, 1, length)
    <3>1. length <= Len(Rest) /\ 1 \in Nat \ {0}
      BY <1>2, <1>3, <1>5, <1>6, <1>7, <1>12
    <3>2. /\ text \in Seq(Tokens) /\ Len(text) = IF 1 <= length THEN length - 1 + 1 ELSE 0
          /\ \A i \in 1..(length - 1 + 1) : text[i] = Rest[1 + i - 1]
      BY <1>2, <1>7, <1>8, <3>1, PartTypes
    <3> HIDE DEF text
    <3>3. Len(text) = length /\ \A i \in 1..length : text[i] = Rest[i]
      BY <1>2, <3>2
    <3>4. ASSUME NEW i \in 1..length PROVE text[i] = msg[1].text[i]
      <4> DEFINE y == 2 + i
      <4>1. i \in 1..Len(Rest) /\ y \in 1..Len(acc) /\ y <= cut[1]
        BY <1>2, <1>3, <1>5, <1>6, <1>7, <1>8, <1>12, <3>1
      <4>2. Rest[i] = acc[y] /\ code[y] = msg[1].text[i]
        BY <1>4, <1>7, <4>1
      <4> HIDE DEF y
      <4>3. acc[y] = code[y]
        BY <1>1, <4>1
      <4> QED BY <3>3, <4>2, <4>3
    <3>5. text = msg[1].text
      BY <1>2, <3>2, <3>3, <3>4, SeqEqual DEF length
    <3> QED BY <3>5 DEF text
  <2> QED BY <2>1, <2>2, <2>3, <2>4
<1>13. CASE cut[1] <= Len(acc) /\ Len(eol) = 1
  <2>1. Unix
    BY <1>2, <1>3, <1>5, <1>6, <1>7, <1>12, <1>13
  <2>2. ~Dos
    <3>1. SubSeq(rest, 1, 2) = <<CR, NL>> => rest[1] = CR \/ Len(rest) < 2
      <4>1. CASE Len(rest) >= 2
        <5>1. SubSeq(rest, 1, 2)[1] = rest[1 + 1 - 1]
          BY <1>9, <1>11, <4>1, PartTypes
        <5>2. rest[1 + 1 - 1] = rest[1] /\ <<CR, NL>>[1] = CR
          OBVIOUS
        <5> DEFINE pair == SubSeq(rest, 1, 2)
        <5>3. pair[1] = rest[1]
          BY <5>1, <5>2
        <5> HIDE DEF pair
        <5>4. pair = <<CR, NL>> => rest[1] = CR
          BY <5>2, <5>3
        <5> QED BY <5>4 DEF pair
      <4>2. CASE ~(Len(rest) >= 2)
        BY <1>11, <4>2
      <4> QED BY <4>1, <4>2
    <3>2. Len(Rest) > length + 1 => Len(rest) >= 2
      BY <1>2, <1>8, <1>9
    <3>3. rest[1] = NL /\ NL # CR
      BY <2>1, TokenTypes
    <3> QED BY <1>11, <3>1, <3>2, <3>3
  <2>3. RestAfter(length) = one
    <3> HIDE DEF Unix, Dos, one, two
    <3> QED BY <1>10, <2>1, <2>2
  <2>4. /\ rest # <<>>
    BY <1>3, <1>11, <1>12, <1>13
  <2>5. /\ Tail(rest) \in Seq(Tokens) /\ Len(Tail(rest)) = Len(rest) - 1
        /\ \A i \in 1..Len(Tail(rest)) : Tail(rest)[i] = rest[i + 1]
    BY <1>9, <2>4, HeadTailProperties
  <2> DEFINE tail == Tail(rest)
  <2> HIDE DEF tail
  <2>6. Dropped(tail, acc, cut[1])
    <3>1. /\ Len(tail) = Len(rest) - 1
          /\ \A i \in 1..Len(tail) : tail[i] = rest[i + 1]
      BY <2>5 DEF tail
    <3>2. Len(tail) = Len(acc) - cut[1]
      BY <1>2, <1>5, <1>6, <1>12, <1>13, <3>1
    <3>3. ASSUME NEW i \in 1..Len(tail) PROVE tail[i] = acc[cut[1] + i]
      <4>1. i + 1 \in 1..Len(rest) /\ 2 + length + (i + 1) = cut[1] + i
        BY <1>2, <1>5, <1>11, <1>13, <3>1
      <4> DEFINE x == i + 1
      <4>2. x \in 1..Len(rest) /\ tail[i] = rest[x] /\ 2 + length + x = cut[1] + i
        BY <3>1, <4>1
      <4> HIDE DEF x
      <4>3. rest[x] = acc[2 + length + x]
        BY <1>12, <1>13, <4>2
      <4> QED BY <4>2, <4>3
    <3> QED BY <3>2, <3>3 DEF Dropped
  <2> QED BY <1>12, <1>13, <2>3, <2>5, <2>6 DEF tail, length
<1>14. CASE cut[1] <= Len(acc) /\ Len(eol) = 2
  <2>1. ~Unix
    <3>1. rest[1] = CR /\ CR # NL
      BY <1>3, <1>12, <1>14, TokenTypes
    <3> QED BY <3>1
  <2>2. Dos
    <3>1. Len(Rest) > length + 1
      BY <1>2, <1>5, <1>6, <1>7, <1>14
    <3> DEFINE pair == SubSeq(rest, 1, 2)
    <3>2. Len(rest) >= 2 /\ rest[1] = CR /\ rest[2] = NL
      BY <1>3, <1>11, <1>12, <1>14
    <3>3. /\ pair \in Seq(Tokens) /\ Len(pair) = 2 - 1 + 1
          /\ \A i \in 1..(2 - 1 + 1) : pair[i] = rest[1 + i - 1]
      BY <1>9, <1>11, <3>2, PartTypes
    <3> HIDE DEF pair
    <3>4. Len(pair) = 2 /\ pair[1] = CR /\ pair[2] = NL
      <4>1. pair[1] = rest[1 + 1 - 1] /\ pair[2] = rest[1 + 2 - 1]
        BY <3>3
      <4> QED BY <3>2, <3>3, <4>1
    <3>5. /\ <<CR, NL>> \in Seq(Tokens) /\ Len(<<CR, NL>>) = 2
          /\ <<CR, NL>>[1] = CR /\ <<CR, NL>>[2] = NL
      BY TokenTypes
    <3>6. pair = <<CR, NL>>
      <4>1. \A i \in 1..Len(pair) : pair[i] = <<CR, NL>>[i]
        BY <3>4, <3>5
      <4> QED BY <3>3, <3>4, <3>5, <4>1, SeqEqual
    <3> QED BY <3>1, <3>6 DEF pair
  <2>3. RestAfter(length) = two
    <3> HIDE DEF Unix, Dos, one, two
    <3> QED BY <1>10, <2>1, <2>2
  <2> DEFINE last == SubSeq(rest, 3, Len(rest))
  <2>4. /\ last \in Seq(Tokens) /\ Len(last) = IF 3 <= Len(rest) THEN Len(rest) - 3 + 1 ELSE 0
        /\ \A i \in 1..(Len(rest) - 3 + 1) : last[i] = rest[3 + i - 1]
    BY <1>9, <1>11, PartTypes
  <2> HIDE DEF last
  <2>5. Len(last) = Len(rest) - 2 /\ Len(rest) >= 2
    <3>1. Len(rest) >= 2
      BY <1>12, <1>14
    <3>2. Len(last) = IF 3 <= Len(rest) THEN Len(rest) - 3 + 1 ELSE 0
      BY <2>4
    <3>3. CASE Len(rest) = 2
      BY <3>2, <3>3
    <3>4. CASE Len(rest) >= 3
      BY <1>11, <3>2, <3>4
    <3>5. Len(rest) = 2 \/ Len(rest) >= 3
      <4> DEFINE l == Len(rest)
      <4>1. l \in Nat /\ l >= 2
        BY <1>11, <3>1
      <4> HIDE DEF l
      <4>2. l = 2 \/ l >= 3
        BY <4>1
      <4> QED BY <4>2 DEF l
    <3> QED BY <3>1, <3>3, <3>4, <3>5
  <2>6. Dropped(last, acc, cut[1])
    <3>1. Len(last) = Len(acc) - cut[1]
      BY <1>2, <1>5, <1>6, <1>12, <1>14, <2>5
    <3>2. ASSUME NEW i \in 1..Len(last) PROVE last[i] = acc[cut[1] + i]
      <4> DEFINE x == 2 + i
      <4>1. /\ x \in 1..Len(rest) /\ 2 + length + x = cut[1] + i
            /\ 3 + i - 1 = x /\ i \in 1..(Len(rest) - 3 + 1)
        BY <1>2, <1>5, <1>11, <1>14, <2>5
      <4>2. last[i] = rest[3 + i - 1]
        BY <2>4, <4>1
      <4> HIDE DEF x
      <4>3. rest[x] = acc[2 + length + x]
        BY <1>12, <1>14, <4>1
      <4> QED BY <4>1, <4>2, <4>3
    <3> QED BY <3>1, <3>2 DEF Dropped
  <2> QED BY <1>12, <1>14, <2>3, <2>4, <2>6 DEF last, length
<1>15. CASE ~(cut[1] <= Len(acc))
  <2>1. Len(acc) < cut[1] /\ Len(acc) < 2 + length + Len(eol)
    BY <1>2, <1>3, <1>5, <1>6, <1>15
  <2>a. Len(Rest) + 2 < 2 + length + Len(eol)
    BY <1>6, <1>7, <1>8, <2>1
  <2>b. /\ Len(Rest) < length + Len(eol) /\ ~(Len(Rest) > length + 1)
        /\ Len(Rest) > length => Len(eol) = 2 /\ Len(Rest) = length + 1
    <3>1. Len(eol) = 1 \/ Len(eol) = 2
      BY <1>3
    <3>2. CASE Len(eol) = 1
      <4>1. Len(Rest) + 2 < 2 + length + 1
        BY <2>a, <3>2
      <4>2. Len(Rest) < length + 1 /\ ~(Len(Rest) > length + 1) /\ ~(Len(Rest) > length)
        BY <1>2, <1>8, <4>1
      <4> QED BY <3>2, <4>2
    <3>3. CASE Len(eol) = 2
      <4>1. Len(Rest) + 2 < 2 + length + 2
        BY <2>a, <3>3
      <4>2. /\ Len(Rest) < length + 2 /\ ~(Len(Rest) > length + 1)
            /\ Len(Rest) > length => Len(Rest) = length + 1
        BY <1>2, <1>8, <4>1
      <4> QED BY <3>3, <4>2
    <3> QED BY <3>1, <3>2, <3>3
  <2>2. ~Dos
    BY <2>b
  <2>3. ~Unix
    <3>1. CASE Len(Rest) > length
      <4>1. Len(eol) = 2 /\ Len(acc) = 3 + length /\ Len(Rest) = length + 1
        BY <1>2, <1>6, <1>7, <2>b, <3>1
      <4> DEFINE x == length + 1
                 y == 2 + length + 1
      <4>2. /\ x \in 1..Len(Rest) /\ 2 + x = y /\ y \in 1..Len(acc) /\ y <= cut[1]
            /\ 1 \in 1..(Len(Rest) - length)
        BY <1>2, <1>5, <4>1
      <4>3. rest[1] = Rest[x]
        BY <1>9, <4>2
      <4>4. code[y] = eol[1]
        BY <1>4, <4>1
      <4> HIDE DEF x, y
      <4>5. Rest[x] = acc[y] /\ acc[y] = code[y]
        BY <1>1, <1>7, <4>2
      <4>6. rest[1] = CR /\ CR # NL
        BY <1>3, <4>1, <4>3, <4>4, <4>5, TokenTypes
      <4> QED BY <4>6
    <3> QED BY <3>1
  <2>4. RestAfter(length) = {}
    <3> HIDE DEF Unix, Dos, one, two
    <3> QED BY <1>10, <2>2, <2>3
  <2> QED BY <2>1, <2>4 DEF length
<1>16. (cut[1] <= Len(acc) /\ Len(eol) = 1) \/ (cut[1] <= Len(acc) /\ Len(eol) = 2)
       \/ ~(cut[1] <= Len(acc))
  BY <1>3
<1> QED BY <1>13, <1>14, <1>15, <1>16

-----------------------------------------------------------------------------
(* What handleResponse takes *)

LEMMA FramedLess ==
  ASSUME Types, Types', NEW n, NEW msg, NEW cut, Framed(n, msg, cut), n # 0,
         cut[1] <= Len(accumulated_response),
         Dropped(accumulated_response', accumulated_response, cut[1]),
         parsing, UNCHANGED <<parsing, stream, responseQueue, eol, up>>,
         NEW list, list = Less(n, msg)
  PROVE  \E shorter : Framed(n - 1, list, shorter)'
<1> PICK shorter : shorter = LessCut(n, cut)
  OBVIOUS
<1>1. /\ cut[1] \in Nat \ {0} /\ cut[1] \in 0..Len(accumulated_response)
      /\ eol \in Eols
  <2>1. cut[1] \in Nat \ {0}
    BY FirstMessage
  <2>2. Len(accumulated_response) \in Nat
    BY IncomingShape
  <2>3. eol \in Eols
    BY DEF Types
  <2> QED BY <2>1, <2>2, <2>3
<1>2. Len(Incoming') \in Nat /\ Dropped(Incoming', Incoming, cut[1])
  BY <1>1, IncomingTake
<1>3. cut[1] <= Len(Incoming) /\ Len(Incoming) \in Nat
  BY <1>1, IncomingShape
<1>4. /\ Frames(n, msg, cut, Incoming, eol)
      /\ up => Len(Incoming) = cut[n]
  BY DEF Framed
<1>5. /\ Frames(n - 1, list, shorter, Incoming', eol)
      /\ Len(Incoming) = cut[n] => Len(Incoming') = shorter[n - 1]
  <2> DEFINE new == Incoming'
             whole == Incoming
  <2>1. /\ Frames(n, msg, cut, whole, eol) /\ Len(whole) \in Nat /\ Len(new) \in Nat
        /\ cut[1] <= Len(whole) /\ Dropped(new, whole, cut[1]) /\ eol \in Eols
    <3>1. Frames(n, msg, cut, whole, eol)
      BY <1>4
    <3>2. Len(whole) \in Nat /\ cut[1] <= Len(whole) /\ eol \in Eols
      BY <1>1, <1>3
    <3>3. Len(new) \in Nat /\ Dropped(new, whole, cut[1])
      BY <1>2
    <3> QED BY <3>1, <3>2, <3>3
  <2> HIDE DEF new, whole
  <2>2. /\ Frames(n - 1, list, shorter, new, eol)
        /\ Len(whole) = cut[n] => Len(new) = shorter[n - 1]
    BY <2>1, FramesOfLess
  <2> QED BY <2>2 DEF new, whole
<1>6. Waiting(n - 1, shorter)'
  BY DEF Waiting
<1> QED BY <1>4, <1>5, <1>6 DEF Framed

LEMMA LessElements ==
  ASSUME NEW n \in Nat \ {0}, NEW msg
  PROVE  /\ n - 1 \in Nat
         /\ \A k \in 1..(n - 1) :
              k + 1 \in 1..n /\ 1 < k + 1 /\ Less(n, msg)[k] = msg[k + 1]
         /\ \A a, b \in 1..(n - 1) : a < b => a + 1 < b + 1
         /\ \A k \in 1..n : k # 1 =>
              k - 1 \in 1..(n - 1) /\ Less(n, msg)[k - 1] = msg[k] /\ 1 < k
         /\ 1 \in 1..n
<1>1. \A k \in 1..(n - 1) : Less(n, msg)[k] = msg[k + 1]
  BY DEF Less
<1>2. ASSUME NEW k \in 1..n, k # 1
      PROVE  k - 1 \in 1..(n - 1) /\ Less(n, msg)[k - 1] = msg[k] /\ 1 < k
  <2>1. k - 1 \in 1..(n - 1) /\ 1 < k /\ (k - 1) + 1 = k
    BY <1>2
  <2>2. Less(n, msg)[k - 1] = msg[(k - 1) + 1]
    BY <1>1, <2>1
  <2> QED BY <2>1, <2>2
<1> QED BY <1>1, <1>2

\* The parts of the order that do not depend on what is taken.
LEMMA OrderLess ==
  ASSUME NEW n \in Nat \ {0}, NEW msg, Ordered(n, msg),
         UNCHANGED <<sent, building>>,
         NEW list, list = Less(n, msg)
  PROVE  Genuine(n - 1, list)' /\ InOrder(n - 1, list)' /\ Unanswered(n - 1, list)'
<1>1. /\ \A k \in 1..(n - 1) : k + 1 \in 1..n /\ list[k] = msg[k + 1]
      /\ \A a, b \in 1..(n - 1) : a < b => a + 1 < b + 1
  BY LessElements
<1>2. Genuine(n, msg) /\ InOrder(n, msg) /\ Unanswered(n, msg)
  BY DEF Ordered
<1>3. Genuine(n - 1, list)'
  BY <1>1, <1>2 DEF Genuine
<1>4. InOrder(n - 1, list)'
  <2>1. ASSUME NEW a \in 1..(n - 1), NEW b \in 1..(n - 1), a < b, list[a].job = list[b].job,
               list[b].kind # "late"
        PROVE  /\ list[a].kind = "output"
               /\ list[b].kind = "output" => list[a].number < list[b].number
    <3>1. /\ a + 1 \in 1..n /\ b + 1 \in 1..n /\ a + 1 < b + 1
          /\ list[a] = msg[a + 1] /\ list[b] = msg[b + 1]
      BY <1>1, <2>1
    <3> QED BY <1>2, <2>1, <3>1 DEF InOrder
  <2> QED BY <2>1 DEF InOrder
<1>5. Unanswered(n - 1, list)'
  BY <1>1, <1>2 DEF Unanswered
<1> QED BY <1>3, <1>4, <1>5

\* A message whose answer is taken is unknown from then on.
LEMMA OutdatedLess ==
  ASSUME NEW n \in Nat \ {0}, NEW msg, Ordered(n, msg),
         job_data' = job_data \ {job \in Jobs : msg[1].kind = "answer" /\ msg[1].job = job},
         job_data \subseteq Jobs, UNCHANGED <<building, late>>,
         NEW list, list = Less(n, msg)
  PROVE  Outdated(n - 1, list)'
<1>1. /\ \A k \in 1..(n - 1) : k + 1 \in 1..n /\ list[k] = msg[k + 1]
      /\ \A k \in 1..n : k # 1 => k - 1 \in 1..(n - 1) /\ list[k - 1] = msg[k]
  BY LessElements
<1>2. Outdated(n, msg)
  BY DEF Ordered
<1>3. ASSUME NEW k \in 1..(n - 1), list[k].kind = "late"
      PROVE  /\ list[k].job \in late \ building
             /\ list[k].job \notin job_data' \/ Behind(n - 1, list, k)
  <2>1. k + 1 \in 1..n /\ list[k] = msg[k + 1]
    BY <1>1
  <2>2. /\ list[k].job \in late \ building
        /\ list[k].job \notin job_data \/ Behind(n, msg, k + 1)
    BY <1>2, <1>3, <2>1 DEF Outdated
  <2>3. ASSUME Behind(n, msg, k + 1), list[k].job \in job_data'
        PROVE  Behind(n - 1, list, k)
    <3>1. PICK i \in 1..n : /\ i < k + 1 /\ msg[i].kind = "answer"
                            /\ msg[i].job = msg[k + 1].job
      BY <2>3 DEF Behind
    <3>2. i # 1
      BY <2>1, <2>3, <3>1
    <3>3. i - 1 \in 1..(n - 1) /\ list[i - 1] = msg[i] /\ i - 1 < k
      BY <1>1, <3>1, <3>2
    <3> QED BY <2>1, <3>1, <3>3 DEF Behind
  <2> QED BY <2>2, <2>3
<1> QED BY <1>3 DEF Outdated, Behind

\* The output that arrives is the next one of its build.
LEMMA NextOutput ==
  ASSUME Types, Delivered, NEW n \in Nat \ {0}, NEW msg \in [1..n -> Messages],
         Ordered(n, msg), msg[1].kind = "output", msg[1].job \in Accountable
  PROVE  msg[1].number = Len(delivered[msg[1].job]) + 1
<1> DEFINE job == msg[1].job
           next == Len(delivered[job]) + 1
<1>1. /\ 1 \in 1..n /\ job \in Jobs \cup {0} /\ msg[1].number \in Nat
  BY Kinds
<1>2. Len(delivered[job]) \in Nat /\ Len(sent[job]) \in Nat
  <2>1. sent[job] \in Seq(Payloads) /\ delivered[job] \in Seq(Seq(Tokens))
    BY <1>1 DEF Types
  <2> QED BY <2>1, LenProperties
<1>3. msg[1].number > Len(delivered[job]) /\ msg[1].number <= Len(sent[job])
  BY <1>1 DEF Ordered, Undelivered, Genuine
<1>4. next \in (Len(delivered[job]) + 1)..Len(sent[job])
  BY <1>1, <1>2, <1>3
<1>5. PICK k \in 1..n : msg[k].kind = "output" /\ msg[k].job = job /\ msg[k].number = next
  BY <1>4 DEF Ordered, Complete, Carries
<1>6. CASE k = 1
  BY <1>5, <1>6
<1>7. CASE k # 1
  <2>1. 1 < k
    BY <1>1, <1>7
  <2>2. msg[1].number < msg[k].number
    BY <1>1, <1>5, <2>1 DEF Ordered, InOrder
  <2> QED BY <1>1, <1>2, <1>3, <1>5, <2>2
<1> QED BY <1>6, <1>7

LEMMA TakeOutput ==
  ASSUME Types, Sound, NEW n \in Nat \ {0}, NEW msg \in [1..n -> Messages],
         Ordered(n, msg), msg[1].kind = "output",
         delivered' = [delivered EXCEPT ![msg[1].job] = Append(@, msg[1].text)],
         UNCHANGED <<up, building, sent, late, deaths, last_request, job_data, answers,
                     protocol_error>>,
         NEW list, list = Less(n, msg)
  PROVE  Ordered(n - 1, list)' /\ Known' /\ Delivered' /\ Answered'
<1> DEFINE old == Len(delivered[msg[1].job])
<1>1. PICK job : job = msg[1].job
  OBVIOUS
<1>2. /\ \A k \in 1..(n - 1) : k + 1 \in 1..n /\ 1 < k + 1 /\ list[k] = msg[k + 1]
      /\ \A k \in 1..n : k # 1 => k - 1 \in 1..(n - 1) /\ list[k - 1] = msg[k] /\ 1 < k
      /\ 1 \in 1..n
  <2>1. /\ \A k \in 1..(n - 1) :
             k + 1 \in 1..n /\ 1 < k + 1 /\ Less(n, msg)[k] = msg[k + 1]
        /\ \A k \in 1..n : k # 1 =>
             k - 1 \in 1..(n - 1) /\ Less(n, msg)[k - 1] = msg[k] /\ 1 < k
        /\ 1 \in 1..n
    BY LessElements
  <2> QED BY <2>1
<1>3. /\ Genuine(n, msg) /\ Expected(n, msg) /\ Undelivered(n, msg) /\ Complete(n, msg)
      /\ InOrder(n, msg) /\ Unanswered(n, msg) /\ Answering(n, msg)
  BY DEF Ordered
<1>4. Known /\ Delivered /\ Answered
  BY DEF Sound
<1>5. /\ job \in Jobs \cup {0} /\ job \in job_data \cup {0}
      /\ msg[1].number \in Nat /\ msg[1].text \in Seq(Tokens)
      /\ job \in Jobs => job \in job_data
      /\ \A j \in Jobs : j # 0
  <2>1. job \in Jobs \cup {0} /\ msg[1].number \in Nat /\ msg[1].text \in Payloads
    BY <1>1, <1>2, Kinds
  <2>2. job \in job_data \cup {0}
    BY <1>1, <1>2, <1>3 DEF Expected
  <2>3. \A j \in Jobs : j # 0
    BY DEF Jobs
  <2> QED BY <2>1, <2>2, <2>3, TokenTypes
<1>6. /\ delivered[job] \in Seq(Seq(Tokens)) /\ old \in Nat
      /\ \A j \in Jobs \cup {0} : Len(delivered[j]) \in Nat /\ Len(sent[j]) \in Nat
  <2>1. \A j \in Jobs \cup {0} : sent[j] \in Seq(Payloads) /\ delivered[j] \in Seq(Seq(Tokens))
    BY DEF Types
  <2> QED BY <1>1, <1>5, <2>1, LenProperties
<1>7. /\ delivered'[job] = Append(delivered[job], msg[1].text)
      /\ \A j \in Jobs \cup {0} : j # job => delivered'[j] = delivered[j]
  BY <1>1, <1>5 DEF Types
<1>8. /\ Len(delivered'[job]) = old + 1
      /\ delivered'[job][old + 1] = msg[1].text
      /\ \A k \in 1..old : delivered'[job][k] = delivered[job][k]
  BY <1>1, <1>5, <1>6, <1>7, AppendProperties
<1>9. /\ msg[1].number > old /\ msg[1].number \in 1..Len(sent[job])
      /\ sent[job][msg[1].number] = msg[1].text
  BY <1>1, <1>2, <1>3 DEF Undelivered, Genuine
<1>10. job \in Accountable => msg[1].number = old + 1
  BY <1>1, <1>4, NextOutput
<1> HIDE DEF old
<1>11. Genuine(n - 1, list)' /\ InOrder(n - 1, list)' /\ Unanswered(n - 1, list)'
  BY OrderLess
<1>12. Expected(n - 1, list)'
  BY <1>2, <1>3 DEF Expected
<1>13. Undelivered(n - 1, list)'
  <2>1. ASSUME NEW k \in 1..(n - 1), list[k].kind = "output"
        PROVE  list[k].number > Len(delivered'[list[k].job])
    <3>1. k + 1 \in 1..n /\ 1 < k + 1 /\ list[k] = msg[k + 1]
      BY <1>2
    <3>2. /\ msg[k + 1].job \in Jobs \cup {0} /\ msg[k + 1].number \in Nat
      BY <2>1, <3>1, Kinds
    <3>3. CASE msg[k + 1].job = job
      <4>1. msg[1].number < msg[k + 1].number
        BY <1>1, <1>2, <1>3, <2>1, <3>1, <3>3 DEF InOrder
      <4> QED BY <1>5, <1>6, <1>8, <1>9, <3>1, <3>2, <3>3, <4>1
    <3>4. CASE msg[k + 1].job # job
      BY <1>3, <1>7, <2>1, <3>1, <3>2, <3>4 DEF Undelivered
    <3> QED BY <3>3, <3>4
  <2> QED BY <2>1 DEF Undelivered
<1>14. Complete(n - 1, list)'
  <2>1. ASSUME NEW j \in Accountable, NEW number \in (Len(delivered'[j]) + 1)..Len(sent[j])
        PROVE  Carries(n - 1, list, j, number)
    <3>1. j \in Jobs \cup {0}
      BY DEF Accountable, Types
    <3>2. /\ number \in (Len(delivered[j]) + 1)..Len(sent[j])
          /\ j = job => number > old + 1
      <4>1. CASE j = job
        <5>1. Len(delivered[j]) = old
          BY <1>1, <4>1 DEF old
        <5> QED BY <1>6, <1>8, <2>1, <3>1, <4>1, <5>1
      <4>2. CASE j # job
        BY <1>7, <2>1, <3>1, <4>2
      <4> QED BY <4>1, <4>2
    <3>3. PICK k \in 1..n : msg[k].kind = "output" /\ msg[k].job = j /\ msg[k].number = number
      BY <1>3, <3>2 DEF Complete, Carries
    <3>4. k # 1
      <4>1. ASSUME k = 1 PROVE FALSE
        <5>1. j = job /\ msg[1].number = number
          BY <1>1, <3>3, <4>1
        <5>2. number = old + 1
          BY <1>10, <5>1
        <5> QED BY <1>6, <3>2, <5>1, <5>2
      <4> QED BY <4>1
    <3>5. k - 1 \in 1..(n - 1) /\ list[k - 1] = msg[k]
      BY <1>2, <3>4
    <3> QED BY <3>3, <3>5 DEF Carries
  <2>2. Accountable' = Accountable
    BY DEF Accountable
  <2> QED BY <2>1, <2>2 DEF Complete, Carries
<1>15. Answering(n - 1, list)'
  <2>1. ASSUME up, NEW j \in job_data \ building
        PROVE  \E k \in 1..(n - 1) : list[k].kind = "answer" /\ list[k].job = j
    <3>1. PICK k \in 1..n : msg[k].kind = "answer" /\ msg[k].job = j
      BY <1>3, <2>1 DEF Answering
    <3>2. k # 1
      BY <3>1
    <3>3. k - 1 \in 1..(n - 1) /\ list[k - 1] = msg[k]
      BY <1>2, <3>2
    <3> QED BY <3>1, <3>3
  <2> QED BY <2>1 DEF Answering
<1>16. Known'
  <2>1. \A j \in Jobs : j > last_request => j # job
    <3>1. \A j \in job_data : j <= last_request
      BY <1>4 DEF Known
    <3>2. last_request \in Nat /\ \A j \in Jobs : j \in Nat
      BY DEF Types, Jobs
    <3> QED BY <1>5, <3>1, <3>2
  <2> QED BY <1>4, <1>7, <2>1 DEF Known
<1>17. Delivered'
  <2>1. ASSUME NEW j \in Jobs \cup {0} PROVE Len(delivered'[j]) <= Len(sent[j])
    <3>1. CASE j = job
      BY <1>5, <1>6, <1>8, <1>9, <3>1
    <3>2. CASE j # job
      BY <1>4, <1>7, <3>2 DEF Delivered
    <3> QED BY <3>1, <3>2
  <2>2. ASSUME NEW j \in Jobs \cup {i \in {0} : deaths = 0}, NEW k \in 1..Len(delivered'[j])
        PROVE  delivered'[j][k] = sent[j][k]
    <3>1. CASE j = job
      <4>1. job \in Accountable
        BY <1>5, <3>1 DEF Accountable
      <4>2. CASE k = old + 1
        BY <1>8, <1>9, <1>10, <3>1, <4>1, <4>2
      <4>3. CASE k \in 1..old
        <5>1. delivered[j][k] = sent[j][k]
          <6>1. k \in 1..Len(delivered[j])
            BY <1>1, <3>1, <4>3 DEF old
          <6> QED BY <1>4, <6>1 DEF Delivered
        <5> QED BY <1>8, <3>1, <4>3, <5>1
      <4> QED BY <1>6, <1>8, <2>2, <3>1, <4>2, <4>3
    <3>2. CASE j # job
      <4>1. delivered'[j] = delivered[j]
        BY <1>7, <3>2
      <4> QED BY <1>4, <2>2, <4>1 DEF Delivered
    <3> QED BY <3>1, <3>2
  <2> QED BY <2>1, <2>2 DEF Delivered
<1>18. Answered'
  <2>1. \A j \in Jobs : j = job => j \in job_data
    BY <1>5
  <2> QED BY <1>4, <1>7, <2>1 DEF Answered
<1>19. Outdated(n - 1, list)'
  <2>1. job_data' = job_data \ {j \in Jobs : msg[1].kind = "answer" /\ msg[1].job = j}
    OBVIOUS
  <2>2. job_data \subseteq Jobs
    BY DEF Types
  <2> QED BY <2>1, <2>2, OutdatedLess
<1>20. Ordered(n - 1, list)'
  BY <1>11, <1>12, <1>13, <1>14, <1>15, <1>19 DEF Ordered
<1> QED BY <1>16, <1>17, <1>18, <1>20

\* Two lists of which the one begins the other are the same when they are as
\* long.
LEMMA AllDelivered ==
  ASSUME Types, Delivered, NEW job \in Jobs \cup {i \in {0} : deaths = 0},
         Len(delivered[job]) >= Len(sent[job])
  PROVE  delivered[job] = sent[job]
<1>1. sent[job] \in Seq(Payloads) /\ delivered[job] \in Seq(Seq(Tokens))
  BY DEF Types
<1>2. Payloads \subseteq Seq(Tokens)
  BY TokenTypes
<1>3. sent[job] \in Seq(Seq(Tokens))
  BY <1>1, <1>2, SeqMonotonic
<1>4. Len(sent[job]) \in Nat /\ Len(delivered[job]) \in Nat
  BY <1>1, LenProperties
<1>5. Len(delivered[job]) = Len(sent[job])
  BY <1>4 DEF Delivered
<1>6. \A k \in 1..Len(delivered[job]) : delivered[job][k] = sent[job][k]
  BY DEF Delivered
<1> QED BY <1>1, <1>3, <1>5, <1>6, SeqEqual

LEMMA TakeAnswer ==
  ASSUME Types, Sound, NEW n \in Nat \ {0}, NEW msg \in [1..n -> Messages],
         Ordered(n, msg), msg[1].kind = "answer",
         job_data' = job_data \ {msg[1].job},
         NEW answer, answers' = [answers EXCEPT ![msg[1].job] = answer],
         UNCHANGED <<up, building, sent, late, deaths, last_request, delivered, protocol_error>>,
         NEW list, list = Less(n, msg)
  PROVE  Ordered(n - 1, list)' /\ Known' /\ Delivered' /\ Answered'
<1>1. PICK job : job = msg[1].job
  OBVIOUS
<1>2. /\ \A k \in 1..(n - 1) : k + 1 \in 1..n /\ 1 < k + 1 /\ list[k] = msg[k + 1]
      /\ \A k \in 1..n : k # 1 => k - 1 \in 1..(n - 1) /\ list[k - 1] = msg[k] /\ 1 < k
      /\ 1 \in 1..n
  <2>1. /\ \A k \in 1..(n - 1) :
             k + 1 \in 1..n /\ 1 < k + 1 /\ Less(n, msg)[k] = msg[k + 1]
        /\ \A k \in 1..n : k # 1 =>
             k - 1 \in 1..(n - 1) /\ Less(n, msg)[k - 1] = msg[k] /\ 1 < k
        /\ 1 \in 1..n
    BY LessElements
  <2> QED BY <2>1
<1>3. /\ Genuine(n, msg) /\ Expected(n, msg) /\ Undelivered(n, msg) /\ Complete(n, msg)
      /\ InOrder(n, msg) /\ Unanswered(n, msg) /\ Answering(n, msg)
  BY DEF Ordered
<1>4. Known /\ Delivered /\ Answered
  BY DEF Sound
<1>5. job \in Jobs /\ job # 0 /\ job \in job_data /\ job \notin building
  <2>1. job \in Jobs
    BY <1>1, <1>2, Kinds
  <2>2. job # 0
    BY <2>1 DEF Jobs
  <2>3. job \in job_data \cup {0} /\ job \notin building
    BY <1>1, <1>2, <1>3 DEF Expected, Unanswered
  <2> QED BY <2>1, <2>2, <2>3
<1>6. \A k \in 1..n : k # 1 /\ msg[k].kind # "late" => msg[k].job # job
  <2>1. ASSUME NEW k \in 1..n, k # 1, msg[k].kind # "late", msg[k].job = job
        PROVE  FALSE
    <3>1. 1 < k
      BY <1>2, <2>1
    <3>2. msg[1].kind = "output"
      BY <1>1, <1>2, <1>3, <2>1, <3>1 DEF InOrder
    <3> QED BY <3>2
  <2> QED BY <2>1
<1>7. delivered[job] = sent[job]
  <2>1. \A number \in (Len(delivered[job]) + 1)..Len(sent[job]) : FALSE
    <3> TAKE number \in (Len(delivered[job]) + 1)..Len(sent[job])
    <3>1. job \in Accountable
      BY <1>5 DEF Accountable
    <3>2. PICK k \in 1..n : msg[k].kind = "output" /\ msg[k].job = job
      BY <1>3, <3>1 DEF Complete, Carries
    <3>3. k # 1
      BY <3>2
    <3> QED BY <1>6, <3>2, <3>3
  <2>2. Len(delivered[job]) \in Nat /\ Len(sent[job]) \in Nat
    <3>1. sent[job] \in Seq(Payloads) /\ delivered[job] \in Seq(Seq(Tokens))
      BY <1>5 DEF Types
    <3> QED BY <3>1, LenProperties
  <2>3. Len(delivered[job]) >= Len(sent[job])
    BY <2>1, <2>2
  <2> QED BY <1>4, <1>5, <2>3, AllDelivered
<1>8. Genuine(n - 1, list)' /\ InOrder(n - 1, list)' /\ Unanswered(n - 1, list)'
  BY OrderLess
<1>9. Expected(n - 1, list)'
  <2>1. ASSUME NEW k \in 1..(n - 1), list[k].kind # "late"
        PROVE  list[k].job \in job_data' \cup {0}
    <3>1. k + 1 \in 1..n /\ k + 1 # 1 /\ list[k] = msg[k + 1]
      BY <1>2
    <3>2. msg[k + 1].job # job /\ msg[k + 1].job \in job_data \cup {0}
      BY <1>3, <1>6, <2>1, <3>1 DEF Expected
    <3> QED BY <1>1, <3>1, <3>2
  <2> QED BY <2>1 DEF Expected
<1>10. Undelivered(n - 1, list)'
  BY <1>2, <1>3 DEF Undelivered
<1>11. Complete(n - 1, list)'
  <2>1. Accountable' \subseteq Accountable /\ job \notin Accountable'
    BY <1>1, <1>5 DEF Accountable
  <2>2. ASSUME NEW j \in Accountable', NEW number \in (Len(delivered[j]) + 1)..Len(sent[j])
        PROVE  Carries(n - 1, list, j, number)
    <3>1. PICK k \in 1..n : msg[k].kind = "output" /\ msg[k].job = j /\ msg[k].number = number
      BY <1>3, <2>1 DEF Complete, Carries
    <3>2. k # 1
      BY <3>1
    <3>3. k - 1 \in 1..(n - 1) /\ list[k - 1] = msg[k]
      BY <1>2, <3>2
    <3> QED BY <3>1, <3>3 DEF Carries
  <2> QED BY <2>2 DEF Complete, Carries
<1>12. Answering(n - 1, list)'
  <2>1. ASSUME up, NEW j \in job_data' \ building
        PROVE  \E k \in 1..(n - 1) : list[k].kind = "answer" /\ list[k].job = j
    <3>1. j \in job_data \ building /\ j # job
      BY <1>1, <2>1
    <3>2. PICK k \in 1..n : msg[k].kind = "answer" /\ msg[k].job = j
      BY <1>3, <2>1, <3>1 DEF Answering
    <3>3. k # 1
      BY <1>1, <3>1, <3>2
    <3>4. k - 1 \in 1..(n - 1) /\ list[k - 1] = msg[k]
      BY <1>2, <3>3
    <3> QED BY <3>2, <3>4
  <2> QED BY <2>1 DEF Answering
<1>13. \A j \in Jobs : j # job => answers'[j] = answers[j]
  BY <1>1 DEF Types
<1>14. Known'
  <2>1. job <= last_request
    BY <1>4, <1>5 DEF Known
  <2>2. \A j \in Jobs : j > last_request => j # job
    BY <1>5, <2>1 DEF Types, Jobs
  <2>3. building' \subseteq job_data'
    BY <1>1, <1>4, <1>5 DEF Known
  <2>4. \A j \in job_data' : j <= last_request /\ answers'[j] = <<>>
    BY <1>1, <1>4, <1>13 DEF Known, Types
  <2>5. \A j \in Jobs : j > last_request =>
          answers'[j] = <<>> /\ sent[j] = <<>> /\ delivered[j] = <<>>
    BY <1>4, <1>13, <2>2 DEF Known
  <2> QED BY <1>4, <2>3, <2>4, <2>5 DEF Known
<1>15. Delivered'
  BY <1>4 DEF Delivered
<1>16. Answered'
  <2>1. ASSUME NEW j \in Jobs
        PROVE  j \in job_data' \/ delivered[j] = sent[j] \/ (deaths > 0 /\ answers'[j] = <<FALSE>>)
    <3>1. CASE j = job
      BY <1>7, <3>1
    <3>2. CASE j # job
      BY <1>1, <1>4, <1>13, <3>2 DEF Answered
    <3> QED BY <3>1, <3>2
  <2> QED BY <2>1 DEF Answered
<1>17. Outdated(n - 1, list)'
  <2>1. job_data' = job_data \ {j \in Jobs : msg[1].kind = "answer" /\ msg[1].job = j}
    BY <1>1, <1>5
  <2>2. job_data \subseteq Jobs
    BY DEF Types
  <2> QED BY <2>1, <2>2, OutdatedLess
<1>18. Ordered(n - 1, list)'
  BY <1>8, <1>9, <1>10, <1>11, <1>12, <1>17 DEF Ordered
<1> QED BY <1>14, <1>15, <1>16, <1>18

\* abuild does not know the build of a late message, and gives up.
LEMMA NotKnown ==
  ASSUME Types, NEW n \in Nat \ {0}, NEW msg, Ordered(n, msg), msg[1].kind = "late"
  PROVE  msg[1].job \in late /\ msg[1].job \notin job_data \cup {0}
<1>1. 1 \in 1..n /\ ~Behind(n, msg, 1)
  BY DEF Behind
<1>2. late \subseteq Jobs /\ 0 \notin Jobs
  BY DEF Types, Jobs
<1> QED BY <1>1, <1>2 DEF Ordered, Outdated

LEMMA TakeLate ==
  ASSUME Types, Sound, NEW n \in Nat \ {0}, NEW msg \in [1..n -> Messages],
         Ordered(n, msg), msg[1].kind = "late",
         UNCHANGED <<up, building, sent, late, deaths, last_request, job_data, answers,
                     delivered>>,
         NEW list, list = Less(n, msg)
  PROVE  Ordered(n - 1, list)' /\ Known' /\ Delivered' /\ Answered'
<1>1. /\ \A k \in 1..(n - 1) : k + 1 \in 1..n /\ 1 < k + 1 /\ list[k] = msg[k + 1]
      /\ \A k \in 1..n : k # 1 => k - 1 \in 1..(n - 1) /\ list[k - 1] = msg[k] /\ 1 < k
      /\ 1 \in 1..n
  <2>1. /\ \A k \in 1..(n - 1) :
             k + 1 \in 1..n /\ 1 < k + 1 /\ Less(n, msg)[k] = msg[k + 1]
        /\ \A k \in 1..n : k # 1 =>
             k - 1 \in 1..(n - 1) /\ Less(n, msg)[k - 1] = msg[k] /\ 1 < k
        /\ 1 \in 1..n
    BY LessElements
  <2> QED BY <2>1
<1>2. /\ Genuine(n, msg) /\ Expected(n, msg) /\ Undelivered(n, msg) /\ Complete(n, msg)
      /\ InOrder(n, msg) /\ Unanswered(n, msg) /\ Answering(n, msg)
      /\ Outdated(n, msg)
  BY DEF Ordered
<1>3. Known /\ Delivered /\ Answered
  BY DEF Sound
<1>4. msg[1].job \in late
  BY NotKnown
<1>5. Genuine(n - 1, list)' /\ InOrder(n - 1, list)' /\ Unanswered(n - 1, list)'
  BY OrderLess
<1>6. Expected(n - 1, list)' /\ Undelivered(n - 1, list)'
  BY <1>1, <1>2 DEF Expected, Undelivered
<1>7. Complete(n - 1, list)'
  <2>1. ASSUME NEW j \in Accountable, NEW number \in (Len(delivered[j]) + 1)..Len(sent[j])
        PROVE  Carries(n - 1, list, j, number)
    <3>1. PICK k \in 1..n : msg[k].kind = "output" /\ msg[k].job = j /\ msg[k].number = number
      BY <1>2 DEF Complete, Carries
    <3>2. k # 1
      BY <3>1
    <3> QED BY <1>1, <3>1, <3>2 DEF Carries
  <2>2. Accountable' = Accountable
    BY DEF Accountable
  <2> QED BY <2>1, <2>2 DEF Complete, Carries
<1>8. Answering(n - 1, list)'
  <2>1. ASSUME up, NEW j \in job_data \ building
        PROVE  \E k \in 1..(n - 1) : list[k].kind = "answer" /\ list[k].job = j
    <3>1. PICK k \in 1..n : msg[k].kind = "answer" /\ msg[k].job = j
      BY <1>2, <2>1 DEF Answering
    <3>2. k # 1
      BY <3>1
    <3> QED BY <1>1, <3>1, <3>2
  <2> QED BY <2>1 DEF Answering
<1>9. Outdated(n - 1, list)'
  <2>1. job_data' = job_data \ {j \in Jobs : msg[1].kind = "answer" /\ msg[1].job = j}
    OBVIOUS
  <2>2. job_data \subseteq Jobs
    BY DEF Types
  <2> QED BY <2>1, <2>2, OutdatedLess
<1>10. Ordered(n - 1, list)'
  BY <1>5, <1>6, <1>7, <1>8, <1>9 DEF Ordered
<1>11. Known' /\ Delivered' /\ Answered'
  BY <1>3, <1>4 DEF Known, Delivered, Answered
<1> QED BY <1>10, <1>11

LEMMA HandleResponse ==
  ASSUME Types, Types', Sound, handleResponse
  PROVE  Sound'
<1>1. /\ parsing /\ ~protocol_error
      /\ \/ ~HasLine /\ lineNone
         \/ HasLine /\ (lineResponse \/ lineData \/ lineOther)
  BY DEF handleResponse, Alive
<1>2. UNCHANGED <<eol, up, building, responseQueue, sent, late, stream, deaths, left_over,
                  last_request>>
  BY <1>1 DEF lineNone, lineResponse, lineData, lineOther, quiet, java, threads, printed, ends
<1>3. PICK n, msg, cut : Framed(n, msg, cut) /\ Ordered(n, msg)
  BY DEF Sound
<1>4. n \in Nat /\ msg \in [1..n -> Messages]
  BY <1>3 DEF Framed, Frames
<1>5. Known /\ Delivered /\ Answered
  BY DEF Sound
<1>6. accumulated_response \in Seq(Tokens) /\ Len(accumulated_response) \in Nat
  BY LenProperties DEF Types
\* There is nothing to take, and the parser waits.
<1>7. ASSUME UNCHANGED <<accumulated_response, job_data, delivered, answers, protocol_error>>,
             n = 0 \/ Len(accumulated_response) < cut[1]
      PROVE  Sound'
  <2>1. Queued' = Queued
    BY <1>2 DEF Queued
  <2>2. Incoming' = Incoming
    BY <1>2, <1>7, <2>1 DEF Incoming
  <2>3. Framed(n, msg, cut)'
    BY <1>2, <1>3, <1>7, <2>2 DEF Framed, Waiting
  <2>4. Ordered(n, msg)'
    BY <1>2, <1>3, <1>7, SameOrder
  <2> QED BY <1>2, <1>5, <1>7, <2>3, <2>4, SameBooks DEF Sound
<1>8. CASE ~HasLine /\ lineNone
  <2>1. n = 0 \/ Len(accumulated_response) < cut[1]
    BY <1>3, <1>8, NoLine
  <2>2. UNCHANGED <<accumulated_response, job_data, delivered, answers, protocol_error>>
    BY <1>8 DEF lineNone
  <2> QED BY <1>7, <2>1, <2>2
<1>9. ASSUME HasLine PROVE n # 0
  BY <1>3, <1>9, SomeMessage
<1>10. PICK list : list = Less(n, msg)
  OBVIOUS
<1>11. ASSUME HasLine, msg[1].kind = "answer", lineResponse \/ lineData \/ lineOther
       PROVE  Sound'
  <2>1. /\ LineEnd = cut[1] /\ cut[1] <= Len(accumulated_response)
        /\ Line[1] = Response(msg[1].job, msg[1].status)
        /\ Matches("response") /\ ~Matches("header")
    BY <1>3, <1>9, <1>11, AnswerLine
  <2>2. lineResponse
    BY <1>11, <2>1 DEF lineData, lineOther
  <2>3. Line[1].job = msg[1].job
    BY <2>1 DEF Response
  <2>4. n \in Nat \ {0} /\ 1 \in 1..n
    BY <1>4, <1>9, <1>11
  <2>5. msg[1].job \in job_data
    <3>1. msg[1].job \in job_data \cup {0} /\ msg[1].job \in Jobs
      BY <1>3, <1>4, <1>11, <2>4, Kinds DEF Ordered, Expected
    <3>2. msg[1].job # 0
      BY <3>1 DEF Jobs
    <3> QED BY <3>1, <3>2
  <2>6. Dropped(accumulated_response', accumulated_response, cut[1])
    <3>1. accumulated_response' = Rest
      BY <2>2 DEF lineResponse
    <3>2. /\ Len(Rest) = Len(accumulated_response) - LineEnd
          /\ \A i \in 1..Len(Rest) : Rest[i] = accumulated_response[LineEnd + i]
      BY <1>6, <1>11, LineTypes
    <3> QED BY <2>1, <3>1, <3>2 DEF Dropped
  <2>7. parsing' = parsing /\ delivered' = delivered
    BY <2>2 DEF lineResponse
  <2>8. \E shorter : Framed(n - 1, list, shorter)'
    BY <1>1, <1>2, <1>3, <1>10, <2>1, <2>4, <2>6, <2>7, FramedLess
  <2>9. /\ ~protocol_error' /\ job_data' = job_data \ {msg[1].job}
        /\ answers' = [answers EXCEPT ![msg[1].job] =
                         IF Line[1].job \in job_data
                         THEN Append(answers[msg[1].job], Line[1].status)
                         ELSE answers[msg[1].job]]
    BY <2>2, <2>3, <2>5 DEF lineResponse
  <2>10. protocol_error' = protocol_error
    BY <1>1, <2>9 DEF Types
  <2>11. PICK answer : answers' = [answers EXCEPT ![msg[1].job] = answer]
    BY <2>9
  <2>12. Ordered(n - 1, list)' /\ Known' /\ Delivered' /\ Answered'
    BY <1>2, <1>3, <1>4, <1>10, <1>11, <2>4, <2>7, <2>9, <2>10, <2>11, TakeAnswer
  <2> QED BY <2>8, <2>12 DEF Sound
<1>12. ASSUME HasLine, msg[1].kind # "answer", lineResponse \/ lineData \/ lineOther
       PROVE  Sound'
  <2> DEFINE length == Len(msg[1].text)
  <2>1. /\ Line[1] = Header(msg[1].job, length)
        /\ Matches("header") /\ ~Matches("response")
    BY <1>3, <1>9, <1>12, HeaderLine
  <2>2. lineData
    BY <1>12, <2>1 DEF lineResponse, lineOther
  <2>3. Line[1].job = msg[1].job /\ Line[1].length = length
    BY <2>1 DEF Header
  <2>4. n \in Nat \ {0} /\ 1 \in 1..n
    BY <1>4, <1>9, <1>12
  <2>5. job_data' = job_data /\ answers' = answers
    BY <2>2 DEF lineData
  <2>6. \/ /\ cut[1] <= Len(accumulated_response)
           /\ SubSeq(Rest, 1, length) = msg[1].text
           /\ \E r : /\ RestAfter(length) = {r} /\ r \in Seq(Tokens)
                     /\ Dropped(r, accumulated_response, cut[1])
        \/ /\ Len(accumulated_response) < cut[1]
           /\ RestAfter(length) = {}
    BY <1>3, <1>9, <1>12, TakenWhenThere
  <2>7. \/ /\ RestAfter(length) = {}
           /\ UNCHANGED <<accumulated_response, delivered, protocol_error>>
        \/ \E rest \in RestAfter(length) :
             /\ accumulated_response' = rest
             /\ \/ /\ msg[1].job \in job_data \cup {0}
                   /\ delivered' = [delivered EXCEPT ![msg[1].job] =
                                      Append(@, SubSeq(Rest, 1, length))]
                   /\ UNCHANGED protocol_error
                \/ /\ msg[1].job \notin job_data \cup {0}
                   /\ UNCHANGED delivered
             /\ UNCHANGED parsing
    BY <2>2, <2>3 DEF lineData
  <2>8. CASE RestAfter(length) = {}
    <3>1. UNCHANGED <<accumulated_response, delivered, protocol_error>>
      BY <2>7, <2>8
    <3>2. Len(accumulated_response) < cut[1]
      BY <2>6, <2>8
    <3> QED BY <1>7, <2>5, <3>1, <3>2
  <2>9. CASE RestAfter(length) # {}
    <3>1. PICK r : /\ RestAfter(length) = {r}
                   /\ Dropped(r, accumulated_response, cut[1])
      BY <2>6, <2>9
    <3>2. /\ cut[1] <= Len(accumulated_response)
          /\ SubSeq(Rest, 1, length) = msg[1].text
      BY <2>6, <2>9
    <3>3. /\ accumulated_response' = r /\ UNCHANGED parsing
          /\ \/ /\ msg[1].job \in job_data \cup {0}
                /\ delivered' = [delivered EXCEPT ![msg[1].job] = Append(@, msg[1].text)]
                /\ UNCHANGED protocol_error
             \/ /\ msg[1].job \notin job_data \cup {0}
                /\ UNCHANGED delivered
      BY <2>7, <3>1, <3>2
    <3>4. \E shorter : Framed(n - 1, list, shorter)'
      BY <1>1, <1>2, <1>3, <1>10, <2>4, <3>1, <3>2, <3>3, FramedLess
    <3>5. CASE msg[1].kind = "output"
      <4>1. msg[1].job \in job_data \cup {0}
        BY <1>3, <2>4, <3>5 DEF Ordered, Expected
      <4>2. Ordered(n - 1, list)' /\ Known' /\ Delivered' /\ Answered'
        BY <1>2, <1>3, <1>4, <1>10, <2>4, <2>5, <3>3, <3>5, <4>1, TakeOutput
      <4> QED BY <3>4, <4>2 DEF Sound
    <3>6. CASE msg[1].kind = "late"
      <4>1. msg[1].job \notin job_data \cup {0}
        BY <1>3, <2>4, <3>6, NotKnown
      <4>2. UNCHANGED delivered
        BY <3>3, <4>1
      <4>3. Ordered(n - 1, list)' /\ Known' /\ Delivered' /\ Answered'
        BY <1>2, <1>3, <1>4, <1>10, <2>4, <2>5, <3>6, <4>2, TakeLate
      <4> QED BY <3>4, <4>3 DEF Sound
    <3> QED BY <1>4, <1>12, <2>4, <3>5, <3>6, Kinds
  <2> QED BY <2>8, <2>9
<1> QED BY <1>1, <1>8, <1>11, <1>12

-----------------------------------------------------------------------------
(* Invariance and what follows from it *)

LEMMA InvInit == Init => IInv
<1> SUFFICES ASSUME Init PROVE IInv
  OBVIOUS
<1>1. Types /\ Ended /\ Threads
  BY TypesInit DEF Init, Ended, Threads
<1>2. Incoming = <<>>
  BY DEF Init, Incoming, Queued
<1>3. PICK msg : msg = [k \in 1..0 |-> Answer(1, TRUE)]
  OBVIOUS
<1>4. PICK cut : cut = [k \in 0..0 |-> 0]
  OBVIOUS
<1>5. Frames(0, msg, cut, <<>>, eol)
  <2>1. msg \in [1..0 -> Messages]
    BY <1>3
  <2>2. cut \in [0..0 -> Nat] /\ cut[0] = 0
    BY <1>4
  <2> QED BY <2>1, <2>2 DEF Frames
<1>6. Framed(0, msg, cut)
  BY <1>2, <1>4, <1>5 DEF Framed, Waiting
<1>7. Ordered(0, msg)
  <2>1. Complete(0, msg)
    <3>1. \A job \in Accountable : delivered[job] = <<>> /\ sent[job] = <<>>
      BY DEF Init, Accountable
    <3> QED BY <3>1 DEF Complete
  <2>2. Answering(0, msg)
    BY DEF Answering, Init
  <2> QED BY <2>1, <2>2 DEF Ordered, Genuine, Expected, Undelivered, InOrder, Unanswered,
                         Outdated
<1>8. Known /\ Delivered /\ Answered
  BY DEF Init, Known, Delivered, Answered
<1> QED BY <1>1, <1>6, <1>7, <1>8 DEF IInv, Sound

LEMMA EndedStep == ASSUME Types, Ended, [Next]_vars PROVE Ended'
<1>1. CASE die
  BY <1>1 DEF die, Ended, Types
<1>2. CASE JavaStep
  <2>1. ASSUME NEW s \in Streams, NEW job \in Jobs \cup {0}, NEW own \in BOOLEAN,
               NEW payload \in Payloads, sendOutput(s, job, own, payload)
        PROVE  Ended'
    BY <2>1 DEF sendOutput, Ended
  <2>2. ASSUME NEW m \in putting, putOutput(m) PROVE Ended'
    BY <2>2 DEF putOutput, Ended, ends
  <2>3. ASSUME NEW job \in Jobs, NEW status \in BOOLEAN, sendResponse(job, status)
        PROVE  Ended'
    BY <2>3 DEF sendResponse, Ended
  <2>4. ASSUME NEW job \in Jobs, setJobNull(job) PROVE Ended'
    BY <2>4 DEF setJobNull, Ended, ends
  <2> QED BY <1>2, <2>1, <2>2, <2>3, <2>4 DEF JavaStep
<1>3. CASE respond
  BY <1>3 DEF respond, Ended, ends, threads
<1>4. CASE makeRequest \/ failPending
  BY <1>4 DEF makeRequest, failPending, Ended, threads
<1>5. CASE Read
  BY <1>5 DEF Read, handleRead, java, threads, ends, Ended
<1>6. CASE handleResponse
  BY <1>6 DEF handleResponse, lineNone, lineResponse, lineData, lineOther, quiet, java,
              threads, ends, Ended
<1>7. CASE Quiescent \/ UNCHANGED vars
  BY <1>7 DEF Quiescent, vars, java, threads, ends, Ended
<1> QED BY <1>1, <1>2, <1>3, <1>4, <1>5, <1>6, <1>7 DEF Next

LEMMA ThreadsStep == ASSUME Types, Ended, Threads, [Next]_vars PROVE Threads'
<1>1. CASE die
  BY <1>1 DEF die, Threads, abuild, printed
<1>2. ASSUME NEW s \in Streams, NEW job \in Jobs \cup {0}, NEW own \in BOOLEAN,
             NEW payload \in Payloads, sendOutput(s, job, own, payload)
      PROVE  Threads'
  <2>1. UNCHANGED <<building, assigned, late, last_request>>
    BY <1>2 DEF sendOutput, abuild, printed
  <2>2. 0 <= last_request
    BY DEF Types
  <2>3. job <= last_request /\ (own => job \in building)
    BY <1>2, <2>2 DEF sendOutput, Threads
  <2> QED BY <1>2, <2>1, <2>3 DEF sendOutput, Threads
<1>3. ASSUME NEW m \in putting, putOutput(m) PROVE Threads'
  <2>1. UNCHANGED <<building, assigned, last_request>> /\ putting' \subseteq putting
    BY <1>3 DEF putOutput, abuild
  <2>2. late' \subseteq late \cup {m.job}
    BY <1>3 DEF putOutput
  <2> QED BY <1>3, <2>1, <2>2 DEF Threads
<1>4. ASSUME NEW job \in Jobs, NEW status \in BOOLEAN, sendResponse(job, status)
      PROVE  Threads'
  BY <1>4 DEF sendResponse, abuild, printed, Threads
<1>5. ASSUME NEW job \in Jobs, setJobNull(job) PROVE Threads'
  BY <1>5 DEF setJobNull, abuild, printed, Threads
<1>6. CASE makeRequest
  <2>1. /\ last_request' = last_request + 1 /\ last_request \in Nat
        /\ building' = building \cup {last_request'}
        /\ assigned' = assigned \cup {last_request'}
        /\ UNCHANGED <<putting, late>>
    BY <1>6, JavaAssumptions DEF makeRequest, Types, printed
  <2>2. /\ \A job \in assigned \cup late : job \in Nat
        /\ \A m \in putting : m.job \in Nat
    BY DEF Types, Jobs
  <2>3. building' \subseteq assigned'
    BY <2>1 DEF Threads
  <2>4. \A job \in assigned' \cup late' : job <= last_request'
    BY <2>1, <2>2 DEF Threads
  <2>5. \A m \in putting' : m.job <= last_request' /\ (m.own => m.job \in building')
    BY <2>1, <2>2 DEF Threads
  <2> QED BY <2>3, <2>4, <2>5 DEF Threads
<1>7. CASE respond \/ failPending
  <2>1. UNCHANGED <<building, assigned, putting, late, last_request>>
    BY <1>7 DEF respond, failPending, threads, printed, abuild
  <2> QED BY <2>1 DEF Threads
<1>8. CASE Read
  <2>1. UNCHANGED <<building, assigned, putting, late, last_request>>
    BY <1>8 DEF Read, handleRead, java, threads, printed
  <2> QED BY <2>1 DEF Threads
<1>9. CASE handleResponse
  <2>1. UNCHANGED <<building, assigned, putting, late, last_request>>
    BY <1>9 DEF handleResponse, lineNone, lineResponse, lineData, lineOther, quiet, java,
                threads, printed
  <2> QED BY <2>1 DEF Threads
<1>10. CASE Quiescent \/ UNCHANGED vars
  <2>1. UNCHANGED <<building, assigned, putting, late, last_request>>
    BY <1>10 DEF Quiescent, vars, java, threads, printed, abuild
  <2> QED BY <2>1 DEF Threads
<1> QED BY <1>1, <1>2, <1>3, <1>4, <1>5, <1>6, <1>7, <1>8, <1>9, <1>10 DEF Next, JavaStep

\* An end in the middle of a message is not forgotten.
LEMMA LeftOver == ASSUME [Next]_vars, left_over PROVE left_over'
<1>1. CASE JavaStep
  BY <1>1 DEF JavaStep, sendOutput, putOutput, sendResponse, setJobNull, ends
<1>2. CASE respond \/ die \/ makeRequest \/ failPending
  BY <1>2 DEF respond, die, makeRequest, failPending, ends
<1>3. CASE Read
  BY <1>3 DEF Read, handleRead, ends
<1>4. CASE handleResponse
  BY <1>4 DEF handleResponse, lineNone, lineResponse, lineData, lineOther, quiet, ends
<1>5. CASE Quiescent \/ UNCHANGED vars
  BY <1>5 DEF Quiescent, vars, ends
<1> QED BY <1>1, <1>2, <1>3, <1>4, <1>5 DEF Next

LEMMA InvStep == IInv /\ [Next]_vars => IInv'
<1> SUFFICES ASSUME IInv, [Next]_vars PROVE IInv'
  OBVIOUS
<1>1. Types /\ Ended /\ Threads /\ Types' /\ Ended' /\ Threads'
  BY TypesStep, EndedStep, ThreadsStep DEF IInv
<1>2. CASE left_over'
  BY <1>1, <1>2 DEF IInv
<1>3. CASE ~left_over'
  <2>1. Sound
    BY <1>3, LeftOver DEF IInv
  <2>2. CASE UNCHANGED vars
    <3>1. UNCHANGED <<eol, up, building, responseQueue, sent, late, stream, deaths,
                      last_request, job_data, accumulated_response, parsing, delivered,
                      answers, protocol_error>>
      BY <2>2 DEF vars, java, threads, printed, ends, abuild
    <3>2. Sound'
      BY <2>1, <3>1, ThreadStep
    <3> QED BY <1>1, <3>2 DEF IInv
  <2>3. CASE Quiescent
    BY <2>2, <2>3 DEF Quiescent
  <2>4. CASE JavaStep
    <3>1. ASSUME NEW s \in Streams, NEW job \in Jobs \cup {0}, NEW own \in BOOLEAN,
                 NEW payload \in Payloads, sendOutput(s, job, own, payload)
          PROVE  Sound'
      BY <2>1, <3>1, ThreadStep DEF sendOutput, printed, ends, abuild
    <3>2. ASSUME NEW job \in Jobs, setJobNull(job) PROVE Sound'
      BY <2>1, <3>2, ThreadStep DEF setJobNull, printed, ends, abuild
    <3>3. Sound'
      BY <1>1, <2>1, <2>4, <3>1, <3>2, PutOutput, SendResponse DEF JavaStep
    <3> QED BY <1>1, <3>3 DEF IInv
  <2>5. CASE respond \/ die
    <3>1. Sound'
      BY <1>1, <2>1, <2>5, Respond, Die
    <3> QED BY <1>1, <3>1 DEF IInv
  <2>6. CASE makeRequest
    <3>1. Sound'
      BY <1>1, <2>1, <2>6, MakeRequest
    <3> QED BY <1>1, <3>1 DEF IInv
  <2>7. CASE Read
    <3>1. Sound'
      BY <1>1, <2>1, <2>7, HandleRead DEF Read
    <3> QED BY <1>1, <3>1 DEF IInv
  <2>8. CASE failPending
    <3>1. Sound'
      BY <1>1, <1>3, <2>1, <2>8, FailPending
    <3> QED BY <1>1, <3>1 DEF IInv
  <2>9. CASE handleResponse
    <3>1. Sound'
      BY <1>1, <2>1, <2>9, HandleResponse
    <3> QED BY <1>1, <3>1 DEF IInv
  <2> QED BY <2>2, <2>3, <2>4, <2>5, <2>6, <2>7, <2>8, <2>9 DEF Next
<1> QED BY <1>2, <1>3

LEMMA Invariance == Spec => []IInv
BY InvInit, InvStep, PTL DEF Spec

\* What a handler of handleResponse gets is what was sent for its build before
\* the response, wherever the stream is cut and however many threads of the
\* build still print; and handleResponse throws its exceptions only when one of
\* them has put its output after the response.  Nothing is claimed once a
\* process has ended in the middle of a message.
THEOREM Intact == Spec => []StreamIntact
<1>1. ASSUME IInv, ~left_over PROVE StreamIntact
  <2>1. Types /\ Known /\ Delivered /\ Answered
    BY <1>1 DEF IInv, Sound
  <2>2. ASSUME NEW j \in IF deaths = 0 THEN Jobs \cup {0} ELSE Jobs
        PROVE  /\ Len(delivered[j]) <= Len(sent[j])
               /\ delivered[j] = SubSeq(sent[j], 1, Len(delivered[j]))
    <3>1. /\ j \in Jobs \cup {0} /\ j \in Jobs \cup {i \in {0} : deaths = 0}
      BY <2>2
    <3>2. sent[j] \in Seq(Payloads) /\ delivered[j] \in Seq(Seq(Tokens))
      BY <2>1, <3>1 DEF Types
    <3>3. Payloads \subseteq Seq(Tokens)
      BY TokenTypes
    <3>4. sent[j] \in Seq(Seq(Tokens))
      BY <3>2, <3>3, SeqMonotonic
    <3> DEFINE l == Len(delivered[j])
               part == SubSeq(sent[j], 1, l)
    <3>5. l \in Nat /\ Len(sent[j]) \in Nat /\ l <= Len(sent[j])
      BY <2>1, <3>1, <3>2, LenProperties DEF Delivered
    <3>6. /\ part \in Seq(Seq(Tokens)) /\ Len(part) = IF 1 <= l THEN l - 1 + 1 ELSE 0
          /\ \A i \in 1..(l - 1 + 1) : part[i] = sent[j][1 + i - 1]
      <4>1. \A i \in 1..l : sent[j][i] \in Seq(Tokens)
        <5> TAKE i \in 1..l
        <5>1. i \in 1..Len(sent[j])
          BY <3>5
        <5> QED BY <3>4, <5>1, ElementOfSeq
      <4> HIDE DEF l
      <4> QED BY <3>5, <4>1, SubSeqProperties
    <3> HIDE DEF part, l
    <3>7. Len(part) = l /\ \A i \in 1..l : part[i] = sent[j][i]
      BY <3>5, <3>6
    <3>8. \A i \in 1..l : delivered[j][i] = sent[j][i]
      BY <2>1, <3>1 DEF Delivered, l
    <3>9. delivered[j] = part
      <4>1. Len(delivered[j]) = Len(part) /\ \A i \in 1..Len(delivered[j]) : delivered[j][i] = part[i]
        BY <3>7, <3>8 DEF l
      <4> QED BY <3>2, <3>6, <4>1, SeqEqual
    <3> QED BY <3>5, <3>9 DEF part, l
  <2>3. \A j \in Jobs : \/ answers[j] = <<>>
                        \/ delivered[j] = sent[j]
                        \/ deaths > 0 /\ answers[j] = <<FALSE>>
    BY <2>1 DEF Answered, Known
  <2> QED BY <2>1, <2>2, <2>3 DEF StreamIntact, Known
<1>2. IInv => StreamIntact
  BY <1>1 DEF StreamIntact
<1> QED BY <1>2, Invariance, PTL

\* Nothing is left in accumulated_response when all that was sent has been
\* read: the builds in progress are those still unanswered, and all that was
\* printed has been delivered.
THEOREM NoneHeldBack == Spec => []NothingHeldBack
<1>1. ASSUME IInv, up, ~left_over, responseQueue = <<>>, stream = <<>>, ~parsing
      PROVE  /\ \A j \in building : delivered[j] = sent[j]
             /\ deaths = 0 => delivered = sent
             /\ job_data = building
  <2>1. Types /\ Known /\ Delivered /\ Answered
    BY <1>1 DEF IInv, Sound
  <2>2. PICK n, msg, cut : Framed(n, msg, cut) /\ Ordered(n, msg)
    BY <1>1 DEF IInv, Sound
  <2>3. Incoming = accumulated_response
    <3>1. accumulated_response \in Seq(Tokens)
      BY <2>1 DEF Types
    <3>2. Incoming = (accumulated_response \o <<>>) \o <<>>
      BY <1>1 DEF Incoming, Queued
    <3>3. accumulated_response \o <<>> = accumulated_response
      BY <3>1, ConcatEmptySeq
    <3> QED BY <3>2, <3>3
  <2>4. /\ n \in Nat /\ cut \in [0..n -> Nat] /\ Len(Incoming) = cut[n]
        /\ \A a, b \in 0..n : a <= b => cut[a] <= cut[b]
        /\ n = 0 \/ Len(Incoming) < cut[1]
    BY <1>1, <2>2, <2>3 DEF Framed, Frames, Waiting
  <2>5. n = 0
    <3>1. ASSUME n # 0 PROVE FALSE
      <4>1. 1 \in 0..n /\ n \in 0..n /\ 1 <= n
        BY <2>4, <3>1
      <4>2. cut[1] <= cut[n] /\ cut[1] \in Nat /\ cut[n] \in Nat
        BY <2>4, <4>1
      <4>3. cut[n] < cut[1]
        BY <2>4, <3>1
      <4> QED BY <4>2, <4>3
    <3> QED BY <3>1
  <2>6. \A j \in Accountable : delivered[j] = sent[j]
    <3> TAKE j \in Accountable
    <3>1. j \in Jobs \cup {0} /\ j \in Jobs \cup {i \in {0} : deaths = 0}
      BY <2>1 DEF Accountable, Types
    <3>2. Len(delivered[j]) \in Nat /\ Len(sent[j]) \in Nat
      <4>1. sent[j] \in Seq(Payloads) /\ delivered[j] \in Seq(Seq(Tokens))
        BY <2>1, <3>1 DEF Types
      <4> QED BY <4>1, LenProperties
    <3>3. \A number \in (Len(delivered[j]) + 1)..Len(sent[j]) : FALSE
      BY <2>2, <2>5 DEF Ordered, Complete, Carries
    <3>4. Len(delivered[j]) >= Len(sent[j])
      BY <3>2, <3>3
    <3> QED BY <2>1, <3>1, <3>4, AllDelivered
  <2>7. job_data = building
    <3>1. job_data \ building = {}
      BY <1>1, <2>2, <2>5 DEF Ordered, Answering
    <3> QED BY <2>1, <3>1 DEF Known
  <2>8. ASSUME deaths = 0 PROVE delivered = sent
    <3>1. \A j \in Jobs \cup {0} : delivered[j] = sent[j]
      BY <2>1, <2>6, <2>8 DEF Accountable, Answered
    <3>2. /\ delivered \in [Jobs \cup {0} -> Seq(Seq(Tokens))]
          /\ sent \in [Jobs \cup {0} -> Seq(Payloads)]
      BY <2>1 DEF Types
    <3> QED BY <3>1, <3>2
  <2>9. \A j \in building : delivered[j] = sent[j]
    BY <2>6, <2>7 DEF Accountable
  <2> QED BY <2>7, <2>8, <2>9
<1>2. IInv => NothingHeldBack
  BY <1>1 DEF NothingHeldBack
<1> QED BY <1>2, Invariance, PTL
=============================================================================

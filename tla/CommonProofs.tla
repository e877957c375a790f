---------------------------- MODULE CommonProofs ----------------------------
(***************************************************************************)
(* Proofs about the headers in Common.                                     *)
(*                                                                         *)
(* Protocol.h: the stream of PacketStream, for any ids, lengths of payload *)
(* and sizes of the two buffers and any number of packets.  However        *)
(* receives cut it, what is parsed is what was sent, as long as the header *)
(* can state its length.  The inductive invariant says where in the bytes  *)
(* that are still to be parsed each packet begins.                         *)
(*                                                                         *)
(* Exception.h: the errors of Exceptions, for any texts and any number of  *)
(* throws.  The inductive invariant says what a message is made of.        *)
(***************************************************************************)
EXTENDS PacketStreamRefinement, Exceptions, SequenceTheorems,
        WellFoundedInduction, TLAPS

-----------------------------------------------------------------------------
(* Sequences of bytes.                                                     *)

\* Three sequences can be joined from either end.
LEMMA Associative == \A s, t, u \in Seq(Nat) : (s \o t) \o u = s \o (t \o u)
BY SMTT(60)

\* What Drop leaves of a sequence.
LEMMA DropIsSuffix ==
    ASSUME NEW S, NEW s \in Seq(S), NEW n \in 0 .. Len(s)
    PROVE  /\ Drop(s, n) \in Seq(S)
           /\ Len(Drop(s, n)) = Len(s) - n
           /\ \A i \in 1 .. Len(s) - n : Drop(s, n)[i] = s[n + i]
<1>1. n + 1 \in 1 .. Len(s) + 1 /\ Len(s) \in n .. Len(s) /\ Len(s) \in Nat
  BY LenProperties
<1>2. \A i \in n + 1 .. Len(s) : s[i] \in S
  BY ElementOfSeq
<1>3. Drop(s, n) = [i \in 1 .. Len(s) - n |-> s[i + n]]
  BY <1>1 DEF Drop
<1> QED
  BY <1>1, <1>2, <1>3

\* A beginning of a sequence.
LEMMA FrontIsPrefix ==
    ASSUME NEW S, NEW s \in Seq(S), NEW n \in 0 .. Len(s)
    PROVE  /\ SubSeq(s, 1, n) \in Seq(S)
           /\ Len(SubSeq(s, 1, n)) = n
           /\ \A i \in 1 .. n : SubSeq(s, 1, n)[i] = s[i]
<1>1. Len(s) \in Nat /\ \A i \in 1 .. n : s[i] \in S
  BY LenProperties, ElementOfSeq
<1>2. SubSeq(s, 1, n) = [i \in 1 .. n |-> s[i]]
  BY <1>1
<1> QED
  BY <1>1, <1>2

\* The two parts a sequence is cut into are that sequence.
LEMMA CutIsWhole ==
    ASSUME NEW S, NEW s \in Seq(S), NEW n \in 0 .. Len(s)
    PROVE  SubSeq(s, 1, n) \o Drop(s, n) = s
<1>1. Len(s) \in Nat /\ 1 \in 1 .. Len(s) + 1
  BY LenProperties
<1>2. CASE Len(s) = 0
  <2>1. n = 0 /\ s = <<>>
    BY <1>2, EmptySeq
  <2>2. SubSeq(s, 1, n) = <<>> /\ Drop(s, n) = <<>>
    BY <2>1, <1>2, SubSeqEmpty DEF Drop
  <2> QED
    BY <2>1, <2>2
<1>3. CASE Len(s) > 0
  <2>1. 1 \in 1 .. Len(s) + 1 /\ n \in 1 - 1 .. Len(s) /\ Len(s) \in n .. Len(s)
    BY <1>1, <1>3
  <2>2. SubSeq(s, 1, n) \o SubSeq(s, n + 1, Len(s)) = SubSeq(s, 1, Len(s))
    BY <2>1, ConcatAdjacentSubSeq
  <2> QED
    BY <2>2, SubSeqFull DEF Drop
<1> QED
  BY <1>1, <1>2, <1>3

\* Cutting off a beginning does not touch what follows the sequence.
LEMMA DropOfConcat ==
    ASSUME NEW S, NEW s \in Seq(S), NEW t \in Seq(S), NEW n \in 0 .. Len(s)
    PROVE  Drop(s, n) \o t = Drop(s \o t, n)
<1>1. /\ s \o t \in Seq(S) /\ Len(s) \in Nat /\ Len(t) \in Nat
      /\ Len(s \o t) = Len(s) + Len(t)
      /\ \A i \in 1 .. Len(s) + Len(t) :
           (s \o t)[i] = IF i <= Len(s) THEN s[i] ELSE t[i - Len(s)]
  BY ConcatProperties, LenProperties
<1>2. /\ Drop(s, n) \in Seq(S) /\ Len(Drop(s, n)) = Len(s) - n
      /\ \A i \in 1 .. Len(s) - n : Drop(s, n)[i] = s[n + i]
  BY DropIsSuffix
<1>3. /\ Drop(s \o t, n) \in Seq(S)
      /\ Len(Drop(s \o t, n)) = Len(s) + Len(t) - n
      /\ \A i \in 1 .. Len(s) + Len(t) - n : Drop(s \o t, n)[i] = (s \o t)[n + i]
  <2>1. n \in 0 .. Len(s \o t)
    BY <1>1
  <2>2. /\ Drop(s \o t, n) \in Seq(S)
        /\ Len(Drop(s \o t, n)) = Len(s \o t) - n
        /\ \A i \in 1 .. Len(s \o t) - n : Drop(s \o t, n)[i] = (s \o t)[n + i]
    BY <1>1, <2>1, DropIsSuffix, ZenonT(60)
  <2> QED
    BY <1>1, <2>2
<1>4. /\ Drop(s, n) \o t \in Seq(S)
      /\ Len(Drop(s, n) \o t) = Len(s) - n + Len(t)
      /\ \A i \in 1 .. Len(s) - n + Len(t) : (Drop(s, n) \o t)[i] =
           IF i <= Len(s) - n THEN Drop(s, n)[i] ELSE t[i - (Len(s) - n)]
  <2>1. /\ Drop(s, n) \o t \in Seq(S)
        /\ Len(Drop(s, n) \o t) = Len(Drop(s, n)) + Len(t)
        /\ \A i \in 1 .. Len(Drop(s, n)) + Len(t) : (Drop(s, n) \o t)[i] =
             IF i <= Len(Drop(s, n)) THEN Drop(s, n)[i]
                                     ELSE t[i - Len(Drop(s, n))]
    BY <1>2, ConcatProperties
  <2> QED
    BY <1>2, <2>1
<1>5. ASSUME NEW i \in 1 .. Len(Drop(s, n) \o t)
      PROVE  (Drop(s, n) \o t)[i] = Drop(s \o t, n)[i]
  <2>1. i \in 1 .. Len(s) + Len(t) - n /\ n + i \in 1 .. Len(s) + Len(t)
    BY <1>1, <1>4
  <2>2. CASE i <= Len(s) - n
    BY <1>1, <1>2, <1>3, <1>4, <2>1, <2>2
  <2>3. CASE i > Len(s) - n
    <3>1. (n + i) - Len(s) = i - (Len(s) - n) /\ ~(n + i <= Len(s))
      BY <1>1, <2>1, <2>3
    <3>2. (Drop(s, n) \o t)[i] = t[i - (Len(s) - n)]
      BY <1>1, <1>4, <2>1, <2>3
    <3>3. Drop(s \o t, n)[i] = (s \o t)[n + i]
      BY <1>3, <2>1
    <3>4. (s \o t)[n + i] = t[(n + i) - Len(s)]
      BY <1>1, <2>1, <3>1
    <3> QED
      BY <3>1, <3>2, <3>3, <3>4
  <2> QED
    BY <1>1, <2>1, <2>2, <2>3
<1>6. Len(Drop(s, n) \o t) = Len(Drop(s \o t, n))
  BY <1>1, <1>3, <1>4
<1> QED
  BY <1>3, <1>4, <1>5, <1>6, SeqEqual

-----------------------------------------------------------------------------
(* The inductive invariant of the stream.                                  *)

\* The bytes that are still to be parsed.
Rest == packet \o buffer \o wire

\* The packets behind the first m of these, one behind the other, are the bytes
\* rest; mark says after how many bytes each begins.
Framed(rest, packets, m, mark) ==
    /\ m <= Len(packets)
    /\ mark \in [m + 1 .. Len(packets) + 1 -> 0 .. Len(rest)]
    /\ mark[m + 1] = 0 /\ mark[Len(packets) + 1] = Len(rest)
    /\ \A i, j \in m + 1 .. Len(packets) + 1 : i <= j => mark[i] <= mark[j]
    /\ \A i \in m + 1 .. Len(packets) :
         LET n == Len(packets[i].payload)
         IN  /\ mark[i + 1] = mark[i] + HeaderSize + n
             /\ rest[mark[i] + 1] = packets[i].id
             /\ rest[mark[i] + 2] = n % 2 ^ LengthBits
             /\ \A j \in 1 .. n :
                  rest[mark[i] + HeaderSize + j] = packets[i].payload[j]

\* The headers state the lengths of the first k of these packets.
AllStated(packets, k) ==
    \A i \in 1 .. Len(packets) : i <= k => Len(packets[i].payload) < 2 ^ LengthBits

\* ParsedAsSent of the packets got, for the packets sent.
AsSent(got, packets) ==
    \A i \in 1 .. Len(got) :
        AllStated(packets, i) => i <= Len(packets) /\ got[i] = packets[i]

\* As long as no length was cut, the parser is between two packets.
InStep ==
    AllStated(sent, Len(parsed)) =>
        \E mark : Framed(Rest, sent, Len(parsed), mark)

\* What every step preserves.
IInv ==
    /\ TypeOK
    /\ posted => buffer = <<>>
    /\ InStep
    /\ AsSent(parsed, sent)
    /\ RefusesOnlyTooLarge

-----------------------------------------------------------------------------
(* What happens to the packets in the bytes.                               *)

\* A packet that is sent comes to lie behind those that were.
LEMMA FramedAppend ==
    ASSUME NEW rest \in Seq(Nat), NEW packets \in Seq(Packets),
           NEW m \in Nat, NEW mark, Framed(rest, packets, m, mark),
           NEW id \in Ids, NEW payload \in Seq(Nat)
    PROVE  \E mark2 :
             Framed(rest \o (Header(id, payload) \o payload),
                    Append(packets, [id |-> id, payload |-> payload]), m, mark2)
<1> DEFINE head  == Header(id, payload)
           bytes == head \o payload
           rest2 == rest \o bytes
           p     == [id |-> id, payload |-> payload]
           list  == Append(packets, p)
           last  == Len(packets) + 1
           mark2 == [i \in m + 1 .. last + 1 |->
                       IF i = last + 1 THEN Len(rest2) ELSE mark[i]]
<1>1. /\ Len(packets) \in Nat /\ Len(rest) \in Nat /\ Len(payload) \in Nat
      /\ id \in Nat /\ 2 ^ LengthBits \in Nat \ {0}
  BY LenProperties, StreamAssumption DEF StreamAssumption
<1>2. /\ head \in Seq(Nat) /\ Len(head) = 2
      /\ head[1] = id /\ head[2] = Len(payload) % 2 ^ LengthBits
  <2>1. Len(payload) % 2 ^ LengthBits \in Nat
    BY <1>1
  <2> QED
    BY <1>1, <2>1 DEF Header
<1> HIDE DEF head
<1>3. /\ bytes \in Seq(Nat) /\ Len(bytes) = 2 + Len(payload)
      /\ bytes[1] = id /\ bytes[2] = Len(payload) % 2 ^ LengthBits
      /\ \A j \in 1 .. Len(payload) : bytes[2 + j] = payload[j]
  <2>1. /\ bytes \in Seq(Nat) /\ Len(bytes) = Len(head) + Len(payload)
        /\ \A i \in 1 .. Len(head) + Len(payload) :
             bytes[i] = IF i <= Len(head) THEN head[i] ELSE payload[i - Len(head)]
    BY <1>2, ConcatProperties
  <2>2. \A j \in 1 .. Len(payload) : 2 + j \in 1 .. 2 + Len(payload)
                                      /\ ~(2 + j <= 2) /\ (2 + j) - 2 = j
    BY <1>1
  <2>3. 1 \in 1 .. 2 + Len(payload) /\ 2 \in 1 .. 2 + Len(payload)
    BY <1>1
  <2> QED
    BY <1>2, <2>1, <2>2, <2>3, SMTT(60)
<1> HIDE DEF bytes
<1>4. /\ rest2 \in Seq(Nat) /\ Len(rest2) = Len(rest) + 2 + Len(payload)
      /\ \A i \in 1 .. Len(rest) : rest2[i] = rest[i]
      /\ \A i \in 1 .. 2 + Len(payload) : rest2[Len(rest) + i] = bytes[i]
  <2>1. /\ rest2 \in Seq(Nat) /\ Len(rest2) = Len(rest) + Len(bytes)
        /\ \A i \in 1 .. Len(rest) + Len(bytes) :
             rest2[i] = IF i <= Len(rest) THEN rest[i] ELSE bytes[i - Len(rest)]
    <3>1. bytes \in Seq(Nat)
      BY <1>3
    <3> QED
      BY <3>1, ConcatProperties
  <2>2. \A i \in 1 .. 2 + Len(payload) :
           /\ Len(rest) + i \in 1 .. Len(rest) + (2 + Len(payload))
           /\ ~(Len(rest) + i <= Len(rest)) /\ (Len(rest) + i) - Len(rest) = i
    BY <1>1
  <2>3. \A i \in 1 .. Len(rest) :
           i \in 1 .. Len(rest) + (2 + Len(payload)) /\ i <= Len(rest)
    BY <1>1
  <2> QED
    BY <1>1, <1>3, <2>1, <2>2, <2>3
<1> HIDE DEF rest2
<1>5. /\ Len(list) = last /\ list[last] = p
      /\ \A i \in 1 .. Len(packets) : list[i] = packets[i]
  BY <1>1
<1> HIDE DEF list
<1>6. /\ m <= Len(packets)
      /\ mark \in [m + 1 .. last -> 0 .. Len(rest)]
      /\ mark[m + 1] = 0 /\ mark[last] = Len(rest)
  BY DEF Framed
<1>7. mark2 \in [m + 1 .. last + 1 -> 0 .. Len(rest2)]
  <2>1. ASSUME NEW i \in m + 1 .. last + 1
        PROVE  mark2[i] \in 0 .. Len(rest2)
    <3>1. CASE i = last + 1
      BY <1>1, <1>4, <3>1
    <3>2. CASE i # last + 1
      <4>1. i \in m + 1 .. last
        BY <1>1, <3>2
      <4>2. mark[i] \in 0 .. Len(rest)
        BY <1>6, <4>1
      <4> QED
        BY <1>1, <1>4, <3>2, <4>2, SMTT(60)
    <3> QED
      BY <3>1, <3>2
  <2> QED
    BY <2>1
<1>8. /\ mark2[last + 1] = Len(rest2)
      /\ \A i \in m + 1 .. last : mark2[i] = mark[i]
  BY <1>1, <1>6
<1> HIDE DEF mark2
<1>9. ASSUME NEW i \in m + 1 .. last
      PROVE  LET n == Len(list[i].payload)
             IN  /\ mark2[i + 1] = mark2[i] + HeaderSize + n
                 /\ rest2[mark2[i] + 1] = list[i].id
                 /\ rest2[mark2[i] + 2] = n % 2 ^ LengthBits
                 /\ \A j \in 1 .. n :
                      rest2[mark2[i] + HeaderSize + j] = list[i].payload[j]
  <2>1. CASE i = last
    <3>1. list[i].id = id /\ list[i].payload = payload
      BY <1>5, <2>1
    <3>2. mark2[i] = Len(rest) /\ mark2[i + 1] = Len(rest2)
      BY <1>6, <1>8, <2>1
    <3>3. /\ rest2[Len(rest) + 1] = bytes[1] /\ rest2[Len(rest) + 2] = bytes[2]
          /\ \A j \in 1 .. Len(payload) : rest2[Len(rest) + 2 + j] = bytes[2 + j]
      <4>1. \A j \in 1 .. Len(payload) :
               2 + j \in 1 .. 2 + Len(payload)
               /\ Len(rest) + 2 + j = Len(rest) + (2 + j)
        BY <1>1
      <4>2. 1 \in 1 .. 2 + Len(payload) /\ 2 \in 1 .. 2 + Len(payload)
        BY <1>1
      <4> QED
        BY <1>4, <4>1, <4>2
    <3> QED
      BY <1>3, <1>4, <3>1, <3>2, <3>3 DEF HeaderSize
  <2>2. CASE i # last
    <3> DEFINE n == Len(packets[i].payload)
    <3>1. i \in m + 1 .. Len(packets) /\ i + 1 \in m + 1 .. last /\ i \in 1 .. Len(packets)
      BY <1>1, <2>2
    <3>2. /\ mark[i + 1] = mark[i] + HeaderSize + n
          /\ rest[mark[i] + 1] = packets[i].id
          /\ rest[mark[i] + 2] = n % 2 ^ LengthBits
          /\ \A j \in 1 .. n : rest[mark[i] + HeaderSize + j] = packets[i].payload[j]
      BY <3>1 DEF Framed
    <3>3. n \in Nat
      <4>1. packets[i] \in Packets
        BY <3>1, ElementOfSeq
      <4> QED
        BY <4>1, LenProperties DEF Packets
    <3> HIDE DEF n
    <3>4. mark[i] \in 0 .. Len(rest) /\ mark[i + 1] \in 0 .. Len(rest)
      BY <1>6, <3>1
    <3>5. /\ mark[i] + 1 \in 1 .. Len(rest) /\ mark[i] + 2 \in 1 .. Len(rest)
          /\ \A j \in 1 .. n : mark[i] + HeaderSize + j \in 1 .. Len(rest)
      <4>1. ASSUME NEW a \in 0 .. Len(rest), NEW b \in 0 .. Len(rest),
                   b = a + 2 + n
            PROVE  /\ a + 1 \in 1 .. Len(rest) /\ a + 2 \in 1 .. Len(rest)
                   /\ \A j \in 1 .. n : a + 2 + j \in 1 .. Len(rest)
        BY <1>1, <3>3, <4>1
      <4>2. mark[i + 1] = mark[i] + 2 + n
        BY <3>2 DEF HeaderSize
      <4> HIDE <3>2
      <4> QED
        BY <3>4, <4>1, <4>2 DEF HeaderSize
    <3>6. /\ mark2[i] = mark[i] /\ mark2[i + 1] = mark[i + 1]
          /\ list[i] = packets[i]
      BY <1>5, <1>8, <3>1
    <3>7. Len(list[i].payload) = n
      BY <3>6 DEF n
    <3> QED
      BY <1>4, <3>2, <3>5, <3>6, <3>7, ZenonT(60)
  <2> QED
    BY <2>1, <2>2
<1>10. mark2[m + 1] = 0 /\ m <= last
  BY <1>1, <1>6, <1>8
<1>11. ASSUME NEW i \in m + 1 .. last + 1, NEW j \in m + 1 .. last + 1, i <= j
       PROVE  mark2[i] <= mark2[j]
  <2>1. CASE j = last + 1
    <3>1. mark2[i] \in 0 .. Len(rest2)
      BY <1>7
    <3> QED
      BY <1>4, <1>8, <2>1, <3>1
  <2>2. CASE j # last + 1
    <3>1. i \in m + 1 .. last /\ j \in m + 1 .. last
      BY <1>1, <1>11, <2>2
    <3>2. mark[i] <= mark[j]
      BY <1>11, <3>1 DEF Framed
    <3> QED
      BY <1>8, <3>1, <3>2
  <2> QED
    BY <2>1, <2>2
<1>12. Framed(rest2, list, m, mark2)
  BY <1>5, <1>7, <1>8, <1>9, <1>10, <1>11 DEF Framed
<1> QED
  BY <1>12 DEF rest2, bytes, head, list

\* The bytes begin with the first packet that was not parsed.
LEMMA FramedFirst ==
    ASSUME NEW rest \in Seq(Nat), NEW packets \in Seq(Packets),
           NEW m \in Nat, NEW mark, Framed(rest, packets, m, mark),
           rest # <<>>
    PROVE  LET p == packets[m + 1]
               n == Len(p.payload)
           IN  /\ m + 1 \in 1 .. Len(packets) /\ n \in Nat
               /\ p \in Packets
               /\ HeaderSize + n \in 2 .. Len(rest)
               /\ mark[m + 2] = HeaderSize + n
               /\ rest[1] = p.id
               /\ rest[2] = n % 2 ^ LengthBits
               /\ \A j \in 1 .. n : rest[HeaderSize + j] = p.payload[j]
<1> DEFINE p == packets[m + 1]
           n == Len(p.payload)
<1>1. Len(packets) \in Nat /\ Len(rest) \in Nat /\ Len(rest) > 0
  BY LenProperties, EmptySeq
<1>2. m + 1 \in m + 1 .. Len(packets) /\ m + 1 \in 1 .. Len(packets)
  <2>1. m <= Len(packets) /\ mark[m + 1] = 0 /\ mark[Len(packets) + 1] = Len(rest)
    BY DEF Framed
  <2>2. m # Len(packets)
    BY <1>1, <2>1
  <2> QED
    BY <1>1, <2>1, <2>2
<1>3. p \in Packets /\ n \in Nat
  <2>1. p \in Packets
    BY <1>2, ElementOfSeq
  <2> QED
    BY <2>1, LenProperties DEF Packets
<1>4. /\ mark[m + 1] = 0 /\ m + 1 + 1 = m + 2
      /\ m + 2 \in m + 1 .. Len(packets) + 1
      /\ mark[m + 2] \in 0 .. Len(rest)
  <2>1. m + 1 + 1 = m + 2 /\ m + 2 \in m + 1 .. Len(packets) + 1
    BY <1>1, <1>2
  <2>2. mark[m + 1] = 0 /\ mark \in [m + 1 .. Len(packets) + 1 -> 0 .. Len(rest)]
    BY DEF Framed
  <2> QED
    BY <2>1, <2>2
<1>5. /\ mark[m + 2] = 0 + HeaderSize + n
      /\ rest[0 + 1] = p.id
      /\ rest[0 + 2] = n % 2 ^ LengthBits
      /\ \A j \in 1 .. n : rest[0 + HeaderSize + j] = p.payload[j]
  BY <1>2, <1>4 DEF Framed
<1>6. /\ 0 + 1 = 1 /\ 0 + 2 = 2 /\ 0 + HeaderSize + n = HeaderSize + n
      /\ 0 + HeaderSize = HeaderSize
  BY <1>3 DEF HeaderSize
<1>7. HeaderSize + n \in 2 .. Len(rest)
  <2>1. HeaderSize + n \in 0 .. Len(rest)
    BY <1>4, <1>5, <1>6
  <2> QED
    BY <1>1, <1>3, <2>1 DEF HeaderSize
<1> QED
  BY <1>2, <1>3, <1>5, <1>6, <1>7

\* When it is taken off, the others are where they were in what is left.
LEMMA FramedDrop ==
    ASSUME NEW rest \in Seq(Nat), NEW packets \in Seq(Packets),
           NEW m \in Nat, NEW mark, Framed(rest, packets, m, mark),
           rest # <<>>
    PROVE  \E mark2 :
             Framed(Drop(rest, HeaderSize + Len(packets[m + 1].payload)),
                    packets, m + 1, mark2)
<1> DEFINE size  == HeaderSize + Len(packets[m + 1].payload)
           left  == Drop(rest, size)
           last  == Len(packets) + 1
           mark2 == [i \in m + 2 .. last |-> mark[i] - size]
<1>1. /\ Len(packets) \in Nat /\ Len(rest) \in Nat
      /\ m + 1 \in 1 .. Len(packets)
      /\ size \in 2 .. Len(rest) /\ mark[m + 2] = size
  BY FramedFirst, LenProperties
<1> HIDE DEF size
<1>2. /\ Len(left) = Len(rest) - size
      /\ \A i \in 1 .. Len(rest) - size : left[i] = rest[size + i]
  <2>1. size \in 0 .. Len(rest)
    BY <1>1
  <2> QED
    BY <2>1, DropIsSuffix
<1> HIDE DEF left
<1>3. ASSUME NEW i \in m + 2 .. last
      PROVE  /\ mark[i] \in size .. Len(rest)
             /\ mark2[i] = mark[i] - size
             /\ mark2[i] \in 0 .. Len(left)
  <2>1. i \in m + 1 .. last /\ m + 2 \in m + 1 .. last /\ m + 2 <= i
    BY <1>1
  <2>2. mark[i] \in 0 .. Len(rest) /\ mark[m + 2] <= mark[i]
    BY <2>1 DEF Framed
  <2>3. mark[i] \in size .. Len(rest)
    BY <1>1, <2>2
  <2>4. mark2[i] = mark[i] - size
    OBVIOUS
  <2>5. \A a \in size .. Len(rest) : a - size \in 0 .. Len(rest) - size
    BY <1>1
  <2> QED
    BY <1>2, <2>3, <2>4, <2>5
<1>4. mark2 \in [m + 2 .. last -> 0 .. Len(left)]
  BY <1>3
<1> HIDE DEF mark2
<1>5. mark2[m + 2] = 0 /\ mark2[last] = Len(left)
  <2>1. m + 2 \in m + 2 .. last /\ last \in m + 2 .. last
    BY <1>1
  <2>2. mark[last] = Len(rest)
    BY DEF Framed
  <2>3. mark2[m + 2] = mark[m + 2] - size /\ mark2[last] = mark[last] - size
    BY <1>3, <2>1
  <2>4. size - size = 0
    BY <1>1
  <2> QED
    BY <1>1, <1>2, <2>2, <2>3, <2>4
<1>6. \A i, j \in m + 2 .. last : i <= j => mark2[i] <= mark2[j]
  <2> TAKE i, j \in m + 2 .. last
  <2> HAVE i <= j
  <2>1. i \in m + 1 .. last /\ j \in m + 1 .. last
    BY <1>1
  <2>2. mark[i] <= mark[j]
    BY <2>1 DEF Framed
  <2>3. mark[i] \in Nat /\ mark[j] \in Nat
    BY <1>1, <1>3, SMTT(60)
  <2> QED
    BY <1>1, <1>3, <2>2, <2>3, SMTT(60)
<1>7. ASSUME NEW i \in m + 2 .. Len(packets)
      PROVE  LET n == Len(packets[i].payload)
             IN  /\ mark2[i + 1] = mark2[i] + HeaderSize + n
                 /\ left[mark2[i] + 1] = packets[i].id
                 /\ left[mark2[i] + 2] = n % 2 ^ LengthBits
                 /\ \A j \in 1 .. n :
                      left[mark2[i] + HeaderSize + j] = packets[i].payload[j]
  <2> DEFINE n == Len(packets[i].payload)
  <2>1. /\ i \in m + 1 .. Len(packets) /\ i \in 1 .. Len(packets)
        /\ i \in m + 2 .. last /\ i + 1 \in m + 2 .. last
    BY <1>1
  <2>2. /\ mark[i + 1] = mark[i] + 2 + n
        /\ rest[mark[i] + 1] = packets[i].id
        /\ rest[mark[i] + 2] = n % 2 ^ LengthBits
        /\ \A j \in 1 .. n : rest[mark[i] + 2 + j] = packets[i].payload[j]
    BY <2>1 DEF Framed, HeaderSize
  <2>3. n \in Nat
    <3>1. packets[i] \in Packets
      BY <2>1, ElementOfSeq
    <3> QED
      BY <3>1, LenProperties DEF Packets
  <2> HIDE DEF n
  <2>4. ASSUME NEW a \in size .. Len(rest), NEW b \in size .. Len(rest),
               b = a + 2 + n
        PROVE  /\ b - size = (a - size) + 2 + n
               /\ left[a - size + 1] = rest[a + 1]
               /\ left[a - size + 2] = rest[a + 2]
               /\ \A j \in 1 .. n : left[a - size + 2 + j] = rest[a + 2 + j]
    <3>1. ASSUME NEW k \in 1 .. 2 + n
          PROVE  left[a - size + k] = rest[a + k]
      <4>1. /\ a - size + k \in 1 .. Len(rest) - size
            /\ size + (a - size + k) = a + k
        BY <1>1, <2>3, <2>4
      <4> QED
        BY <1>2, <4>1
    <3>2. /\ 1 \in 1 .. 2 + n /\ 2 \in 1 .. 2 + n
          /\ \A j \in 1 .. n : /\ 2 + j \in 1 .. 2 + n
                              /\ a - size + (2 + j) = a - size + 2 + j
                              /\ a + (2 + j) = a + 2 + j
      BY <1>1, <2>3
    <3>3. \A j \in 1 .. n : left[a - size + 2 + j] = rest[a + 2 + j]
      <4> TAKE j \in 1 .. n
      <4>1. left[a - size + (2 + j)] = rest[a + (2 + j)]
        BY <3>1, <3>2
      <4> QED
        BY <3>2, <4>1
    <3> QED
      BY <1>1, <2>3, <2>4, <3>1, <3>2, <3>3
  <2>5. /\ mark[i] \in size .. Len(rest) /\ mark[i + 1] \in size .. Len(rest)
        /\ mark2[i] = mark[i] - size /\ mark2[i + 1] = mark[i + 1] - size
    BY <1>3, <2>1
  <2>6. /\ mark[i + 1] - size = (mark[i] - size) + 2 + n
        /\ left[mark[i] - size + 1] = rest[mark[i] + 1]
        /\ left[mark[i] - size + 2] = rest[mark[i] + 2]
        /\ \A j \in 1 .. n : left[mark[i] - size + 2 + j] = rest[mark[i] + 2 + j]
    <3> HIDE <2>5
    <3>1. mark[i] \in size .. Len(rest) /\ mark[i + 1] \in size .. Len(rest)
      BY <2>5
    <3> QED
      BY <2>2, <2>4, <3>1
  <2>7. /\ mark2[i + 1] = mark2[i] + HeaderSize + n
        /\ left[mark2[i] + 1] = packets[i].id
        /\ left[mark2[i] + 2] = n % 2 ^ LengthBits
        /\ \A j \in 1 .. n :
             left[mark2[i] + HeaderSize + j] = packets[i].payload[j]
    BY <2>2, <2>5, <2>6 DEF HeaderSize
  <2> QED
    BY <2>7 DEF n
<1>8. m + 1 <= Len(packets) /\ (m + 1) + 1 = m + 2
  BY <1>1
<1>9. Framed(left, packets, m + 1, mark2)
  BY <1>4, <1>5, <1>6, <1>7, <1>8 DEF Framed
<1> QED
  BY <1>9 DEF left, size

-----------------------------------------------------------------------------
(* The steps.                                                              *)

\* A packet as it is parsed.
Got == [id : Nat, payload : Seq(Nat)]

\* The lengths of the three sequences, and of the bytes they are together.
LEMMA RestIs ==
    ASSUME TypeOK
    PROVE  /\ Rest \in Seq(Nat)
           /\ Len(Rest) = Len(packet) + Len(buffer) + Len(wire)
           /\ \A i \in 1 .. Len(packet) : Rest[i] = packet[i]
           /\ Rest = packet \o (buffer \o wire)
<1>1. /\ packet \in Seq(Nat) /\ buffer \in Seq(Nat) /\ wire \in Seq(Nat)
  BY DEF TypeOK
<1>2. Len(packet) \in Nat /\ Len(buffer) \in Nat /\ Len(wire) \in Nat
  BY <1>1, LenProperties
<1>3. /\ packet \o buffer \in Seq(Nat)
      /\ Len(packet \o buffer) = Len(packet) + Len(buffer)
      /\ \A i \in 1 .. Len(packet) + Len(buffer) :
           (packet \o buffer)[i] = IF i <= Len(packet) THEN packet[i]
                                   ELSE buffer[i - Len(packet)]
  BY <1>1, ConcatProperties
<1>4. /\ Rest \in Seq(Nat)
      /\ Len(Rest) = Len(packet \o buffer) + Len(wire)
      /\ \A i \in 1 .. Len(packet \o buffer) + Len(wire) :
           Rest[i] = IF i <= Len(packet \o buffer) THEN (packet \o buffer)[i]
                     ELSE wire[i - Len(packet \o buffer)]
  <2>1. packet \o buffer \in Seq(Nat)
    BY <1>3
  <2> QED
    BY <1>1, <2>1, ConcatProperties DEF Rest
<1>5. \A i \in 1 .. Len(packet) : Rest[i] = packet[i]
  <2> TAKE i \in 1 .. Len(packet)
  <2>1. /\ i \in 1 .. Len(packet) + Len(buffer)
        /\ i \in 1 .. Len(packet) + Len(buffer) + Len(wire)
        /\ i <= Len(packet) /\ i <= Len(packet) + Len(buffer)
    BY <1>2
  <2> QED
    BY <1>3, <1>4, <2>1
<1>6. Rest = packet \o (buffer \o wire)
  <2>1. \A s, t, u \in Seq(Nat) : (s \o t) \o u = s \o (t \o u)
    BY Associative
  <2> QED
    BY <1>1, <2>1 DEF Rest
<1> QED
  BY <1>3, <1>4, <1>5, <1>6

\* A longer list of packets states the lengths of the first ones as before.
LEMMA StatedBefore ==
    ASSUME NEW packets \in Seq(Packets), NEW p, NEW k \in Nat,
           AllStated(Append(packets, p), k)
    PROVE  AllStated(packets, k)
<1>1. /\ Len(packets) \in Nat /\ Len(Append(packets, p)) = Len(packets) + 1
      /\ \A i \in 1 .. Len(packets) : Append(packets, p)[i] = packets[i]
  BY LenProperties
<1> QED
  BY <1>1 DEF AllStated

\* The header states the lengths of fewer packets, if it does so of more.
LEMMA StatedFewer ==
    ASSUME NEW packets \in Seq(Packets), NEW k \in Nat, NEW l \in Nat, k <= l,
           AllStated(packets, l)
    PROVE  AllStated(packets, k)
<1>1. Len(packets) \in Nat
  BY LenProperties
<1> QED
  BY <1>1 DEF AllStated

\* The conditions of the model's properties, in the terms of this module.
LEMMA StatedIs ==
    ASSUME TypeOK, NEW k \in Nat
    PROVE  AllStated(sent, k) <=> \A j \in 1 .. Least(k, Len(sent)) : Stated(j)
<1>1. Len(sent) \in Nat
  BY LenProperties DEF TypeOK
<1> QED
  BY <1>1 DEF AllStated, Stated, Least

LEMMA AsSentIs ==
    ASSUME TypeOK
    PROVE  AsSent(parsed, sent) <=> ParsedAsSent
<1>1. Len(parsed) \in Nat
  BY LenProperties DEF TypeOK
<1>2. \A i \in 1 .. Len(parsed) :
         AllStated(sent, i) <=> \A j \in 1 .. Least(i, Len(sent)) : Stated(j)
  BY <1>1, StatedIs
<1> QED
  BY <1>2 DEF AsSent, ParsedAsSent

\* Nothing was sent.
LEMMA InitCorrect == Init => IInv
<1> SUFFICES ASSUME Init PROVE IInv
  OBVIOUS
<1>1. TypeOK
  <2>1. MAX_PACKET_SIZE \in Nat
    BY StreamAssumption DEF StreamAssumption, MAX_PACKET_SIZE
  <2> QED
    BY <2>1, StreamAssumption, EmptySeq DEF StreamAssumption, Init, TypeOK
<1>2. InStep
  <2>1. Rest \in Seq(Nat) /\ Len(Rest) = 0
    BY <1>1, RestIs DEF Init
  <2>2. Framed(Rest, sent, Len(parsed), [i \in {1} |-> 0])
    BY <2>1 DEF Init, Framed
  <2> QED
    BY <2>2 DEF InStep
<1> QED
  BY <1>1, <1>2 DEF IInv, Init, AsSent, RefusesOnlyTooLarge

\* What a step that sends and delivers nothing has to show.
LEMMA OnlyMoved ==
    ASSUME IInv, TypeOK', (posted => buffer = <<>>)', Rest' = Rest,
           UNCHANGED <<sent, parsed>>, RefusesOnlyTooLarge'
    PROVE  IInv'
BY DEF IInv, InStep

\* A receive moves bytes from the wire into the buffer, which is empty.
LEMMA ReceiveCorrect ==
    ASSUME IInv, NEW n \in 1 .. ReceiveLength, Receive(n)
    PROVE  IInv'
<1>1. /\ wire \in Seq(Nat) /\ packet \in Seq(Nat) /\ buffer = <<>>
      /\ RECV_BUFFER_SIZE \in Nat
  BY StreamAssumption DEF StreamAssumption, IInv, TypeOK, Receive
<1>2. n \in 0 .. Len(wire) /\ n <= RECV_BUFFER_SIZE
  BY <1>1, LenProperties DEF Receive, Least, ReceiveLength
<1>3. /\ buffer' \in Seq(Nat) /\ Len(buffer') = n /\ wire' \in Seq(Nat)
  BY <1>1, <1>2, FrontIsPrefix, DropIsSuffix DEF Receive
<1>4. TypeOK'
  BY <1>2, <1>3 DEF IInv, TypeOK, Receive
<1>5. Rest' = Rest
  <2>1. buffer' \o wire' = wire
    BY <1>1, <1>2, CutIsWhole DEF Receive
  <2>2. \A s, t, u \in Seq(Nat) : (s \o t) \o u = s \o (t \o u)
    BY Associative
  <2>3. Rest' = packet \o wire
    <3>1. Rest' = (packet \o buffer') \o wire'
      BY DEF Rest, Receive
    <3>2. (packet \o buffer') \o wire' = packet \o (buffer' \o wire')
      BY <1>1, <1>3, <2>2
    <3> QED
      BY <2>1, <3>1, <3>2
  <2>4. packet \o buffer = packet
    BY <1>1, ConcatEmptySeq
  <2> QED
    BY <2>3, <2>4 DEF Rest
<1> QED
  BY <1>4, <1>5, OnlyMoved DEF IInv, Receive, RefusesOnlyTooLarge, Fits

\* The parser moves bytes from the buffer behind those it has.
LEMMA TakeCorrect ==
    ASSUME IInv, Take
    PROVE  IInv'
<1> DEFINE n == Least(Len(buffer), Capacity - Len(packet))
<1>1. /\ wire \in Seq(Nat) /\ packet \in Seq(Nat) /\ buffer \in Seq(Nat)
      /\ Capacity \in Nat /\ Capacity = MAX_PACKET_SIZE
  BY StreamAssumption DEF StreamAssumption, IInv, TypeOK, Capacity, MAX_PACKET_SIZE
<1>2. Len(packet) \in Nat /\ Len(buffer) \in Nat /\ Len(packet) <= Capacity
  BY <1>1, LenProperties DEF IInv, TypeOK
<1>3. n \in 1 .. Len(buffer) /\ Len(packet) + n <= Capacity
  <2>1. n > 0
    BY DEF Take
  <2> QED
    BY <1>1, <1>2, <2>1 DEF Least
<1> DEFINE front == SubSeq(buffer, 1, n)
<1>4. packet' = packet \o front /\ buffer' = Drop(buffer, n)
  BY DEF Take
<1> HIDE DEF n
<1>5. /\ front \in Seq(Nat) /\ Len(front) = n
      /\ Drop(buffer, n) \in Seq(Nat) /\ Len(Drop(buffer, n)) = Len(buffer) - n
      /\ front \o Drop(buffer, n) = buffer
  <2>1. n \in 0 .. Len(buffer)
    BY <1>3
  <2> QED
    BY <1>1, <2>1, FrontIsPrefix, DropIsSuffix, CutIsWhole
<1> HIDE DEF front
<1>6. packet' \in Seq(Nat) /\ Len(packet') = Len(packet) + n
  BY <1>1, <1>4, <1>5, ConcatProperties
<1>7. TypeOK'
  <2>1. Len(buffer') <= Len(buffer)
    BY <1>2, <1>3, <1>4, <1>5
  <2>2. Len(buffer) <= RECV_BUFFER_SIZE /\ RECV_BUFFER_SIZE \in Nat
    BY StreamAssumption DEF StreamAssumption, IInv, TypeOK
  <2>3. Len(buffer') <= RECV_BUFFER_SIZE
    BY <1>2, <1>3, <1>4, <1>5, <2>1, <2>2
  <2> QED
    BY <1>1, <1>3, <1>4, <1>5, <1>6, <2>3 DEF IInv, TypeOK, Take
<1>8. Rest' = Rest
  <2>1. \A s, t, u \in Seq(Nat) : (s \o t) \o u = s \o (t \o u)
    BY Associative
  <2>2. (packet \o front) \o Drop(buffer, n) = packet \o buffer
    <3>1. packet \in Seq(Nat) /\ front \in Seq(Nat) /\ Drop(buffer, n) \in Seq(Nat)
      BY <1>1, <1>5
    <3>2. (packet \o front) \o Drop(buffer, n) = packet \o (front \o Drop(buffer, n))
      BY <2>1, <3>1
    <3> QED
      BY <1>5, <3>2
  <2>3. packet' \o buffer' = packet \o buffer
    BY <1>4, <2>2
  <2> QED
    BY <2>3 DEF Rest, Take
<1> QED
  BY <1>7, <1>8, OnlyMoved
     DEF IInv, Take, Parsing, RefusesOnlyTooLarge, Fits

\* A receive is posted when nothing is left of the one before.
LEMMA PostCorrect ==
    ASSUME IInv, PostRecv
    PROVE  IInv'
<1>1. TypeOK' /\ Rest' = Rest
  BY DEF IInv, TypeOK, PostRecv, Rest
<1> QED
  BY <1>1, OnlyMoved DEF IInv, PostRecv, RefusesOnlyTooLarge, Fits

\* A full buffer that holds no whole packet begins with a packet too large.
LEMMA RefuseCorrect ==
    ASSUME IInv, Refuse
    PROVE  IInv'
<1>1. TypeOK' /\ Rest' = Rest
  BY DEF IInv, TypeOK, Refuse, Rest
<1>2. \E i \in 1 .. Len(sent) : ~Fits(i)
  <2> SUFFICES ASSUME \A i \in 1 .. Len(sent) : Fits(i) PROVE FALSE
    OBVIOUS
  <2>1. /\ sent \in Seq(Packets) /\ Len(parsed) \in Nat /\ Len(sent) \in Nat
        /\ Len(packet) \in Nat /\ Len(buffer) \in Nat /\ Len(wire) \in Nat
    BY LenProperties DEF IInv, TypeOK
  <2>2. /\ Capacity = MAX_PACKET_SIZE /\ Capacity = 2 ^ LengthBits
        /\ 2 ^ LengthBits \in Nat /\ MAX_PACKET_SIZE = 2 ^ LengthBits
    BY StreamAssumption DEF StreamAssumption, Capacity, MAX_PACKET_SIZE
  <2>3. \A i \in 1 .. Len(sent) :
           /\ Len(sent[i].payload) \in Nat
           /\ HeaderSize + Len(sent[i].payload) <= Capacity
           /\ Len(sent[i].payload) < 2 ^ LengthBits
    <3> TAKE i \in 1 .. Len(sent)
    <3>1. sent[i] \in Packets
      BY <2>1, ElementOfSeq
    <3>2. Len(sent[i].payload) \in Nat
      BY <3>1, LenProperties DEF Packets
    <3>3. HeaderSize + Len(sent[i].payload) <= Capacity
      BY <2>2 DEF Fits
    <3> QED
      BY <2>2, <3>2, <3>3 DEF HeaderSize
  <2>4. PICK mark : Framed(Rest, sent, Len(parsed), mark)
    BY <2>3 DEF IInv, InStep, AllStated
  <2>5. /\ Rest \in Seq(Nat) /\ Len(Rest) = Len(packet) + Len(buffer) + Len(wire)
        /\ \A i \in 1 .. Len(packet) : Rest[i] = packet[i]
    BY RestIs DEF IInv
  <2>6. Len(buffer) > 0
    BY EmptySeq DEF IInv, TypeOK, Refuse
  <2>7. Rest # <<>>
    BY <2>1, <2>5, <2>6, EmptySeq
  <2> DEFINE k == Len(sent[Len(parsed) + 1].payload)
  <2>8. /\ Len(parsed) + 1 \in 1 .. Len(sent)
        /\ Rest[2] = k % 2 ^ LengthBits
    BY <2>1, <2>4, <2>5, <2>7, FramedFirst
  <2>9. k \in Nat /\ HeaderSize + k <= Capacity /\ k < 2 ^ LengthBits
    BY <2>3, <2>8
  <2> HIDE DEF k
  <2>10. Len(packet) = Capacity
    BY DEF Refuse
  <2>11. 2 \in 1 .. Len(packet)
    BY <2>2, <2>9, <2>10 DEF HeaderSize
  <2>12. packet[2] = k
    <3>1. \A c \in Nat \ {0} : \A a \in Nat : a < c => a % c = a
      OBVIOUS
    <3>2. 2 ^ LengthBits \in Nat \ {0}
      BY StreamAssumption DEF StreamAssumption
    <3>3. Rest[2] = k
      BY <2>8, <2>9, <3>1, <3>2
    <3> QED
      BY <2>5, <2>11, <3>3
  <2>13. Len(packet) >= HeaderSize /\ Len(packet) >= HeaderSize + packet[2]
    BY <2>2, <2>9, <2>10, <2>12 DEF HeaderSize
  <2> QED
    BY <2>13 DEF Refuse, Whole
<1>3. RefusesOnlyTooLarge'
  BY <1>2 DEF RefusesOnlyTooLarge, Fits, Refuse
<1> QED
  BY <1>1, <1>3, OnlyMoved DEF IInv, Refuse

\* The first packet in the bytes is the next that was sent.
LEMMA DeliverCorrect ==
    ASSUME IInv, Deliver
    PROVE  IInv'
<1> DEFINE size == HeaderSize + packet[2]
           got  == [id |-> packet[1],
                    payload |-> SubSeq(packet, HeaderSize + 1, size)]
           m    == Len(parsed)
<1>1. /\ packet \in Seq(Nat) /\ buffer \in Seq(Nat) /\ wire \in Seq(Nat)
      /\ sent \in Seq(Packets) /\ parsed \in Seq(Got)
      /\ Len(packet) \in Nat /\ Len(buffer) \in Nat /\ Len(wire) \in Nat
      /\ Len(sent) \in Nat /\ m \in Nat
      /\ 2 ^ LengthBits \in Nat \ {0} /\ Len(packet) <= MAX_PACKET_SIZE
      /\ MAX_PACKET_SIZE \in Nat
  BY LenProperties, StreamAssumption
     DEF StreamAssumption, IInv, TypeOK, MAX_PACKET_SIZE, Got
<1>2. /\ packet[1] \in Nat /\ packet[2] \in Nat
      /\ size \in 2 .. Len(packet)
  <2>1. Len(packet) >= 2 /\ Len(packet) >= 2 + packet[2]
    BY DEF Deliver, Whole, HeaderSize
  <2>2. 1 \in 1 .. Len(packet) /\ 2 \in 1 .. Len(packet)
    BY <1>1, <2>1
  <2>3. packet[1] \in Nat /\ packet[2] \in Nat
    BY <1>1, <2>2, ElementOfSeq
  <2> QED
    BY <1>1, <2>1, <2>3, SMTT(60) DEF HeaderSize
<1>3. /\ SubSeq(packet, 3, size) \in Seq(Nat)
      /\ Len(SubSeq(packet, 3, size)) = packet[2]
      /\ \A j \in 1 .. packet[2] : SubSeq(packet, 3, size)[j] = packet[2 + j]
  <2>1. \A i \in 3 .. size : packet[i] \in Nat
    <3>1. \A i \in 3 .. size : i \in 1 .. Len(packet)
      BY <1>1, <1>2
    <3> QED
      BY <1>1, <3>1, ElementOfSeq
  <2>2. size \in Int /\ 3 \in Int
    BY <1>2
  <2> HIDE DEF size
  <2>3. /\ SubSeq(packet, 3, size) \in Seq(Nat)
        /\ Len(SubSeq(packet, 3, size)) = IF 3 <= size THEN size - 3 + 1 ELSE 0
        /\ \A i \in 1 .. size - 3 + 1 : SubSeq(packet, 3, size)[i] = packet[3 + i - 1]
    BY <2>1, <2>2, SubSeqProperties
  <2>4. size = 2 + packet[2]
    BY DEF size, HeaderSize
  <2>5. /\ size - 3 + 1 = packet[2]
        /\ (IF 3 <= size THEN size - 3 + 1 ELSE 0) = packet[2]
        /\ \A j \in 1 .. packet[2] : 3 + j - 1 = 2 + j
    BY <1>2, <2>4
  <2> QED
    BY <2>3, <2>5
<1>4. got \in Got
  BY <1>2, <1>3 DEF Got, HeaderSize
<1>5. /\ parsed' = Append(parsed, got) /\ packet' = Drop(packet, size)
      /\ UNCHANGED <<wire, posted, buffer, open, sent>>
  BY DEF Deliver
<1>6. /\ parsed' \in Seq(Got) /\ Len(parsed') = m + 1
      /\ parsed'[m + 1] = got /\ \A i \in 1 .. m : parsed'[i] = parsed[i]
  BY <1>1, <1>4, <1>5
<1>7. /\ packet' \in Seq(Nat) /\ Len(packet') <= MAX_PACKET_SIZE
  <2>1. size \in 0 .. Len(packet)
    BY <1>2
  <2>2. Drop(packet, size) \in Seq(Nat)
        /\ Len(Drop(packet, size)) = Len(packet) - size
    BY <1>1, <2>1, DropIsSuffix
  <2> QED
    BY <1>1, <1>2, <1>5, <2>2, SMTT(60)
<1>8. TypeOK'
  BY <1>5, <1>6, <1>7 DEF IInv, TypeOK, Got
<1>9. Rest' = Drop(Rest, size)
  <2>1. size \in 0 .. Len(packet)
    BY <1>2
  <2>2. buffer \o wire \in Seq(Nat)
    BY <1>1, ConcatProperties
  <2>3. Drop(packet, size) \o (buffer \o wire) = Drop(packet \o (buffer \o wire), size)
    BY <1>1, <2>1, <2>2, DropOfConcat, ZenonT(60)
  <2>4. Rest = packet \o (buffer \o wire)
    BY RestIs DEF IInv
  <2>5. \A s, t, u \in Seq(Nat) : (s \o t) \o u = s \o (t \o u)
    BY Associative
  <2>6. (packet' \o buffer) \o wire = packet' \o (buffer \o wire)
    BY <1>1, <1>7, <2>5, ZenonT(60)
  <2>7. Rest' = (packet' \o buffer) \o wire
    BY <1>5 DEF Rest
  <2> QED
    BY <1>5, <2>3, <2>4, <2>6, <2>7
<1>10. ASSUME AllStated(sent, m + 1)
       PROVE  /\ m + 1 \in 1 .. Len(sent) /\ got = sent[m + 1]
              /\ \E mark : Framed(Rest', sent, m + 1, mark)
  <2>1. PICK mark : Framed(Rest, sent, m, mark)
    <3>1. AllStated(sent, m)
      BY <1>1, <1>10, StatedFewer
    <3> QED
      BY <3>1 DEF IInv, InStep
  <2>2. /\ Rest \in Seq(Nat) /\ Len(Rest) = Len(packet) + Len(buffer) + Len(wire)
        /\ \A i \in 1 .. Len(packet) : Rest[i] = packet[i]
    BY RestIs DEF IInv
  <2>3. Rest # <<>>
    BY <1>1, <1>2, <2>2, EmptySeq
  <2> DEFINE p == sent[m + 1]
             n == Len(p.payload)
  <2>4. /\ m + 1 \in 1 .. Len(sent) /\ n \in Nat /\ p \in Packets
        /\ Rest[1] = p.id /\ Rest[2] = n % 2 ^ LengthBits
        /\ \A j \in 1 .. n : Rest[HeaderSize + j] = p.payload[j]
    <3>1. sent \in Seq(Packets) /\ Len(parsed) \in Nat /\ Rest \in Seq(Nat)
      BY <1>1, <2>2
    <3> QED
      BY <2>1, <2>3, <3>1, FramedFirst
  <2>5. n < 2 ^ LengthBits
    BY <1>10, <2>4 DEF AllStated
  <2> HIDE DEF n
  <2>6. packet[1] = p.id /\ packet[2] = n
    <3>1. \A c \in Nat \ {0} : \A a \in Nat : a < c => a % c = a
      OBVIOUS
    <3>2. n % 2 ^ LengthBits = n
      BY <1>1, <2>4, <2>5, <3>1
    <3>3. 1 \in 1 .. Len(packet) /\ 2 \in 1 .. Len(packet)
      BY <1>1, <1>2, SMTT(60)
    <3> QED
      BY <2>2, <2>4, <3>2, <3>3
  <2>7. SubSeq(packet, 3, size) = p.payload
    <3>1. p.payload \in Seq(Nat) /\ Len(p.payload) = n
      BY <2>4 DEF Packets, n
    <3>2. \A j \in 1 .. n : packet[2 + j] = p.payload[j]
      <4> TAKE j \in 1 .. n
      <4>1. 2 + j \in 1 .. Len(packet)
        BY <1>1, <1>2, <2>4, <2>6 DEF HeaderSize
      <4>2. Rest[2 + j] = p.payload[j]
        BY <2>4 DEF HeaderSize
      <4> QED
        BY <2>2, <4>1, <4>2
    <3>3. \A j \in 1 .. n : SubSeq(packet, 3, size)[j] = p.payload[j]
      BY <1>3, <2>6, <3>2
    <3> DEFINE s == SubSeq(packet, 3, size)
    <3>4. s \in Seq(Nat) /\ Len(s) = n /\ \A j \in 1 .. Len(s) : s[j] = p.payload[j]
      BY <1>3, <2>6, <3>3
    <3> HIDE DEF s, p
    <3>5. s = p.payload
      BY <3>1, <3>4, SeqEqual
    <3> QED
      BY <3>5 DEF s
  <2>8. got = sent[m + 1]
    BY <2>4, <2>6, <2>7 DEF Packets, HeaderSize
  <2>9. size = HeaderSize + n
    BY <2>6
  <2>10. \E mark2 : Framed(Drop(Rest, HeaderSize + n), sent, m + 1, mark2)
    BY <1>1, <2>1, <2>2, <2>3, FramedDrop DEF n
  <2> QED
    BY <1>9, <2>4, <2>8, <2>9, <2>10
<1> HIDE DEF got, size
<1>11. InStep'
  BY <1>5, <1>6, <1>10 DEF InStep
<1>12. AsSent(parsed', sent)
  <2> SUFFICES ASSUME NEW i \in 1 .. m + 1, AllStated(sent, i)
               PROVE  i <= Len(sent) /\ parsed'[i] = sent[i]
    BY <1>6 DEF AsSent
  <2>1. CASE i = m + 1
    BY <1>6, <1>10, <2>1
  <2>2. CASE i # m + 1
    <3>1. i \in 1 .. m
      BY <1>1, <2>2
    <3> QED
      BY <1>6, <3>1 DEF IInv, AsSent
  <2> QED
    BY <2>1, <2>2
<1>13. AsSent(parsed, sent)'
  BY <1>5, <1>12
<1> QED
  BY <1>5, <1>8, <1>11, <1>13 DEF IInv, RefusesOnlyTooLarge, Fits

\* A packet is sent behind the others.
LEMMA SendCorrect ==
    ASSUME IInv, NEW id \in Ids, NEW n \in Lengths, Send(id, n)
    PROVE  IInv'
<1> DEFINE payload == [i \in 1 .. n |-> id]
           p       == [id |-> id, payload |-> payload]
           head    == Header(id, payload)
<1>1. /\ packet \in Seq(Nat) /\ buffer \in Seq(Nat) /\ wire \in Seq(Nat)
      /\ sent \in Seq(Packets) /\ Len(sent) \in Nat /\ Len(parsed) \in Nat
      /\ id \in Nat /\ n \in Nat /\ 2 ^ LengthBits \in Nat \ {0}
  BY LenProperties, StreamAssumption DEF StreamAssumption, IInv, TypeOK
<1>2. payload \in Seq(Nat) /\ p \in Packets
  BY <1>1 DEF Packets
<1>3. head \in Seq(Nat)
  <2>1. Len(payload) \in Nat
    BY <1>2, LenProperties
  <2>2. Len(payload) % 2 ^ LengthBits \in Nat
    BY <1>1, <2>1, SMTT(60)
  <2> QED
    BY <1>1, <2>2 DEF Header
<1>4. /\ sent' = Append(sent, p) /\ wire' = (wire \o head) \o payload
      /\ UNCHANGED <<posted, buffer, packet, open, parsed>>
  BY DEF Send
<1> HIDE DEF payload, head
<1>5. /\ sent' \in Seq(Packets) /\ Len(sent') = Len(sent) + 1
      /\ \A i \in 1 .. Len(sent) : sent'[i] = sent[i]
  BY <1>1, <1>2, <1>4
<1>6. wire' \in Seq(Nat) /\ wire' = wire \o (head \o payload)
  <2>1. \A s, t, u \in Seq(Nat) : (s \o t) \o u = s \o (t \o u)
    BY Associative
  <2>2. \A s, t \in Seq(Nat) : s \o t \in Seq(Nat)
    BY ConcatProperties
  <2>3. (wire \o head) \o payload = wire \o (head \o payload)
    BY <1>1, <1>2, <1>3, <2>1, ZenonT(60)
  <2>4. (wire \o head) \o payload \in Seq(Nat)
    BY <1>1, <1>2, <1>3, <2>2
  <2> QED
    BY <1>4, <2>3, <2>4
<1>7. TypeOK'
  BY <1>4, <1>5, <1>6 DEF IInv, TypeOK
<1>8. Rest' = Rest \o (head \o payload)
  <2>1. \A s, t, u \in Seq(Nat) : (s \o t) \o u = s \o (t \o u)
    BY Associative
  <2>2. packet \o buffer \in Seq(Nat) /\ head \o payload \in Seq(Nat)
    BY <1>1, <1>2, <1>3, ConcatProperties
  <2>3. Rest' = (packet \o buffer) \o wire'
    BY <1>4 DEF Rest
  <2>4. ((packet \o buffer) \o wire) \o (head \o payload)
            = (packet \o buffer) \o (wire \o (head \o payload))
    BY <1>1, <2>1, <2>2, ZenonT(60)
  <2> QED
    BY <1>6, <2>3, <2>4 DEF Rest
<1>9. InStep'
  <2> SUFFICES ASSUME AllStated(sent', Len(parsed))
               PROVE  \E mark : Framed(Rest', sent', Len(parsed), mark)
    BY <1>4 DEF InStep
  <2>1. AllStated(sent, Len(parsed))
    BY <1>1, <1>4, StatedBefore
  <2>2. PICK mark : Framed(Rest, sent, Len(parsed), mark)
    BY <2>1 DEF IInv, InStep
  <2>3. Rest \in Seq(Nat)
    BY RestIs DEF IInv
  <2>4. \E mark2 : Framed(Rest \o (head \o payload), Append(sent, p),
                         Len(parsed), mark2)
    BY <1>1, <1>2, <2>2, <2>3, FramedAppend DEF head
  <2> QED
    BY <1>4, <1>8, <2>4
<1>10. AsSent(parsed, sent')
  <2> SUFFICES ASSUME NEW i \in 1 .. Len(parsed), AllStated(sent', i)
               PROVE  i <= Len(sent') /\ parsed[i] = sent'[i]
    BY DEF AsSent
  <2>1. AllStated(sent, i)
    BY <1>1, <1>4, StatedBefore
  <2>2. i <= Len(sent) /\ parsed[i] = sent[i]
    BY <2>1 DEF IInv, AsSent
  <2>3. i \in 1 .. Len(sent)
    BY <1>1, <2>2
  <2> QED
    BY <1>1, <1>5, <2>2, <2>3
<1>11. AsSent(parsed, sent)'
  BY <1>4, <1>10
<1>12. RefusesOnlyTooLarge'
  <2> SUFFICES ASSUME ~open PROVE \E i \in 1 .. Len(sent') : ~Fits(i)'
    BY <1>4 DEF RefusesOnlyTooLarge
  <2>1. PICK i \in 1 .. Len(sent) : ~Fits(i)
    BY DEF IInv, RefusesOnlyTooLarge
  <2>2. i \in 1 .. Len(sent') /\ sent'[i] = sent[i]
    BY <1>1, <1>5
  <2>3. ~Fits(i)'
    BY <2>1, <2>2 DEF Fits
  <2> QED
    BY <2>2, <2>3
<1> QED
  BY <1>4, <1>7, <1>9, <1>11, <1>12 DEF IInv

\* Every step of the stream, and none, keeps the invariant.
LEMMA StepCorrect == IInv /\ [Next]_vars => IInv'
<1> SUFFICES ASSUME IInv, [Next]_vars PROVE IInv'
  OBVIOUS
<1>1. CASE UNCHANGED vars
  <2>1. TypeOK' /\ Rest' = Rest /\ UNCHANGED <<sent, parsed>>
    BY <1>1 DEF vars, IInv, TypeOK, Rest
  <2>2. (posted => buffer = <<>>)' /\ RefusesOnlyTooLarge'
    BY <1>1 DEF vars, IInv, RefusesOnlyTooLarge, Fits
  <2> QED
    BY <2>1, <2>2, OnlyMoved
<1> QED
  BY <1>1, ReceiveCorrect, TakeCorrect, DeliverCorrect, RefuseCorrect,
     PostCorrect, SendCorrect
     DEF Next, Serve, Arrive

\* So it holds always.
LEMMA Invariance == Spec => []IInv
BY InitCorrect, StepCorrect, PTL DEF Spec

\* Every variable keeps its type, and neither buffer is ever written past its
\* end.
THEOREM TypeCorrect == Spec => []TypeOK
<1>1. IInv => TypeOK
  BY DEF IInv
<1> QED
  BY <1>1, Invariance, PTL

\* What ProcessPacket gets are the packets sent, in their order and whole, as
\* long as every payload's length fits into the header's field, however receives
\* cut the stream.
THEOREM PacketsAsSent == Spec => []ParsedAsSent
<1>1. IInv => ParsedAsSent
  BY AsSentIs DEF IInv
<1> QED
  BY <1>1, Invariance, PTL

\* ParsePackets gives up a stream only if a packet was sent that the packet
\* buffer has no room for.
THEOREM RefusalsAreDue == Spec => []RefusesOnlyTooLarge
<1>1. IInv => RefusesOnlyTooLarge
  BY DEF IInv
<1> QED
  BY <1>1, Invariance, PTL

-----------------------------------------------------------------------------
(* The stream implements PacketChannel.                                    *)

\* The channel is in step when the headers state the lengths of all packets up
\* to the next.
LEMMA InStepIs ==
    ASSUME TypeOK
    PROVE  Channel!InStep <=> AllStated(sent, Len(parsed) + 1)
BY DEF Channel!InStep, Channel!Count, AllStated, States

\* A packet is sent into the channel.
LEMMA SendMaps ==
    ASSUME NEW id \in Ids, NEW n \in Lengths, Send(id, n)
    PROVE  \E p \in Outgoing : Channel!Send(p)
<1> DEFINE p == [id |-> id, payload |-> [i \in 1 .. n |-> id]]
<1>1. p \in Outgoing
  <2> DEFINE bytes(i, k) == [j \in 1 .. k |-> i]
             packets == {[id |-> i, payload |-> bytes(i, k)] : i \in Ids, k \in Lengths}
  <2>1. Outgoing = packets
    BY DEF Outgoing
  <2>2. p = [id |-> id, payload |-> bytes(id, n)]
    OBVIOUS
  <2> HIDE DEF bytes, p
  <2> QED
    BY <2>1, <2>2
<1>2. Channel!Send(p)
  BY DEF Send, Channel!Send
<1> QED
  BY <1>1, <1>2

\* The packet handed out is the next, unless the channel is out of step.
LEMMA DeliverMaps ==
    ASSUME IInv, IInv', Deliver
    PROVE  Channel!Deliver \/ Channel!Garble
<1>1. PICK got : parsed' = Append(parsed, got)
  BY DEF Deliver
<1>2. UNCHANGED <<sent, open>> /\ open
  BY DEF Deliver, Parsing
<1>3. /\ parsed \in Seq(Got) /\ parsed' \in Seq(Got) /\ Len(parsed) \in Nat
      /\ sent \in Seq(Packets) /\ Len(sent) \in Nat
  BY LenProperties DEF IInv, TypeOK, Got
<1>4. /\ Len(parsed') = Len(parsed) + 1
      /\ \A i \in 1 .. Len(parsed) : parsed'[i] = parsed[i]
      /\ parsed'[Len(parsed) + 1] = got
  BY <1>1, <1>3
<1>5. CASE Channel!InStep
  <2>1. AllStated(sent, Len(parsed) + 1)
    BY <1>5, InStepIs DEF IInv
  <2>2. Len(parsed) + 1 \in 1 .. Len(parsed')
    BY <1>3, <1>4
  <2>3. AsSent(parsed', sent)
    BY <1>2 DEF IInv
  <2>4. Len(parsed) + 1 <= Len(sent) /\ got = sent[Len(parsed) + 1]
    BY <1>4, <2>1, <2>2, <2>3 DEF AsSent
  <2> QED
    BY <1>1, <1>2, <1>5, <2>4 DEF Channel!Deliver, Channel!Count
<1>6. CASE ~Channel!InStep
  <2> DEFINE front == SubSeq(parsed', 1, Len(parsed))
             before == parsed
             after == parsed'
  <2>1. Len(before) \in 0 .. Len(after)
    BY <1>3, <1>4
  <2>2. before \in Seq(Got) /\ after \in Seq(Got) /\ Len(after) = Len(before) + 1
        /\ \A i \in 1 .. Len(before) : after[i] = before[i]
    BY <1>3, <1>4
  <2> HIDE DEF before, after
  <2>3. SubSeq(after, 1, Len(before)) = before
    <3> DEFINE s == SubSeq(after, 1, Len(before))
    <3>1. s \in Seq(Got) /\ Len(s) = Len(before)
          /\ \A i \in 1 .. Len(before) : s[i] = after[i]
      BY <2>1, <2>2, FrontIsPrefix
    <3> HIDE DEF s
    <3>2. s = before
      BY <2>2, <3>1, SeqEqual
    <3> QED
      BY <3>2 DEF s
  <2>4. SubSeq(parsed', 1, Len(parsed)) = parsed
    BY <2>3 DEF before, after
  <2> QED
    BY <1>2, <1>4, <1>6, <2>4 DEF Channel!Garble, Channel!Count
<1> QED
  BY <1>5, <1>6

\* The parser gives up when the channel may.
LEMMA RefuseMaps ==
    ASSUME IInv', Refuse
    PROVE  Channel!Refuse
<1>1. open /\ open' = FALSE /\ UNCHANGED <<sent, parsed>>
  BY DEF Refuse, Parsing
<1>2. \E i \in 1 .. Len(sent) : ~HasRoom(sent[i])
  BY <1>1 DEF IInv, RefusesOnlyTooLarge, Fits, HasRoom
<1> QED
  BY <1>1, <1>2 DEF Channel!Refuse

\* Every step of the stream is one of the channel, or none.
LEMMA StreamStepMaps ==
    IInv /\ IInv' /\ [Next]_vars => [Channel!Next]_(Channel!vars)
<1> SUFFICES ASSUME IInv, IInv', [Next]_vars
             PROVE  Channel!Next \/ UNCHANGED Channel!vars
  OBVIOUS
<1>1. CASE UNCHANGED vars
  BY <1>1 DEF vars, Channel!vars
<1>2. CASE Take \/ PostRecv \/ \E n \in 1 .. ReceiveLength : Receive(n)
  BY <1>2 DEF Take, PostRecv, Receive, Channel!vars
<1>3. CASE Deliver
  BY <1>3, DeliverMaps DEF Channel!Next
<1>4. CASE Refuse
  BY <1>4, RefuseMaps DEF Channel!Next
<1>5. ASSUME NEW id \in Ids, NEW n \in Lengths, Send(id, n)
      PROVE  Channel!Next
  BY <1>5, SendMaps DEF Channel!Next
<1> QED
  BY <1>1, <1>2, <1>3, <1>4, <1>5 DEF Next, Serve, Arrive

\* For the two ends of a connection the bytes, the receives and both buffers are
\* a channel of packets: for any ids, lengths and sizes, every step of the stream
\* is one of the channel or shows to neither end.
THEOREM StreamImplementsChannel == Spec => StreamIsChannel
<1>1. Init => Channel!Init
  BY DEF Init, Channel!Init
<1> QED
  BY <1>1, Invariance, StreamStepMaps, PTL DEF Spec, StreamIsChannel, Channel!Spec

-----------------------------------------------------------------------------
(* The messages of exceptions.                                             *)

\* A set of natural numbers that is not empty has a least one.
LEMMA LeastNumber ==
    ASSUME NEW A \in SUBSET Nat, A # {}
    PROVE  \E n \in A : \A m \in A : n <= m
<1> DEFINE R == OpToRel(<, Nat)
<1>1. IsWellFoundedOn(R, Nat)
  BY NatLessThanWellFounded
<1>2. PICK n \in A : \A m \in A : <<m, n>> \notin R
  BY <1>1, WFMin
<1>3. \A m \in A : ~(m < n)
  BY <1>2 DEF OpToRel
<1>4. \A m \in A : m \in Nat /\ n \in Nat
  OBVIOUS
<1> HIDE DEF R
<1> QED
  BY <1>3, <1>4

\* n pieces of m, none of them a zero byte, are what a C string shows of it:
\* a zero byte or the end comes next.
Shown(m, n) ==
    /\ n \in 0 .. Len(m)
    /\ \A i \in 1 .. n : m[i] # Zero
    /\ n = Len(m) \/ m[n + 1] = Zero

\* Every message has such a beginning.
LEMMA SomeShown ==
    ASSUME NEW S, NEW m \in Seq(S)
    PROVE  \E n : Shown(m, n)
<1>1. Len(m) \in Nat
  BY LenProperties
<1>2. CASE Zeros(m) = {}
  BY <1>1, <1>2 DEF Zeros, Shown
<1>3. CASE Zeros(m) # {}
  <2>1. Zeros(m) \in SUBSET Nat
    BY <1>1 DEF Zeros
  <2>2. PICK z \in Zeros(m) : \A i \in Zeros(m) : z <= i
    BY <1>3, <2>1, LeastNumber
  <2>3. z \in 1 .. Len(m) /\ m[z] = Zero
    BY DEF Zeros
  <2>4. \A i \in 1 .. z - 1 : m[i] # Zero
    BY <1>1, <2>2, <2>3 DEF Zeros
  <2>5. Shown(m, z - 1)
    BY <1>1, <2>3, <2>4 DEF Shown
  <2> QED
    BY <2>5
<1> QED
  BY <1>2, <1>3

\* That beginning is the C string.
LEMMA CStringIs ==
    ASSUME NEW S, NEW m \in Seq(S), NEW n, Shown(m, n)
    PROVE  CString(m) = SubSeq(m, 1, n)
<1>1. Len(m) \in Nat /\ n \in 0 .. Len(m) /\ n \in Nat
  BY LenProperties DEF Shown
<1>2. CASE Zeros(m) = {}
  <2>1. n = Len(m)
    BY <1>1, <1>2 DEF Shown, Zeros
  <2> QED
    BY <1>2, <2>1, SubSeqFull DEF CString
<1>3. CASE Zeros(m) # {}
  <2>1. n < Len(m) /\ m[n + 1] = Zero
    BY <1>1, <1>3 DEF Shown, Zeros
  <2>2. n + 1 \in Zeros(m) /\ (n + 1) - 1 = n
    BY <1>1, <2>1 DEF Zeros
  <2> DEFINE fronts == {SubSeq(m, 1, i - 1) : i \in Zeros(m)}
  <2>3. SubSeq(m, 1, n) \in fronts
    BY <2>2
  <2>4. Zeros(SubSeq(m, 1, n)) = {}
    BY <1>1, FrontIsPrefix DEF Shown, Zeros
  <2>5. ASSUME NEW s \in fronts, Zeros(s) = {}
        PROVE  s = SubSeq(m, 1, n)
    <3>1. PICK i \in Zeros(m) : s = SubSeq(m, 1, i - 1)
      OBVIOUS
    <3>2. i \in 1 .. Len(m) /\ m[i] = Zero
      BY DEF Zeros
    <3>3. i > n
      BY <1>1, <3>2 DEF Shown
    <3>4. i - 1 \in 0 .. Len(m)
      BY <1>1, <3>2
    <3>5. Len(s) = i - 1 /\ \A j \in 1 .. i - 1 : s[j] = m[j]
      BY <3>1, <3>4, FrontIsPrefix
    <3>6. ~(i > n + 1)
      BY <1>1, <2>1, <2>5, <3>2, <3>5 DEF Zeros
    <3>7. i - 1 = n
      BY <1>1, <3>2, <3>3, <3>6
    <3> QED
      BY <3>1, <3>7
  <2>6. CString(m) = CHOOSE s \in fronts : Zeros(s) = {}
    BY <1>3 DEF CString
  <2> HIDE DEF fronts
  <2> QED
    BY <2>3, <2>4, <2>5, <2>6
<1> QED
  BY <1>2, <1>3

\* What a C string shows of a message is a message, all of which it shows.
LEMMA CStringType ==
    ASSUME NEW S, NEW m \in Seq(S)
    PROVE  CString(m) \in Seq(S) /\ CString(CString(m)) = CString(m)
<1>1. PICK n : Shown(m, n)
  BY SomeShown
<1>2. n \in 0 .. Len(m)
  BY <1>1 DEF Shown
<1>3. CString(m) = SubSeq(m, 1, n)
  BY <1>1, CStringIs
<1> DEFINE s == SubSeq(m, 1, n)
<1>4. s \in Seq(S) /\ Len(s) = n /\ \A i \in 1 .. n : s[i] = m[i]
  BY <1>2, FrontIsPrefix
<1>5. s = CString(m)
  BY <1>3
<1> HIDE DEF s
<1>6. Shown(s, n)
  BY <1>1, <1>2, <1>4 DEF Shown
<1>7. CString(s) = SubSeq(s, 1, Len(s))
  BY <1>4, <1>6, CStringIs
<1> QED
  BY <1>4, <1>5, <1>7, SubSeqFull

\* No kind of error is a zero byte: a C string shows all kinds before a text.
LEMMA CStringOfConcat ==
    ASSUME NEW k \in Seq(Classes), NEW t \in Seq(Bytes)
    PROVE  CString(k \o t) = k \o CString(t)
<1> DEFINE T == Bytes \cup Classes
<1>1. /\ k \in Seq(T) /\ t \in Seq(T)
      /\ Len(k) \in Nat /\ Len(t) \in Nat
      /\ \A i \in 1 .. Len(k) : k[i] \in Classes
  <2>1. \A i \in 1 .. Len(k) : k[i] \in Classes
    BY ElementOfSeq
  <2> QED
    BY <2>1, LenProperties
<1> HIDE DEF T
<1>2. /\ k \o t \in Seq(T) /\ Len(k \o t) = Len(k) + Len(t)
      /\ \A i \in 1 .. Len(k) + Len(t) :
           (k \o t)[i] = IF i <= Len(k) THEN k[i] ELSE t[i - Len(k)]
  BY <1>1, ConcatProperties
<1>3. PICK n : Shown(t, n)
  BY SomeShown
<1>4. /\ n \in 0 .. Len(t) /\ n \in Nat
      /\ \A i \in 1 .. n : t[i] # Zero
      /\ n = Len(t) \/ t[n + 1] = Zero
  BY <1>1, <1>3 DEF Shown
<1>5. Shown(k \o t, Len(k) + n)
  <2>1. \A i \in 1 .. Len(k) + n : (k \o t)[i] # Zero
    <3> TAKE i \in 1 .. Len(k) + n
    <3>1. i \in 1 .. Len(k) + Len(t)
      BY <1>1, <1>4
    <3>2. CASE i <= Len(k)
      <4>1. (k \o t)[i] = k[i] /\ k[i] \in Classes
        BY <1>1, <1>2, <3>1, <3>2
      <4> QED
        BY <4>1, ExceptionAssumption DEF ExceptionAssumption
    <3>3. CASE ~(i <= Len(k))
      <4>1. (k \o t)[i] = t[i - Len(k)] /\ i - Len(k) \in 1 .. n
        BY <1>1, <1>2, <1>4, <3>1, <3>3
      <4> QED
        BY <1>4, <4>1
    <3> QED
      BY <3>2, <3>3
  <2>2. Len(k) + n = Len(k \o t) \/ (k \o t)[Len(k) + n + 1] = Zero
    <3>1. CASE n = Len(t)
      BY <1>2, <3>1
    <3>2. CASE n # Len(t)
      <4>1. /\ Len(k) + n + 1 \in 1 .. Len(k) + Len(t)
            /\ ~(Len(k) + n + 1 <= Len(k)) /\ (Len(k) + n + 1) - Len(k) = n + 1
        BY <1>1, <1>4, <3>2
      <4>2. (k \o t)[Len(k) + n + 1] = t[(Len(k) + n + 1) - Len(k)]
        BY <1>2, <4>1
      <4> QED
        BY <1>4, <3>2, <4>1, <4>2
    <3> QED
      BY <3>1, <3>2
  <2>3. Len(k) + n \in 0 .. Len(k \o t)
    BY <1>1, <1>2, <1>4
  <2> QED
    BY <2>1, <2>2, <2>3 DEF Shown
<1>6. CString(k \o t) = SubSeq(k \o t, 1, Len(k) + n)
  BY <1>2, <1>5, CStringIs
<1>7. CString(t) = SubSeq(t, 1, n)
  BY <1>3, CStringIs
<1> DEFINE s == SubSeq(k \o t, 1, Len(k) + n)
           u == SubSeq(t, 1, n)
<1>8. /\ s \in Seq(T) /\ Len(s) = Len(k) + n
      /\ \A i \in 1 .. Len(k) + n : s[i] = (k \o t)[i]
  <2>1. Len(k) + n \in 0 .. Len(k \o t)
    BY <1>5 DEF Shown
  <2> QED
    BY <1>2, <2>1, FrontIsPrefix
<1>9. u \in Seq(T) /\ Len(u) = n /\ \A i \in 1 .. n : u[i] = t[i]
  BY <1>1, <1>4, FrontIsPrefix
<1> HIDE DEF s, u
<1>10. /\ k \o u \in Seq(T) /\ Len(k \o u) = Len(k) + n
       /\ \A i \in 1 .. Len(k) + n :
            (k \o u)[i] = IF i <= Len(k) THEN k[i] ELSE u[i - Len(k)]
  <2>1. /\ k \o u \in Seq(T) /\ Len(k \o u) = Len(k) + Len(u)
        /\ \A i \in 1 .. Len(k) + Len(u) :
             (k \o u)[i] = IF i <= Len(k) THEN k[i] ELSE u[i - Len(k)]
    BY <1>1, <1>9, ConcatProperties
  <2> QED
    BY <1>9, <2>1
<1>11. \A i \in 1 .. Len(k) + n : s[i] = (k \o u)[i]
  <2> TAKE i \in 1 .. Len(k) + n
  <2>1. i \in 1 .. Len(k) + Len(t)
    BY <1>1, <1>4
  <2>2. CASE i <= Len(k)
    BY <1>2, <1>8, <1>10, <2>1, <2>2
  <2>3. CASE ~(i <= Len(k))
    <3>1. i - Len(k) \in 1 .. n
      BY <1>1, <1>4, <2>3
    <3>2. u[i - Len(k)] = t[i - Len(k)]
      BY <1>9, <3>1
    <3> QED
      BY <1>2, <1>8, <1>10, <2>1, <2>3, <3>2
  <2> QED
    BY <2>2, <2>3
<1>12. s = k \o u
  BY <1>8, <1>10, <1>11, SeqEqual
<1> QED
  BY <1>6, <1>7, <1>12 DEF s, u

\* k gives, for every i, the kinds among the last i of the classes s, as
\* KindsIn forms them.
IsKinds(k, s) ==
    k = [i \in 0 .. Len(s) |->
           IF i = 0 THEN <<>>
           ELSE IF s[Len(s) - i + 1] = Base THEN k[i - 1]
                ELSE <<s[Len(s) - i + 1]>> \o k[i - 1]]

\* There is at most one such function ...
LEMMA KindsUnique ==
    ASSUME NEW s \in Seq(Classes), NEW k, IsKinds(k, s), NEW l, IsKinds(l, s)
    PROVE  k = l
<1>1. Len(s) \in Nat
  BY LenProperties
<1>2. DOMAIN k = 0 .. Len(s) /\ DOMAIN l = 0 .. Len(s)
  BY DEF IsKinds
<1>3. k = [i \in 0 .. Len(s) |-> k[i]] /\ l = [i \in 0 .. Len(s) |-> l[i]]
  BY DEF IsKinds
<1>4. ASSUME \E i \in 0 .. Len(s) : k[i] # l[i]
      PROVE  FALSE
  <2> DEFINE A == {i \in 0 .. Len(s) : k[i] # l[i]}
  <2>1. A \in SUBSET Nat /\ A # {}
    BY <1>1, <1>4
  <2>2. PICK i \in A : \A j \in A : i <= j
    <3> HIDE DEF A
    <3> QED
      BY <2>1, LeastNumber
  <2>3. i \in 0 .. Len(s) /\ k[i] # l[i]
    OBVIOUS
  <2>4. i # 0
    BY <1>1, <2>3 DEF IsKinds
  <2>5. i - 1 \in 0 .. Len(s) /\ i - 1 < i
    BY <1>1, <2>3, <2>4
  <2>6. k[i - 1] = l[i - 1]
    BY <1>1, <2>2, <2>5
  <2>7. /\ k[i] = IF s[Len(s) - i + 1] = Base THEN k[i - 1]
                  ELSE <<s[Len(s) - i + 1]>> \o k[i - 1]
        /\ l[i] = IF s[Len(s) - i + 1] = Base THEN l[i - 1]
                  ELSE <<s[Len(s) - i + 1]>> \o l[i - 1]
    BY <2>3, <2>4 DEF IsKinds
  <2> QED
    BY <2>3, <2>6, <2>7
<1> QED
  BY <1>3, <1>4

\* ... and if there is one, it says what KindsIn is.
LEMMA KindsInIs ==
    ASSUME NEW s \in Seq(Classes), NEW k, IsKinds(k, s)
    PROVE  KindsIn(s) = k[Len(s)]
<1> DEFINE F == CHOOSE f : IsKinds(f, s)
<1>1. IsKinds(F, s)
  OBVIOUS
<1>2. KindsIn(s) = F[Len(s)]
  BY DEF KindsIn, IsKinds
<1> HIDE DEF F
<1> QED
  BY <1>1, <1>2, KindsUnique

\* The kinds among no classes are none.
LEMMA KindsOfNone ==
    /\ \E k : IsKinds(k, <<>>)
    /\ KindsIn(<<>>) = <<>>
<1> DEFINE k == [i \in 0 .. 0 |-> <<>>]
<1>1. IsKinds(k, <<>>)
  BY DEF IsKinds
<1>2. <<>> \in Seq(Classes) /\ Len(<<>>) = 0
  OBVIOUS
<1>3. k[Len(<<>>)] = <<>>
  BY <1>2
<1> HIDE DEF k
<1>4. KindsIn(<<>>) = k[Len(<<>>)]
  BY <1>1, <1>2, KindsInIs
<1> QED
  BY <1>1, <1>3, <1>4

\* A class before the others puts its kind before theirs.
LEMMA KindsOfMore ==
    ASSUME NEW s \in Seq(Classes), NEW k, IsKinds(k, s), NEW c \in Classes
    PROVE  /\ <<c>> \o s \in Seq(Classes)
           /\ \E l : IsKinds(l, <<c>> \o s)
           /\ KindsIn(<<c>> \o s) = Message(c, KindsIn(s))
<1> DEFINE t == <<c>> \o s
           n == Len(s)
           l == [i \in 0 .. n + 1 |->
                   IF i <= n THEN k[i] ELSE Message(c, k[n])]
<1>1. <<c>> \in Seq(Classes) /\ Len(<<c>>) = 1 /\ <<c>>[1] = c /\ n \in Nat
  BY LenProperties
<1>2. /\ t \in Seq(Classes) /\ Len(t) = n + 1 /\ t[1] = c
      /\ \A i \in 1 .. n : t[i + 1] = s[i]
  <2>1. /\ t \in Seq(Classes) /\ Len(t) = 1 + n
        /\ \A i \in 1 .. 1 + n :
             t[i] = IF i <= 1 THEN <<c>>[i] ELSE s[i - 1]
    BY <1>1, ConcatProperties
  <2> QED
    BY <1>1, <2>1
<1> HIDE DEF t
<1>3. ASSUME NEW i \in 0 .. n + 1
      PROVE  l[i] = IF i = 0 THEN <<>>
                    ELSE IF t[Len(t) - i + 1] = Base THEN l[i - 1]
                         ELSE <<t[Len(t) - i + 1]>> \o l[i - 1]
  <2>1. CASE i = 0
    BY <1>1, <2>1 DEF IsKinds
  <2>2. CASE i \in 1 .. n
    <3>1. Len(t) - i + 1 = (n - i + 1) + 1 /\ n - i + 1 \in 1 .. n
      BY <1>1, <1>2, <2>2
    <3>2. t[Len(t) - i + 1] = s[Len(s) - i + 1]
      BY <1>2, <3>1
    <3>3. l[i] = k[i] /\ l[i - 1] = k[i - 1]
      BY <1>1, <2>2
    <3>4. k[i] = IF s[Len(s) - i + 1] = Base THEN k[i - 1]
                 ELSE <<s[Len(s) - i + 1]>> \o k[i - 1]
      <4>1. i \in 0 .. Len(s) /\ i # 0
        BY <1>1, <2>2
      <4> HIDE DEF l
      <4> QED
        BY <4>1 DEF IsKinds
    <3> HIDE DEF l
    <3> QED
      BY <1>1, <2>2, <3>2, <3>3, <3>4
  <2>3. CASE i = n + 1
    <3>1. t[Len(t) - i + 1] = c
      BY <1>1, <1>2, <2>3
    <3>2. l[i] = Message(c, k[n]) /\ l[i - 1] = k[n]
      BY <1>1, <2>3
    <3> HIDE DEF l
    <3> QED
      BY <1>1, <2>3, <3>1, <3>2 DEF Message
  <2> QED
    BY <1>1, <2>1, <2>2, <2>3
<1>4. IsKinds(l, t)
  <2>1. l = [i \in 0 .. Len(t) |-> l[i]]
    BY <1>1, <1>2
  <2>2. 0 .. Len(t) = 0 .. n + 1
    BY <1>2
  <2> HIDE DEF l
  <2> QED
    BY <1>3, <2>1, <2>2 DEF IsKinds
<1>5. l[Len(t)] = Message(c, k[n])
  BY <1>1, <1>2
<1> HIDE DEF l
<1>6. KindsIn(t) = l[Len(t)] /\ KindsIn(s) = k[n]
  BY <1>2, <1>4, KindsInIs
<1> QED
  BY <1>2, <1>4, <1>5, <1>6 DEF t

\* The kinds a message begins with, and its text, whole or as a C string.
Tells(m, k, t) == m = k \o t \/ m = k \o CString(t)

\* What every step of a handler preserves: the message is the kinds among the
\* classes and then the text, some wraps having cut it at its zero byte.
ErrorInv ==
    class \in Classes =>
        /\ trail \in Seq(Classes) /\ text \in Seq(Bytes)
        /\ \E k : IsKinds(k, trail)
        /\ KindsIn(trail) \in Seq(Classes)
        /\ Tells(message, KindsIn(trail), text)

\* What what() shows of such a message.
LEMMA ShownInFull ==
    ASSUME NEW k \in Seq(Classes), NEW t \in Seq(Bytes), NEW m, Tells(m, k, t)
    PROVE  CString(m) = k \o CString(t)
<1>1. CString(t) \in Seq(Bytes) /\ CString(CString(t)) = CString(t)
  BY CStringType
<1>2. CASE m = k \o t
  BY <1>2, CStringOfConcat
<1>3. CASE m = k \o CString(t)
  BY <1>1, <1>3, CStringOfConcat
<1> QED
  BY <1>2, <1>3 DEF Tells

\* A constructor puts the kind of its class before the others.
LEMMA MessageTells ==
    ASSUME NEW c \in Classes, NEW k \in Seq(Classes), NEW t \in Seq(Bytes),
           NEW m, Tells(m, k, t)
    PROVE  /\ Message(c, k) \in Seq(Classes)
           /\ Tells(Message(c, m), Message(c, k), t)
<1> DEFINE T == Bytes \cup Classes
<1>1. CString(t) \in Seq(Bytes)
  BY CStringType
<1>2. \A s, u \in Seq(T) : <<c>> \o (s \o u) = (<<c>> \o s) \o u
  <2>1. <<c>> \in Seq(T)
    OBVIOUS
  <2> HIDE DEF T
  <2> QED
    BY <2>1, ConcatAssociative
<1>3. k \in Seq(T) /\ t \in Seq(T) /\ CString(t) \in Seq(T)
  BY <1>1
<1>4. <<c>> \o k \in Seq(Classes)
  OBVIOUS
<1> HIDE DEF T
<1> QED
  BY <1>2, <1>3, <1>4 DEF Tells, Message

\* Before the first error there is none.
LEMMA ErrorInitCorrect == ErrorInit => ErrorInv
BY DEF ErrorInit, ErrorInv, Classes

\* An error thrown anew has the kind of its class and the text.
LEMMA ThrowCorrect ==
    ASSUME NEW c \in Classes, NEW x \in Texts, Throw(c, x)
    PROVE  ErrorInv'
<1>1. x \in Seq(Bytes) /\ <<>> \in Seq(Classes)
  BY ExceptionAssumption DEF ExceptionAssumption
<1>2. PICK k : IsKinds(k, <<>>)
  BY KindsOfNone
<1>3. <<c>> \o <<>> = <<c>> /\ <<>> \o x = x
  BY <1>1
<1>4. /\ <<c>> \in Seq(Classes) /\ \E l : IsKinds(l, <<c>>)
      /\ KindsIn(<<c>>) = Message(c, <<>>)
  BY <1>1, <1>2, <1>3, KindsOfMore, KindsOfNone
<1>5. Tells(x, <<>>, x)
  BY <1>3 DEF Tells
<1>6. /\ Message(c, <<>>) \in Seq(Classes)
      /\ Tells(Message(c, x), Message(c, <<>>), x)
  BY <1>1, <1>5, MessageTells
<1> QED
  BY <1>1, <1>4, <1>6 DEF Throw, ErrorInv

\* An error made of another has its own kind, the other's kinds and its text.
LEMMA WrapCorrect ==
    ASSUME ErrorInv, NEW c \in Classes, Wrap(c)
    PROVE  ErrorInv'
<1>1. /\ trail \in Seq(Classes) /\ text \in Seq(Bytes)
      /\ KindsIn(trail) \in Seq(Classes)
      /\ Tells(message, KindsIn(trail), text)
  BY DEF ErrorInv, Wrap
<1>2. PICK k : IsKinds(k, trail)
  BY DEF ErrorInv, Wrap
<1>3. PICK m \in {what, GetMessage} : message' = Message(c, m)
  BY DEF Wrap
<1>4. Tells(m, KindsIn(trail), text)
  <2>1. CString(message) = KindsIn(trail) \o CString(text)
    BY <1>1, ShownInFull
  <2> QED
    BY <1>1, <2>1 DEF what, GetMessage, Tells
<1>5. /\ trail' \in Seq(Classes) /\ \E l : IsKinds(l, trail')
      /\ KindsIn(trail') = Message(c, KindsIn(trail))
  BY <1>1, <1>2, KindsOfMore DEF Wrap
<1>6. /\ KindsIn(trail') \in Seq(Classes)
      /\ Tells(message', KindsIn(trail'), text)
  BY <1>1, <1>3, <1>4, <1>5, MessageTells
<1>7. ErrorInv'
  BY <1>1, <1>5, <1>6 DEF ErrorInv, Wrap
<1> QED
  BY <1>7

\* Every step keeps the invariant.
LEMMA ErrorStepCorrect == ErrorInv /\ [ErrorNext]_errors => ErrorInv'
<1> SUFFICES ASSUME ErrorInv, [ErrorNext]_errors PROVE ErrorInv'
  OBVIOUS
<1>1. CASE UNCHANGED errors
  BY <1>1 DEF errors, ErrorInv
<1>2. CASE ThrowCopy
  BY <1>2 DEF ThrowCopy, ErrorInv
<1>3. CASE OutOfMemory
  BY <1>3 DEF OutOfMemory, ErrorInv, Classes
<1>4. CASE Handled
  BY <1>4 DEF Handled, ErrorInv, Classes
<1> QED
  BY <1>1, <1>2, <1>3, <1>4, ThrowCorrect, WrapCorrect DEF ErrorNext

\* However often an error is wrapped, copied down to the base class and read as
\* a C string, for any texts of any length: what() tells every kind it was
\* thrown as, latest first, and its text up to the first zero byte.
THEOREM KindsAreTold == ErrorSpec => []ToldInFull
<1>1. ErrorSpec => []ErrorInv
  BY ErrorInitCorrect, ErrorStepCorrect, PTL DEF ErrorSpec
<1>2. ErrorInv => ToldInFull
  BY ShownInFull DEF ErrorInv, ToldInFull, what
<1> QED
  BY <1>1, <1>2, PTL

=============================================================================

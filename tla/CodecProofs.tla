------------------------------ MODULE CodecProofs ------------------------------
(* Proofs about Codec, for every size of the fields, of the buffers and of   *)
(* the alphabet.                                                             *)
EXTENDS Codec, SequenceTheorems, TLAPS

Any == Cells \cup Nat
FrameLen == Header + ChatBody

\* The sizes as numbers.
LEMMA Sizes ==
  /\ NameLen \in Nat /\ NameLen > 0 /\ ContextLen \in Nat /\ ContextLen > 0
  /\ BufferSize \in Nat /\ Header + 2 * NameLen <= BufferSize
  /\ FrameLen \in Nat /\ FrameLen = Header + NameLen + NameLen + ContextLen
  /\ Room \in Nat /\ BufferSize = Header + 2 * NameLen + Room
  /\ Nul \notin Letters /\ Header = 2
BY CodecAssumption DEF FrameLen, ChatBody, Header, Room

\* What is known of a string, and that padding makes a terminated field of it.
LEMMA PadField ==
  ASSUME NEW n \in Nat, n > 0, NEW s \in Strings(n - 1)
  PROVE  /\ s \in Seq(Letters) /\ Len(s) \in Nat /\ Len(s) < n
         /\ Pad(s, n) \in Fields(n) /\ Pad(s, n)[n] = Nul
<1>1. PICK k \in 0 .. n - 1 : s \in [1 .. k -> Letters]
  BY DEF Strings
<1>2. s \in Seq(Letters) /\ Len(s) = k
  BY <1>1
<1>3. \A i \in 1 .. n : (IF i <= Len(s) /\ i < n THEN s[i] ELSE Nul) \in Cells
  BY <1>1, <1>2 DEF Cells
<1>4. QED
  BY <1>1, <1>2, <1>3 DEF Pad, Fields

\* A field that begins with s and a Nul is read as s.
LEMMA CStringIs ==
  ASSUME NEW cells \in Seq(Any), NEW s \in Seq(Letters), Len(s) < Len(cells),
         \A i \in 1 .. Len(s) : cells[i] = s[i],
         cells[Len(s) + 1] = Nul
  PROVE  CString(cells) = s
<1> DEFINE ends == {i \in DOMAIN cells : cells[i] = Nul}
           first == CHOOSE i \in ends : \A j \in ends : i <= j
<1>1. Len(s) \in Nat /\ DOMAIN cells = 1 .. Len(cells) /\ Len(cells) \in Nat
  OBVIOUS
<1>2. Len(s) + 1 \in ends /\ \A j \in ends : j \in Nat /\ Len(s) + 1 <= j
  <2>1. Len(s) + 1 \in ends
    BY <1>1
  <2>2. \A j \in 1 .. Len(s) : s[j] \in Letters
    OBVIOUS
  <2>3. \A j \in 1 .. Len(s) : cells[j] # Nul
    BY <2>2, Sizes
  <2>4. QED
    BY <1>1, <2>1, <2>3
<1>3. first = Len(s) + 1
  BY <1>1, <1>2
<1>4. ends # {}
  BY <1>2
<1>5. CString(cells) = SubSeq(cells, 1, first - 1)
  BY <1>4 DEF CString
<1> HIDE DEF first
<1>6. CString(cells) = SubSeq(cells, 1, Len(s))
  BY <1>1, <1>3, <1>5
<1>7. \A i \in 1 .. Len(s) : cells[i] \in Any
  BY <1>1
<1>8. /\ SubSeq(cells, 1, Len(s)) \in Seq(Any)
      /\ Len(SubSeq(cells, 1, Len(s))) = Len(s)
      /\ \A i \in 1 .. Len(s) : SubSeq(cells, 1, Len(s))[i] = cells[i]
  BY <1>1, <1>7, SubSeqProperties
<1>9. s \in Seq(Any)
  BY DEF Any, Cells
<1>10. QED
  BY <1>6, <1>8, <1>9, SeqEqual

\* A padded name is read as the name.
LEMMA CStringOfPad ==
  ASSUME NEW n \in Nat, n > 0, NEW s \in Strings(n - 1)
  PROVE  CString(Pad(s, n)) = s
<1>1. s \in Seq(Letters) /\ Len(s) \in Nat /\ Len(s) < n /\ Pad(s, n) \in Fields(n)
  BY PadField
<1>2. Pad(s, n) \in Seq(Any) /\ Len(Pad(s, n)) = n
  BY <1>1 DEF Fields, Any
<1>3. (\A i \in 1 .. Len(s) : Pad(s, n)[i] = s[i]) /\ Pad(s, n)[Len(s) + 1] = Nul
  BY <1>1 DEF Pad
<1>4. QED
  BY <1>1, <1>2, <1>3, CStringIs

--------------------------------------------------------------------------------
(* Memory                                                                  *)

\* From the cell behind from on, mem has the cells of field.
Has(mem, from, field) == \A i \in DOMAIN field : mem[from + i] = field[i]

\* What is cut out of a memory that has a field there is the field.
LEMMA CutField ==
  ASSUME NEW mem, NEW from \in Nat, NEW n \in Nat, NEW field \in Fields(n), Has(mem, from, field)
  PROVE  SubSeq(mem, from + 1, from + n) = field
<1> DEFINE cut == SubSeq(mem, from + 1, from + n)
<1>1. DOMAIN field = 1 .. n /\ field \in Seq(Cells) /\ Len(field) = n
  BY DEF Fields
<1>2. \A i \in (from + 1) .. (from + n) : mem[i] \in Cells
  <2> SUFFICES ASSUME NEW i \in (from + 1) .. (from + n) PROVE mem[i] \in Cells
    OBVIOUS
  <2>1. i - from \in 1 .. n /\ from + (i - from) = i
    OBVIOUS
  <2>2. mem[i] = field[i - from]
    BY <1>1, <2>1 DEF Has
  <2>3. QED
    BY <1>1, <2>1, <2>2 DEF Fields
<1>3. /\ cut \in Seq(Cells)
      /\ Len(cut) = IF from + 1 <= from + n THEN (from + n) - (from + 1) + 1 ELSE 0
      /\ \A i \in 1 .. (from + n) - (from + 1) + 1 : cut[i] = mem[(from + 1) + i - 1]
  BY <1>2, SubSeqProperties
<1> HIDE DEF cut
<1>4. Len(cut) = n
  BY <1>3
<1>5. \A i \in 1 .. n : cut[i] = field[i]
  <2> SUFFICES ASSUME NEW i \in 1 .. n PROVE cut[i] = field[i]
    OBVIOUS
  <2>1. i \in 1 .. (from + n) - (from + 1) + 1 /\ (from + 1) + i - 1 = from + i
    OBVIOUS
  <2>2. cut[i] = mem[from + i]
    BY <1>3, <2>1
  <2>3. QED
    BY <1>1, <2>2 DEF Has
<1>6. cut = field
  BY <1>1, <1>3, <1>4, <1>5, SeqEqual
<1>7. QED
  BY <1>6 DEF cut

\* Decoding a chat frame yields its fields, each of them terminated.
LEMMA DeserializeChat ==
  ASSUME NEW mem, mem[1] = Chat,
         NEW o \in Fields(NameLen), NEW t \in Fields(NameLen), NEW c \in Fields(ContextLen),
         Has(mem, Header, o), Has(mem, Header + NameLen, t), Has(mem, Header + 2 * NameLen, c)
  PROVE  Deserialize(mem) = [origin |-> Terminated(o), target |-> Terminated(t), context |-> Terminated(c)]
<1>1. /\ Header \in Nat /\ Header + NameLen \in Nat /\ Header + 2 * NameLen \in Nat
      /\ NameLen \in Nat /\ ContextLen \in Nat /\ mem[1] # Login
  BY Sizes DEF Login, Chat
<1>2. /\ SubSeq(mem, Header + 1, Header + NameLen) = o
      /\ SubSeq(mem, Header + NameLen + 1, Header + NameLen + NameLen) = t
      /\ SubSeq(mem, Header + 2 * NameLen + 1, Header + 2 * NameLen + ContextLen) = c
  BY <1>1, CutField
<1>3. QED
  BY <1>1, <1>2 DEF Deserialize

\* Decoding a login yields the name, which is not terminated.
LEMMA DeserializeLogin ==
  ASSUME NEW mem, mem[1] = Login, mem[2] = NameLen, NEW o \in Fields(NameLen), Has(mem, Header, o)
  PROVE  Deserialize(mem).origin = o
<1>1. SubSeq(mem, Header + 1, Header + NameLen) = o
  BY Sizes, CutField
<1>2. QED
  BY <1>1 DEF Deserialize, Empty

\* Terminating a field that ends with a Nul changes nothing.
LEMMA TerminatedSame ==
  ASSUME NEW n \in Nat, n > 0, NEW f \in Fields(n), f[n] = Nul
  PROVE  Terminated(f) = f
<1>1. Len(f) = n /\ DOMAIN f = 1 .. n
  BY DEF Fields
<1>2. QED
  BY <1>1 DEF Terminated, Fields

\* A sequence put behind another keeps what is there and is there itself.
LEMMA HasConcat ==
  ASSUME NEW s \in Seq(Any), NEW t \in Seq(Any), NEW n \in Nat, Len(s) = n, n > 0
  PROVE  /\ s \o t \in Seq(Any) /\ Len(s \o t) = n + Len(t) /\ (s \o t)[1] = s[1]
         /\ Has(s \o t, n, t)
         /\ \A from \in Nat, k \in Nat : \A g \in Fields(k) :
              from + k <= n /\ Has(s, from, g) => Has(s \o t, from, g)
<1> DEFINE f == s \o t
<1>1. /\ f \in Seq(Any) /\ Len(f) = n + Len(t) /\ Len(t) \in Nat
      /\ \A i \in 1 .. n + Len(t) : f[i] = IF i <= n THEN s[i] ELSE t[i - n]
  <2>1. /\ f \in Seq(Any) /\ Len(f) = Len(s) + Len(t)
        /\ \A i \in 1 .. Len(s) + Len(t) : f[i] = IF i <= Len(s) THEN s[i] ELSE t[i - Len(s)]
    BY ConcatProperties
  <2>2. QED
    BY <2>1
<1> HIDE DEF f
<1>2. \A i \in 1 .. n : f[i] = s[i]
  BY <1>1
<1>3. \A i \in 1 .. Len(t) : f[n + i] = t[i]
  <2> SUFFICES ASSUME NEW i \in 1 .. Len(t) PROVE f[n + i] = t[i]
    OBVIOUS
  <2>1. n + i \in 1 .. n + Len(t) /\ ~(n + i <= n) /\ (n + i) - n = i
    BY <1>1
  <2>2. QED
    BY <1>1, <2>1
<1>4. Has(f, n, t)
  BY <1>3 DEF Has
<1>5. ASSUME NEW from \in Nat, NEW k \in Nat, NEW g \in Fields(k), from + k <= n, Has(s, from, g)
      PROVE  Has(f, from, g)
  <2>1. \A i \in 1 .. k : from + i \in 1 .. n
    BY <1>5
  <2>2. DOMAIN g = 1 .. k
    BY DEF Fields
  <2>3. QED
    BY <1>2, <1>5, <2>1, <2>2 DEF Has
<1>6. f[1] = s[1]
  BY <1>2
<1>7. QED
  BY <1>1, <1>4, <1>5, <1>6 DEF f

\* Encoding puts the fields where decoding looks for them.
LEMMA SerializeChat ==
  ASSUME NEW m \in Messages
  PROVE  LET f == Serialize(Chat, m)
         IN /\ f \in Seq(Any) /\ Len(f) = FrameLen /\ f[1] = Chat
            /\ Has(f, Header, m.origin) /\ Has(f, Header + NameLen, m.target)
            /\ Has(f, Header + 2 * NameLen, m.context)
<1> DEFINE h == <<Chat, ChatBody>>
           a == h \o m.origin
           b == a \o m.target
           f == b \o m.context
<1>1. /\ m.origin \in Seq(Any) /\ Len(m.origin) = NameLen /\ m.origin \in Fields(NameLen)
      /\ m.target \in Seq(Any) /\ Len(m.target) = NameLen /\ m.target \in Fields(NameLen)
      /\ m.context \in Seq(Any) /\ Len(m.context) = ContextLen /\ m.context \in Fields(ContextLen)
  BY Sizes DEF Messages, Fields, Any
<1>2. h \in Seq(Any) /\ Len(h) = 2 /\ h[1] = Chat
  BY Sizes DEF Any, Chat, ChatBody
<1> HIDE DEF h
<1>3. /\ a \in Seq(Any) /\ Len(a) = 2 + NameLen /\ a[1] = Chat
      /\ Has(a, 2, m.origin)
  <2>1. 2 \in Nat /\ 2 > 0
    OBVIOUS
  <2>2. /\ a \in Seq(Any) /\ Len(a) = 2 + Len(m.origin) /\ a[1] = h[1]
        /\ Has(a, 2, m.origin)
    BY <1>1, <1>2, <2>1, HasConcat
  <2>3. QED
    BY <1>1, <1>2, <2>2
<1> HIDE DEF a
<1>4. /\ b \in Seq(Any) /\ Len(b) = 2 + NameLen + NameLen /\ b[1] = Chat
      /\ Has(b, 2, m.origin) /\ Has(b, 2 + NameLen, m.target)
  <2>1. 2 + NameLen \in Nat /\ 2 + NameLen > 0 /\ 2 \in Nat /\ 2 + NameLen <= 2 + NameLen
    BY Sizes
  <2>2. /\ b \in Seq(Any) /\ Len(b) = 2 + NameLen + Len(m.target) /\ b[1] = a[1]
        /\ Has(b, 2 + NameLen, m.target)
        /\ \A from \in Nat, k \in Nat : \A g \in Fields(k) :
             from + k <= 2 + NameLen /\ Has(a, from, g) => Has(b, from, g)
    BY <1>1, <1>3, <2>1, HasConcat
  <2>3. Has(b, 2, m.origin)
    BY <1>1, <1>3, <2>1, <2>2, Sizes
  <2>4. QED
    BY <1>1, <1>3, <2>2, <2>3
<1> HIDE DEF b
<1>5. /\ f \in Seq(Any) /\ Len(f) = 2 + NameLen + NameLen + ContextLen /\ f[1] = Chat
      /\ Has(f, 2, m.origin) /\ Has(f, 2 + NameLen, m.target)
      /\ Has(f, 2 + NameLen + NameLen, m.context)
  <2>1. /\ 2 + NameLen + NameLen \in Nat /\ 2 + NameLen + NameLen > 0 /\ 2 \in Nat /\ 2 + NameLen \in Nat
        /\ 2 + NameLen <= 2 + NameLen + NameLen
        /\ 2 + NameLen + NameLen <= 2 + NameLen + NameLen
    BY Sizes
  <2>2. QED
    BY <1>1, <1>4, <2>1, Sizes, HasConcat
<1>6. Serialize(Chat, m) = f
  BY DEF Serialize, Chat, Login, h, a, b
<1> HIDE DEF f
<1>7. Header = 2 /\ Header + NameLen = 2 + NameLen /\ Header + 2 * NameLen = 2 + NameLen + NameLen
      /\ FrameLen = 2 + NameLen + NameLen + ContextLen
  BY Sizes
<1>8. QED
  BY <1>5, <1>6, <1>7

\* What a buffer has room for is in it.
LEMMA BufferHas ==
  ASSUME NEW cells \in Seq(Any), NEW n \in Nat, NEW fill \in Any
  PROVE  /\ Buffer(cells, n, fill) \in [1 .. n -> Any]
         /\ \A i \in 1 .. n : i <= Len(cells) => Buffer(cells, n, fill)[i] = cells[i]
         /\ \A from \in Nat, k \in Nat : \A g \in Fields(k) :
              from + k <= n /\ from + k <= Len(cells) /\ Has(cells, from, g)
                => Has(Buffer(cells, n, fill), from, g)
<1> DEFINE b == Buffer(cells, n, fill)
<1>1. /\ b \in [1 .. n -> Any]
      /\ \A i \in 1 .. n : i <= Len(cells) => b[i] = cells[i]
  BY DEF Buffer
<1> HIDE DEF b
<1>2. ASSUME NEW from \in Nat, NEW k \in Nat, NEW g \in Fields(k),
             from + k <= n, from + k <= Len(cells), Has(cells, from, g)
      PROVE  Has(b, from, g)
  <2>1. \A i \in 1 .. k : from + i \in 1 .. n /\ from + i <= Len(cells)
    BY <1>2
  <2>2. DOMAIN g = 1 .. k
    BY DEF Fields
  <2>3. QED
    BY <1>1, <1>2, <2>1, <2>2 DEF Has
<1>3. QED
  BY <1>1, <1>2 DEF b

--------------------------------------------------------------------------------
(* The invariant: what each stage has of what was typed                    *)

\* How much of the text fits.
Kept == Smaller(Room, ContextLen)

TypedOK ==
  /\ kind \in {Login, Chat}
  /\ user \in Strings(NameLen - 1) /\ friend \in Strings(NameLen - 1)
  /\ text \in Strings(ContextLen - 1)

\* The buffer that was sent has the names, and the text as far as it fits.
WireOK ==
  /\ wire \in [1 .. BufferSize -> Any]
  /\ wire[1] = kind
  /\ kind = Login => wire[2] = NameLen
  /\ Has(wire, Header, Pad(user, NameLen))
  /\ kind = Chat =>
       /\ Has(wire, Header + NameLen, Pad(friend, NameLen))
       /\ \A i \in 1 .. Kept : wire[Header + 2 * NameLen + i] = Pad(text, ContextLen)[i]

\* So has a message that was decoded.
MsgOK(m) ==
  /\ m \in Messages
  /\ m.origin = Pad(user, NameLen) /\ m.target = Pad(friend, NameLen)
  /\ \A i \in 1 .. Kept : m.context[i] = Pad(text, ContextLen)[i]

\* A text that was cut off ends where it was cut.
Ended(m) == Room < ContextLen => m.context[Room + 1] = Nul

CodecInv ==
  /\ TypedOK
  /\ stage \in {"typed", "sent", "known", "decoded", "forwarded", "shown"}
  /\ stage = "typed" => wire = <<>>
  /\ stage # "typed" => WireOK
  /\ stage = "known" => kind = Login /\ msg.origin = Pad(user, NameLen)
  /\ stage \in {"decoded", "forwarded", "shown"} => kind = Chat /\ MsgOK(msg)
  /\ stage = "shown" => MsgOK(shown) /\ Ended(shown)

\* The padded fields that are sent.
LEMMA TypedFields ==
  ASSUME TypedOK
  PROVE  /\ Pad(user, NameLen) \in Fields(NameLen) /\ Pad(user, NameLen)[NameLen] = Nul
         /\ Pad(friend, NameLen) \in Fields(NameLen) /\ Pad(friend, NameLen)[NameLen] = Nul
         /\ Pad(text, ContextLen) \in Fields(ContextLen) /\ Pad(text, ContextLen)[ContextLen] = Nul
BY Sizes, PadField DEF TypedOK

\* Bounds of what is kept of the text.
LEMMA KeptBounds ==
  /\ Kept \in Nat /\ Kept <= Room /\ Kept <= ContextLen
  /\ Kept = Room \/ Kept = ContextLen
BY Sizes DEF Kept, Smaller

\* A chat frame, as much of it as the buffer takes, has all that WireOK asks.
LEMMA FrameSent ==
  ASSUME TypedOK, kind = Chat, NEW m, MsgOK(m), NEW fill \in Any,
         wire' = Buffer(Serialize(Chat, m), BufferSize, fill), UNCHANGED typed
  PROVE  WireOK'
<1> DEFINE f == Serialize(Chat, m)
<1>1. /\ f \in Seq(Any) /\ Len(f) = FrameLen /\ f[1] = Chat
      /\ Has(f, Header, m.origin) /\ Has(f, Header + NameLen, m.target)
      /\ Has(f, Header + 2 * NameLen, m.context)
  BY SerializeChat DEF MsgOK
<1> HIDE DEF f
<1>2. /\ wire' \in [1 .. BufferSize -> Any]
      /\ \A i \in 1 .. BufferSize : i <= Len(f) => wire'[i] = f[i]
      /\ \A from \in Nat, k \in Nat : \A g \in Fields(k) :
           from + k <= BufferSize /\ from + k <= Len(f) /\ Has(f, from, g) => Has(wire', from, g)
  <2>1. f \in Seq(Any) /\ BufferSize \in Nat
    BY <1>1, Sizes
  <2>2. wire' = Buffer(f, BufferSize, fill)
    BY DEF f
  <2> DEFINE b == Buffer(f, BufferSize, fill)
  <2>3. /\ b \in [1 .. BufferSize -> Any]
        /\ \A i \in 1 .. BufferSize : i <= Len(f) => b[i] = f[i]
    BY <2>1, BufferHas
  <2>4. \A from \in Nat, k \in Nat : \A g \in Fields(k) :
          from + k <= BufferSize /\ from + k <= Len(f) /\ Has(f, from, g) => Has(b, from, g)
    BY <2>1, BufferHas
  <2> HIDE DEF b
  <2>5. QED
    BY <2>2, <2>3, <2>4 DEF b
<1>3. wire'[1] = Chat
  BY <1>1, <1>2, Sizes
<1>4. Has(wire', Header, m.origin) /\ Has(wire', Header + NameLen, m.target)
  <2>1. m.origin \in Fields(NameLen) /\ m.target \in Fields(NameLen)
    BY DEF MsgOK, Messages
  <2>2. /\ Header \in Nat /\ Header + NameLen \in Nat /\ NameLen \in Nat
        /\ Header + NameLen <= BufferSize /\ Header + NameLen <= Len(f)
        /\ Header + NameLen + NameLen <= BufferSize /\ Header + NameLen + NameLen <= Len(f)
    BY <1>1, Sizes
  <2>3. QED
    BY <1>1, <1>2, <2>1, <2>2
<1>5. ASSUME NEW i \in 1 .. Kept
      PROVE  wire'[Header + 2 * NameLen + i] = Pad(text, ContextLen)[i]
  <2>1. /\ Header + 2 * NameLen + i \in 1 .. BufferSize
        /\ Header + 2 * NameLen + i <= Len(f)
        /\ i \in 1 .. ContextLen
    BY <1>1, <1>5, Sizes, KeptBounds
  <2>2. DOMAIN m.context = 1 .. ContextLen
    BY DEF MsgOK, Messages, Fields
  <2>3. wire'[Header + 2 * NameLen + i] = m.context[i]
    BY <1>1, <1>2, <2>1, <2>2 DEF Has
  <2>4. QED
    BY <1>5, <2>3 DEF MsgOK
<1>6. kind' = kind /\ user' = user /\ friend' = friend /\ text' = text /\ Chat # Login
  BY DEF typed, Chat, Login
<1>7. QED
  BY <1>2, <1>3, <1>4, <1>5, <1>6 DEF WireOK, MsgOK

\* Whatever lies behind the buffer, decoding it yields the names and the text
\* as far as it fits; a Nul behind the buffer ends a text that does not.
LEMMA FrameDecoded ==
  ASSUME TypedOK, WireOK, kind = Chat, NEW tail \in Seq(Cells), FrameLen <= BufferSize + Len(tail)
  PROVE  /\ MsgOK(Deserialize(wire \o tail))
         /\ (Room < ContextLen => tail[1] = Nul) => Ended(Deserialize(wire \o tail))
<1> DEFINE mem == wire \o tail
           c == [i \in 1 .. ContextLen |-> mem[Header + 2 * NameLen + i]]
           o == Pad(user, NameLen)
           t == Pad(friend, NameLen)
<1>1. /\ wire \in Seq(Any) /\ Len(wire) = BufferSize /\ BufferSize \in Nat /\ BufferSize > 0
      /\ tail \in Seq(Any) /\ Len(tail) \in Nat
  BY Sizes DEF WireOK, Any
<1>2. /\ mem[1] = Chat /\ Has(mem, BufferSize, tail)
      /\ \A from \in Nat, k \in Nat : \A g \in Fields(k) :
           from + k <= BufferSize /\ Has(wire, from, g) => Has(mem, from, g)
  BY <1>1, HasConcat DEF WireOK
<1>3. \A i \in 1 .. BufferSize : mem[i] = wire[i]
  <2>1. /\ Len(wire \o tail) = Len(wire) + Len(tail)
        /\ \A i \in 1 .. Len(wire) + Len(tail) :
             (wire \o tail)[i] = IF i <= Len(wire) THEN wire[i] ELSE tail[i - Len(wire)]
    BY <1>1, ConcatProperties
  <2>2. QED
    BY <1>1, <2>1
<1> HIDE DEF mem
<1>4. o \in Fields(NameLen) /\ t \in Fields(NameLen) /\ o[NameLen] = Nul /\ t[NameLen] = Nul
  BY TypedFields
<1>5. Has(mem, Header, o) /\ Has(mem, Header + NameLen, t)
  <2>1. /\ Header \in Nat /\ Header + NameLen \in Nat /\ NameLen \in Nat
        /\ Header + NameLen <= BufferSize /\ Header + NameLen + NameLen <= BufferSize
    BY Sizes
  <2>2. QED
    BY <1>2, <1>4, <2>1 DEF WireOK
<1>6. \A i \in 1 .. Kept : mem[Header + 2 * NameLen + i] = Pad(text, ContextLen)[i]
  <2> SUFFICES ASSUME NEW i \in 1 .. Kept
               PROVE  mem[Header + 2 * NameLen + i] = Pad(text, ContextLen)[i]
    OBVIOUS
  <2>1. Header + 2 * NameLen + i \in 1 .. BufferSize
    BY Sizes, KeptBounds
  <2>2. QED
    BY <1>3, <2>1 DEF WireOK
<1>7. ASSUME NEW i \in 1 .. ContextLen, ~(i <= Kept)
      PROVE  /\ i - Room \in 1 .. Len(tail) /\ mem[Header + 2 * NameLen + i] = tail[i - Room]
             /\ Kept = Room
  <2>1. Kept = Room /\ i > Room /\ i \in Nat
    BY <1>7, Sizes, KeptBounds
  <2>2. i - Room \in 1 .. Len(tail)
    BY <1>1, <2>1, Sizes
  <2>3. Header + 2 * NameLen + i = BufferSize + (i - Room) /\ DOMAIN tail = 1 .. Len(tail)
    BY <2>1, Sizes
  <2>4. QED
    BY <1>2, <2>1, <2>2, <2>3 DEF Has
<1>8. c \in Fields(ContextLen) /\ \A i \in 1 .. Kept : c[i] = Pad(text, ContextLen)[i]
  <2>1. ASSUME NEW i \in 1 .. ContextLen PROVE mem[Header + 2 * NameLen + i] \in Cells
    <3>1. CASE i <= Kept
      <4>1. i \in 1 .. Kept
        BY <3>1, KeptBounds
      <4>2. QED
        BY <1>6, <4>1, TypedFields DEF Fields
    <3>2. CASE ~(i <= Kept)
      BY <1>7, <3>2
    <3>3. QED
      BY <3>1, <3>2
  <2>2. \A i \in 1 .. Kept : i \in 1 .. ContextLen
    BY Sizes, KeptBounds
  <2>3. QED
    BY <1>6, <2>1, <2>2 DEF Fields
<1>9. Has(mem, Header + 2 * NameLen, c)
  BY DEF Has
<1> HIDE DEF c
<1>10. Terminated(o) = o /\ Terminated(t) = t
  BY <1>4, Sizes, TerminatedSame
<1>11. Deserialize(mem) = [origin |-> o, target |-> t, context |-> Terminated(c)]
  BY <1>2, <1>4, <1>5, <1>8, <1>9, <1>10, DeserializeChat
<1>12. /\ Terminated(c) \in Fields(ContextLen)
       /\ \A i \in 1 .. ContextLen : Terminated(c)[i] = IF i = ContextLen THEN Nul ELSE c[i]
  <2>1. Len(c) = ContextLen /\ DOMAIN c = 1 .. ContextLen
    BY Sizes, <1>8 DEF Fields
  <2>2. QED
    BY <1>8, <2>1, Sizes DEF Terminated, Fields, Cells
<1>13. MsgOK(Deserialize(mem))
  <2>1. \A i \in 1 .. Kept : Terminated(c)[i] = Pad(text, ContextLen)[i]
    <3> SUFFICES ASSUME NEW i \in 1 .. Kept PROVE Terminated(c)[i] = Pad(text, ContextLen)[i]
      OBVIOUS
    <3>1. i \in 1 .. ContextLen
      BY KeptBounds, Sizes
    <3>2. QED
      BY <1>8, <1>12, <3>1, TypedFields
  <2>2. QED
    BY <1>4, <1>11, <1>12, <2>1 DEF MsgOK, Messages
<1>14. ASSUME Room < ContextLen => tail[1] = Nul PROVE Ended(Deserialize(mem))
  <2> SUFFICES ASSUME Room < ContextLen PROVE Terminated(c)[Room + 1] = Nul
    BY <1>11 DEF Ended
  <2>1. Room + 1 \in 1 .. ContextLen /\ ~(Room + 1 <= Kept) /\ (Room + 1) - Room = 1
    BY Sizes, KeptBounds
  <2>2. mem[Header + 2 * NameLen + (Room + 1)] = tail[1]
    BY <1>7, <2>1
  <2>3. c[Room + 1] = Nul
    BY <1>14, <2>1, <2>2 DEF c
  <2>4. QED
    BY <1>12, <2>1, <2>3
<1>15. QED
  BY <1>13, <1>14 DEF mem

\* A login that was sent has the name behind the header.
LEMMA LoginSent ==
  ASSUME TypedOK, kind = Login, UNCHANGED typed, NEW m, m.origin = Pad(user, NameLen),
         wire' = Buffer(Serialize(Login, m), BufferSize, Nul)
  PROVE  WireOK'
<1> DEFINE h == <<Login, NameLen>>
           f == h \o m.origin
           b == Buffer(f, BufferSize, Nul)
<1>1. h \in Seq(Any) /\ Len(h) = 2 /\ h[1] = Login /\ h[2] = NameLen /\ 2 \in Nat /\ 2 > 0
  BY Sizes DEF Any, Login
<1>2. m.origin \in Fields(NameLen) /\ m.origin \in Seq(Any) /\ Len(m.origin) = NameLen
  BY TypedFields, Sizes DEF Fields, Any
<1>3. Nul \in Any /\ BufferSize \in Nat /\ Header = 2 /\ 2 + NameLen <= BufferSize /\ NameLen \in Nat /\ NameLen > 0
  BY Sizes DEF Any, Cells
<1>4. wire' = b
  BY DEF Serialize, Login
<1> HIDE DEF h
<1>5. /\ f \in Seq(Any) /\ Len(f) = 2 + Len(m.origin) /\ f[1] = h[1] /\ Has(f, 2, m.origin)
  BY <1>1, <1>2, HasConcat
<1>6. f[2] = h[2]
  <2>1. \A i \in 1 .. Len(h) + Len(m.origin) : f[i] = IF i <= Len(h) THEN h[i] ELSE m.origin[i - Len(h)]
    BY <1>1, <1>2, ConcatProperties
  <2>2. QED
    BY <1>1, <1>2, <1>3, <2>1
<1> HIDE DEF f
<1>7. /\ b \in [1 .. BufferSize -> Any]
      /\ \A i \in 1 .. BufferSize : i <= Len(f) => b[i] = f[i]
  BY <1>3, <1>5, BufferHas
<1>8. \A from \in Nat, k \in Nat : \A g \in Fields(k) :
        from + k <= BufferSize /\ from + k <= Len(f) /\ Has(f, from, g) => Has(b, from, g)
  BY <1>3, <1>5, BufferHas
<1> HIDE DEF b
<1>9. b[1] = Login /\ b[2] = NameLen
  BY <1>1, <1>2, <1>3, <1>5, <1>6, <1>7
<1>10. Has(b, Header, Pad(user, NameLen))
  BY <1>1, <1>2, <1>3, <1>5, <1>8
<1>11. kind' = Login /\ user' = user /\ Login # Chat
  BY DEF typed, Login, Chat
<1>12. QED
  BY <1>4, <1>7, <1>9, <1>10, <1>11 DEF WireOK

\* What may lie behind n cells makes them long enough for a chat frame.
LEMMA BehindIs ==
  ASSUME NEW n \in Nat, NEW junk \in Behind(n)
  PROVE  junk \in Seq(Cells) /\ Len(junk) \in Nat /\ FrameLen <= n + Len(junk)
<1> DEFINE k == IF Header + ChatBody > n THEN Header + ChatBody - n ELSE 0
<1>1. junk \in Fields(k)
  BY DEF Behind
<1>2. Header \in Nat /\ ChatBody \in Nat /\ FrameLen = Header + ChatBody
  BY Sizes DEF FrameLen, ChatBody
<1>3. k \in Nat /\ FrameLen <= n + k
  BY <1>2
<1> HIDE DEF k
<1>4. junk \in Seq(Cells) /\ Len(junk) = k
  BY <1>1, <1>3 DEF Fields
<1>5. QED
  BY <1>3, <1>4

\* The invariant holds at the prompt.
LEMMA CodecInit == Init => CodecInv
<1> SUFFICES ASSUME Init PROVE CodecInv
  OBVIOUS
<1>1. TypedOK
  BY DEF Init, TypedOK
<1>2. QED
  BY <1>1 DEF Init, CodecInv

\* What was typed and sent stays what it was.
LEMMA StageFacts ==
  ASSUME CodecInv, UNCHANGED typed
  PROVE  /\ TypedOK' /\ kind' = kind
         /\ UNCHANGED wire /\ WireOK => WireOK'
         /\ \A m : MsgOK(m)' <=> MsgOK(m)
         /\ kind = Login \/ kind = Chat
         /\ Login # Chat
BY DEF CodecInv, TypedOK, typed, WireOK, MsgOK, Login, Chat

\* Every step keeps the invariant.
LEMMA CodecStep ==
  ASSUME CodecInv, [Next]_vars
  PROVE  CodecInv'
<1> USE DEF Login, Chat
<1>1. CASE ClientSend
  <2> DEFINE m == [origin |-> Pad(user, NameLen), target |-> Pad(friend, NameLen),
                   context |-> Pad(text, ContextLen)]
  <2>1. /\ stage = "typed" /\ stage' = "sent" /\ UNCHANGED typed
        /\ wire' = Buffer(Serialize(kind, m), BufferSize, Nul)
    BY <1>1 DEF ClientSend
  <2>2. TypedOK /\ TypedOK' /\ MsgOK(m) /\ Nul \in Any
    BY <2>1, StageFacts, TypedFields DEF CodecInv, MsgOK, Messages, Any, Cells
  <2>3. m.origin = Pad(user, NameLen)
    OBVIOUS
  <2> HIDE DEF m
  <2>4. WireOK'
    <3>1. CASE kind = Login
      BY <2>1, <2>2, <2>3, <3>1, LoginSent
    <3>2. CASE kind = Chat
      BY <2>1, <2>2, <3>2, FrameSent
    <3>3. QED
      BY <2>1, <3>1, <3>2, StageFacts
  <2>5. QED
    BY <2>1, <2>2, <2>4 DEF CodecInv
<1>2. CASE ServerReceive
  <2>1. PICK junk \in Behind(BufferSize) : msg' = Deserialize(wire \o junk)
    BY <1>2 DEF ServerReceive
  <2>2. /\ stage = "sent" /\ UNCHANGED <<typed, wire>> /\ wire[1] = kind
        /\ stage' = IF kind = Login THEN "known" ELSE "decoded"
    BY <1>2 DEF ServerReceive, CodecInv, WireOK
  <2>3. TypedOK /\ WireOK /\ TypedOK' /\ WireOK'
    BY <2>2, StageFacts DEF CodecInv
  <2>4. junk \in Seq(Cells) /\ FrameLen <= BufferSize + Len(junk)
    BY Sizes, BehindIs
  <2>5. CASE kind = Login
    <3> DEFINE mem == wire \o junk
    <3>1. /\ wire \in Seq(Any) /\ Len(wire) = BufferSize /\ BufferSize \in Nat /\ BufferSize >= 2
          /\ junk \in Seq(Any) /\ Len(junk) \in Nat
      BY <2>3, <2>4, Sizes DEF WireOK, Any
    <3>2. \A i \in 1 .. Len(wire) + Len(junk) : mem[i] = IF i <= Len(wire) THEN wire[i] ELSE junk[i - Len(wire)]
      BY <3>1, ConcatProperties
    <3>3. mem[1] = Login /\ mem[2] = NameLen
      BY <2>3, <2>5, <3>1, <3>2 DEF WireOK
    <3>4. /\ \A from \in Nat, k \in Nat : \A g \in Fields(k) :
               from + k <= BufferSize /\ Has(wire, from, g) => Has(mem, from, g)
      BY <3>1, HasConcat
    <3> HIDE DEF mem
    <3>5. /\ Pad(user, NameLen) \in Fields(NameLen) /\ Has(wire, Header, Pad(user, NameLen))
          /\ Header \in Nat /\ NameLen \in Nat /\ Header + NameLen <= BufferSize
      BY <2>3, TypedFields, Sizes DEF WireOK
    <3>6. Has(mem, Header, Pad(user, NameLen))
      BY <3>4, <3>5
    <3>7. Deserialize(mem).origin = Pad(user, NameLen)
      BY <3>3, <3>5, <3>6, DeserializeLogin
    <3>8. msg'.origin = Pad(user, NameLen)
      BY <2>1, <3>7 DEF mem
    <3>9. kind' = Login /\ user' = user
      BY <2>2, <2>5 DEF typed
    <3>10. QED
      BY <2>2, <2>3, <2>5, <3>8, <3>9 DEF CodecInv
  <2>6. CASE kind = Chat
    <3>1. MsgOK(msg')
      BY <2>1, <2>3, <2>4, <2>6, FrameDecoded
    <3>2. MsgOK(msg)'
      BY <2>2, <3>1 DEF MsgOK, typed
    <3>3. kind' = Chat
      BY <2>2, <2>6 DEF typed
    <3>4. QED
      BY <2>2, <2>3, <2>6, <3>2, <3>3 DEF CodecInv
  <2>7. QED
    BY <2>2, <2>5, <2>6, StageFacts
<1>3. CASE Forward
  <2>1. stage = "decoded" /\ stage' = "forwarded" /\ UNCHANGED <<typed, wire, msg, shown>>
    BY <1>3 DEF Forward
  <2>2. TypedOK' /\ WireOK' /\ kind' = Chat
    BY <2>1, StageFacts DEF CodecInv
  <2>3. MsgOK(msg)'
    BY <2>1 DEF CodecInv, MsgOK, typed
  <2>4. QED
    BY <2>1, <2>2, <2>3 DEF CodecInv
<1>4. CASE SendOffline
  <2>1. PICK fill \in Cells : wire' = Buffer(Serialize(Chat, msg), BufferSize, fill)
    BY <1>4 DEF SendOffline
  <2>2. stage = "decoded" /\ stage' = "forwarded" /\ UNCHANGED <<typed, msg, shown>>
    BY <1>4 DEF SendOffline
  <2>3. TypedOK' /\ kind' = Chat /\ kind = Chat /\ TypedOK /\ MsgOK(msg) /\ fill \in Any
    BY <2>2, StageFacts DEF CodecInv, Any
  <2>4. WireOK'
    BY <2>1, <2>2, <2>3, FrameSent
  <2>5. MsgOK(msg)'
    BY <2>2, <2>3 DEF MsgOK, typed
  <2>6. QED
    BY <2>2, <2>3, <2>4, <2>5 DEF CodecInv
<1>5. CASE ClientShow
  <2>1. PICK junk \in Behind(BufferSize + 1) : shown' = Deserialize(wire \o <<Nul>> \o junk)
    BY <1>5 DEF ClientShow
  <2>2. stage = "forwarded" /\ stage' = "shown" /\ UNCHANGED <<typed, wire, msg>>
    BY <1>5 DEF ClientShow
  <2>3. TypedOK' /\ WireOK' /\ kind' = Chat /\ TypedOK /\ WireOK /\ kind = Chat /\ MsgOK(msg)
    BY <2>2, StageFacts DEF CodecInv
  <2> DEFINE tail == <<Nul>> \o junk
  <2>4. junk \in Seq(Cells) /\ Len(junk) \in Nat /\ FrameLen <= BufferSize + 1 + Len(junk)
    BY Sizes, BehindIs
  <2>5. <<Nul>> \in Seq(Cells) /\ Len(<<Nul>>) = 1
    BY DEF Cells
  <2>6. tail \in Seq(Cells) /\ Len(tail) = 1 + Len(junk) /\ tail[1] = Nul
    BY <2>4, <2>5, ConcatProperties
  <2>7. wire \in Seq(Any) /\ junk \in Seq(Any) /\ <<Nul>> \in Seq(Any)
    BY <2>3, <2>4, Sizes DEF WireOK, Any, Cells
  <2> DEFINE one == <<Nul>>
  <2>8. shown' = Deserialize(wire \o tail)
    <3>1. one \in Seq(Any) /\ shown' = Deserialize((wire \o one) \o junk) /\ tail = one \o junk
      BY <2>1, <2>7
    <3> HIDE DEF one, tail
    <3>2. (wire \o one) \o junk = wire \o (one \o junk)
      BY <2>7, <3>1, ConcatAssociative
    <3>3. QED
      BY <3>1, <3>2
  <2> HIDE DEF tail
  <2>9. FrameLen <= BufferSize + Len(tail)
    BY <2>4, <2>6, Sizes
  <2>10. MsgOK(shown') /\ Ended(shown')
    BY <2>3, <2>6, <2>8, <2>9, FrameDecoded
  <2>11. MsgOK(shown)' /\ Ended(shown)' /\ MsgOK(msg)'
    BY <2>2, <2>3, <2>10 DEF MsgOK, Ended, typed
  <2>12. QED
    BY <2>2, <2>3, <2>11 DEF CodecInv
<1>6. CASE UNCHANGED vars
  BY <1>6 DEF vars, typed, CodecInv, TypedOK, WireOK, MsgOK, Ended
<1>7. QED
  BY <1>1, <1>2, <1>3, <1>4, <1>5, <1>6 DEF Next

\* The invariant is the type invariant and more.
LEMMA CodecTypes == CodecInv => TypeOK
<1> SUFFICES ASSUME CodecInv PROVE TypeOK
  OBVIOUS
<1>1. Len(wire) = IF stage = "typed" THEN 0 ELSE BufferSize
  BY Sizes DEF CodecInv, WireOK
<1>2. stage = "known" => Len(msg.origin) = NameLen
  BY Sizes, TypedFields DEF CodecInv, Fields
<1>3. QED
  BY <1>1, <1>2 DEF CodecInv, MsgOK, TypeOK

\* Whatever the sizes, what lies behind the buffers and how a message went, what
\* was typed is on the way as CodecInv says; in particular every send is of a
\* whole buffer and decoding yields whole fields.
THEOREM TypeCorrect == Spec => [](TypeOK /\ CodecInv)
<1>1. Init => CodecInv
  BY CodecInit
<1>2. CodecInv /\ [Next]_vars => CodecInv'
  BY CodecStep
<1>3. CodecInv => TypeOK
  BY CodecTypes
<1>4. QED
  BY <1>1, <1>2, <1>3, PTL DEF Spec

\* The server enters and looks up exactly the names that were typed, for every
\* size of names and buffers and whatever lies behind the buffer
\* (RoutedAsTyped, logic_service.c:376, 380, 388).
THEOREM NamesAsTyped == Spec => []RoutedAsTyped
<1>1. CodecInv => RoutedAsTyped
  <2> SUFFICES ASSUME CodecInv PROVE RoutedAsTyped
    OBVIOUS
  <2>1. CString(Pad(user, NameLen)) = user /\ CString(Pad(friend, NameLen)) = friend
    BY Sizes, CStringOfPad DEF CodecInv, TypedOK
  <2>2. QED
    BY <2>1 DEF CodecInv, MsgOK, RoutedAsTyped
<1>2. QED
  BY <1>1, TypeCorrect, PTL

\* The friend's client shows the names and the text, cut to what the buffer has
\* room for and to nothing less, forwarded or stored, for all sizes
\* (ShownAsTyped, logic_service.c:103-107, 353-354, 362).
THEOREM TextAsTyped == Spec => []ShownAsTyped
<1>1. CodecInv => ShownAsTyped
  <2> SUFFICES ASSUME CodecInv, stage = "shown" PROVE ShownAsTyped
    BY DEF ShownAsTyped
  <2>1. CString(Pad(user, NameLen)) = user /\ CString(Pad(friend, NameLen)) = friend
    BY Sizes, CStringOfPad DEF CodecInv, TypedOK
  <2>2. TypedOK /\ MsgOK(shown) /\ Ended(shown)
    BY DEF CodecInv
  <2>3. text \in Seq(Letters) /\ Len(text) \in Nat /\ Len(text) < ContextLen
    BY <2>2, Sizes, PadField DEF TypedOK
  <2> DEFINE k == Smaller(Len(text), Room)
             s == SubSeq(text, 1, k)
  <2>4. k \in Nat /\ k <= Len(text) /\ k <= Room /\ (k = Len(text) \/ k = Room) /\ k < ContextLen
    BY <2>3, Sizes DEF Smaller
  <2> HIDE DEF k
  <2>5. s \in Seq(Letters) /\ Len(s) = k /\ \A i \in 1 .. k : s[i] = text[i]
    <3>1. \A i \in 1 .. k : text[i] \in Letters
      BY <2>3, <2>4
    <3>2. /\ s \in Seq(Letters) /\ Len(s) = IF 1 <= k THEN k - 1 + 1 ELSE 0
          /\ \A i \in 1 .. k - 1 + 1 : s[i] = text[1 + i - 1]
      BY <2>4, <3>1, SubSeqProperties
    <3> HIDE DEF s
    <3>3. QED
      BY <2>4, <3>2
  <2> HIDE DEF s
  <2> DEFINE c == shown.context
  <2>6. c \in Fields(ContextLen) /\ \A i \in 1 .. Kept : c[i] = Pad(text, ContextLen)[i]
    BY <2>2 DEF MsgOK, Messages
  <2>7. c \in Seq(Any) /\ Len(c) = ContextLen
    BY <2>6, Sizes DEF Fields, Any
  <2>8. Room < ContextLen => c[Room + 1] = Nul
    BY <2>2 DEF Ended
  <2> HIDE DEF c
  <2>9. \A i \in 1 .. k : c[i] = s[i]
    <3> SUFFICES ASSUME NEW i \in 1 .. k PROVE c[i] = s[i]
      OBVIOUS
    <3>1. i \in 1 .. Kept /\ i \in 1 .. ContextLen /\ i <= Len(text) /\ i < ContextLen
      BY <2>3, <2>4, KeptBounds, Sizes
    <3>2. Pad(text, ContextLen)[i] = text[i]
      BY <3>1 DEF Pad
    <3>3. QED
      BY <2>5, <2>6, <3>1, <3>2
  <2>10. c[k + 1] = Nul
    <3>1. CASE Room < ContextLen /\ k = Room
      BY <2>8, <3>1
    <3>2. CASE ~(Room < ContextLen /\ k = Room)
      <4>1. k = Len(text) /\ k + 1 \in 1 .. Kept /\ k + 1 \in 1 .. ContextLen /\ ~(k + 1 <= Len(text))
        BY <2>3, <2>4, <3>2, KeptBounds, Sizes
      <4>2. Pad(text, ContextLen)[k + 1] = Nul
        BY <4>1 DEF Pad
      <4>3. QED
        BY <2>6, <4>1, <4>2
    <3>3. QED
      BY <3>1, <3>2
  <2>11. CString(c) = s
    BY <2>4, <2>5, <2>7, <2>9, <2>10, CStringIs
  <2>12. QED
    BY <2>1, <2>2, <2>11 DEF ShownAsTyped, MsgOK, c, s, k
<1>2. QED
  BY <1>1, TypeCorrect, PTL
================================================================================

--------------------------------- MODULE Codec ---------------------------------
(***************************************************************************)
(* The wire format: serialization and deserialization of logic_service.c   *)
(* and the fixed buffers around them, for one login or one chat message on *)
(* its way from the sender's prompt over the server to the friend's        *)
(* screen.  A cell is a byte of text; the two header words are one cell    *)
(* each.  The frame of a chat message need not fit the buffers: what is    *)
(* read behind a buffer is any value, and what is written there is not     *)
(* followed further, so this is the first message of a fresh client and    *)
(* not what an overrun does to its next one.                               *)
(***************************************************************************)
EXTENDS Naturals, Sequences

CONSTANTS NameLen,     \* MAX_NAME_LEN
          ContextLen,  \* MAX_CONTEXT_LEN
          BufferSize,  \* BUFFER_SIZE
          Letters,     \* what can be typed
          Nul          \* the byte 0

Login == 1
Chat == 2
Header == 2
ChatBody == NameLen + NameLen + ContextLen

ASSUME CodecAssumption ==
  /\ NameLen \in Nat \ {0} /\ ContextLen \in Nat \ {0} /\ BufferSize \in Nat
  /\ Header + 2 * NameLen <= BufferSize
  /\ Nul \notin Letters

Cells == Letters \cup {Nul}
Strings(n) == UNION {[1 .. k -> Letters] : k \in 0 .. n}
Fields(n) == [1 .. n -> Cells]

Smaller(a, b) == IF a < b THEN a ELSE b

\* strncpy into a field of n bytes that is terminated afterwards.
Pad(s, n) == [i \in 1 .. n |-> IF i <= Len(s) /\ i < n THEN s[i] ELSE Nul]

Terminated(cells) == [cells EXCEPT ![Len(cells)] = Nul]

\* A field read as a C string.
CString(cells) ==
  LET ends == {i \in DOMAIN cells : cells[i] = Nul}
  IN SubSeq(cells, 1, IF ends = {} THEN Len(cells)
                      ELSE (CHOOSE i \in ends : \A j \in ends : i <= j) - 1)

VARIABLES stage, kind, user, friend, text,  \* what was typed, and how far it is
          wire,    \* the bytes of the last send
          msg,     \* the server's struct message
          shown    \* what the friend's client prints

typed == <<kind, user, friend, text>>
vars == <<stage, typed, wire, msg, shown>>

Empty == [origin |-> <<>>, target |-> <<>>, context |-> <<>>]

Init ==
  /\ stage = "typed"
  /\ kind \in {Login, Chat}
  /\ user \in Strings(NameLen - 1)
  /\ friend \in Strings(NameLen - 1)
  /\ text \in Strings(ContextLen - 1)
  /\ kind = Login => friend = <<>> /\ text = <<>>
  /\ wire = <<>>
  /\ msg = Empty
  /\ shown = Empty

--------------------------------------------------------------------------------
\* Faulty variant of Serialize: the names in the other order.
SwappedNames(type, m) ==
  IF type = Login THEN <<Login, NameLen>> \o m.origin
  ELSE <<Chat, ChatBody>> \o m.target \o m.origin \o m.context

\* serialization: the cells it writes from the start of its buffer on.
Serialize(type, m) ==
  IF type = Login THEN <<Login, NameLen>> \o m.origin
  ELSE <<Chat, ChatBody>> \o m.origin \o m.target \o m.context

\* deserialization, of memory that begins with the buffer.  The length of a
\* login comes from the frame.
Deserialize(mem) ==
  LET field(from, n) == SubSeq(mem, from + 1, from + n)
  IN IF mem[1] = Login THEN [Empty EXCEPT !.origin = field(Header, mem[2])]
     ELSE [origin |-> Terminated(field(Header, NameLen)),
           target |-> Terminated(field(Header + NameLen, NameLen)),
           context |-> Terminated(field(Header + 2 * NameLen, ContextLen))]

\* Cells that deserialization reads of a chat frame behind n cells it was given.
Behind(n) ==
  Fields(IF Header + ChatBody > n THEN Header + ChatBody - n ELSE 0)

\* The first n cells of a memory of fill in which cells have been written.
Buffer(cells, n, fill) ==
  [i \in 1 .. n |-> IF i <= Len(cells) THEN cells[i] ELSE fill]

\* Faulty variant of ClientSend: the frame's length is sent, not the buffer's.
SendFrame ==
  /\ stage = "typed"
  /\ wire' = Serialize(kind, [origin |-> Pad(user, NameLen), target |-> Pad(friend, NameLen),
                              context |-> Pad(text, ContextLen)])
  /\ stage' = "sent"
  /\ UNCHANGED <<typed, msg, shown>>

\* start_connect fills the struct, serialises it into a zeroed buffer and
\* sends the buffer.
ClientSend ==
  /\ stage = "typed"
  /\ LET m == [origin |-> Pad(user, NameLen), target |-> Pad(friend, NameLen),
               context |-> Pad(text, ContextLen)]
     IN wire' = Buffer(Serialize(kind, m), BufferSize, Nul)
  /\ stage' = "sent"
  /\ UNCHANGED <<typed, msg, shown>>

\* handle_msg_task receives a buffer and decodes it with what lies behind.
ServerReceive ==
  /\ stage = "sent"
  /\ \E junk \in Behind(BufferSize) : msg' = Deserialize(wire \o junk)
  /\ stage' = IF wire[1] = Login THEN "known" ELSE "decoded"
  /\ UNCHANGED <<typed, wire, shown>>

\* handle_online_msg_task sends the buffer on as it came.
Forward ==
  /\ stage = "decoded"
  /\ stage' = "forwarded"
  /\ UNCHANGED <<typed, wire, msg, shown>>

\* handle_offline_msg_send_task serialises the stored struct, here taken to be
\* still there, into a buffer it has not initialised.
SendOffline ==
  /\ stage = "decoded"
  /\ \E fill \in Cells : wire' = Buffer(Serialize(Chat, msg), BufferSize, fill)
  /\ stage' = "forwarded"
  /\ UNCHANGED <<typed, msg, shown>>

\* Faulty variant of ClientShow: the buffer is not terminated.
ShowUnterminated ==
  /\ stage = "forwarded"
  /\ \E junk \in Behind(BufferSize) : shown' = Deserialize(wire \o junk)
  /\ stage' = "shown"
  /\ UNCHANGED <<typed, wire, msg>>

\* client_receive_messages puts a 0 behind what it received, decodes, prints.
ClientShow ==
  /\ stage = "forwarded"
  /\ \E junk \in Behind(BufferSize + 1) : shown' = Deserialize(wire \o <<Nul>> \o junk)
  /\ stage' = "shown"
  /\ UNCHANGED <<typed, wire, msg>>

\* A login known to the server and a message on the screen are the end.
Next == ClientSend \/ ServerReceive \/ Forward \/ SendOffline \/ ClientShow

Spec == Init /\ [][Next]_vars
--------------------------------------------------------------------------------
(***************************************************************************)
(* Properties                                                              *)
(***************************************************************************)
Messages == [origin : Fields(NameLen), target : Fields(NameLen), context : Fields(ContextLen)]

\* Every send is of a whole buffer, and decoding yields whole fields.
TypeOK ==
  /\ stage \in {"typed", "sent", "known", "decoded", "forwarded", "shown"}
  /\ Len(wire) = IF stage = "typed" THEN 0 ELSE BufferSize
  /\ stage = "known" => Len(msg.origin) = NameLen
  /\ stage \in {"decoded", "forwarded", "shown"} => msg \in Messages
  /\ stage = "shown" => shown \in Messages

\* The server enters and looks up the names that were typed, whatever lies
\* behind its buffer (logic_service.c:376, 380, 388).
RoutedAsTyped ==
  /\ stage \in {"known", "decoded"} => CString(msg.origin) = user
  /\ stage = "decoded" => CString(msg.target) = friend

\* The friend's client prints the sender's name and the text, of which as much
\* arrives as the buffer has room for, and nothing else: forwarded or stored,
\* it is the same (logic_service.c:103-107, 353-354, 362).
Room == BufferSize - Header - 2 * NameLen
ShownAsTyped ==
  stage = "shown" =>
    /\ CString(shown.origin) = user
    /\ CString(shown.target) = friend
    /\ CString(shown.context) = SubSeq(text, 1, Smaller(Len(text), Room))
================================================================================

------------------------ MODULE MonkeyMessagesProofs ------------------------
(***************************************************************************)
(* Proofs about MonkeyMessages, for message types of any number of fields  *)
(* and any versions that differ as ExchangesFit allows.    The invariant   *)
(* follows the message: what Build made of the given object, that the wire *)
(* holds exactly the fields passed so far, and that the reader has the     *)
(* value of a field once its item is behind it.                            *)
(***************************************************************************)
EXTENDS MonkeyMessages, TLAPS

Fit == exchange \in Exchanges /\ reqId \in ReqIds

Built ==
    IF pc = "build"
    THEN next = 1 /\ wire = <<>>
    ELSE \A n \in DOMAIN form :
            message[n] \in (IF given[n] = Absent THEN {Default} ELSE {given[n], Recognized(form[n], given[n])})

Written ==
    /\ \A i \in 1..Len(wire) :
          /\ wire[i].number \in 1..(next - 1)
          /\ wire[i] = Item(wire[i].number)
          /\ message[wire[i].number] # Default
    /\ \A n \in 1..(next - 1) : message[n] # Default => \E i \in 1..Len(wire) : wire[i].number = n

(* The reader begins with the first item. *)
Started == pc \in {"build", "write", "sent"} => pos = 1

Sent == pc \in {"sent", "read", "done"} => next = Len(form) + 1 /\ length = 2 * Len(wire)

(* The item at i is the one decode takes for field n. *)
Carries(i, n) == wire[i].number = n /\ wire[i].type = WireType(view[n])

Taken ==
    pc \in {"read", "done"} =>
        /\ received = wire
        /\ \A n \in DOMAIN view :
              /\ (\A i \in 1..(pos - 1) : ~Carries(i, n)) => result[n] = Default
              /\ (\E i \in 1..(pos - 1) : Carries(i, n)) => result[n] = Item(n).value

Told ==
    pc = "done" =>
        pos = Len(wire) + 1 /\ \A n \in DOMAIN view : shown[n] = ToJSON(view[n], result[n])

IInv == Fit /\ TypeOK /\ Built /\ Written /\ Started /\ Sent /\ Taken /\ Told

----------------------------------------------------------------------------

(* What the assumptions say of the exchange at hand. *)
LEMMA Exchanged ==
    ASSUME Fit
    PROVE  /\ form \in Seq(Kind) /\ view \in Seq(Kind)
           /\ Len(form) \in Nat /\ DOMAIN form = 1..Len(form)
           /\ Len(view) \in Nat /\ DOMAIN view = 1..Len(view)
           /\ \A n \in DOMAIN form : form[n] \in Kind /\ given[n] \in Held(form[n]) \cup {Absent}
           /\ \A n \in DOMAIN form \cap DOMAIN view :
                 form[n] # view[n] => WireType(form[n]) # WireType(view[n])
           /\ reqId \in Int
<1>1. exchange \in Exchanges /\ reqId \in Int
  BY ReqIdsAreIntegers DEF Fit
<1>2. form \in Seq(Kind) /\ view \in Seq(Kind)
  BY <1>1, ExchangesFit DEF form, view
<1>3. QED
  BY <1>1, <1>2, ExchangesFit DEF form, view, given

LEMMA InitEstablishes == Init => IInv
<1> SUFFICES ASSUME Init PROVE IInv
  OBVIOUS
<1>1. Fit
  BY DEF Init, Fit
<1>2. TypeOK
  BY <1>1, Exchanged DEF Init, TypeOK
<1>3. Built /\ Written /\ Started /\ Sent /\ Taken /\ Told
  BY DEF Init, Built, Written, Started, Sent, Taken, Told
<1>4. QED
  BY <1>1, <1>2, <1>3 DEF IInv

(* What fromJSON and code make of a value is a value of the field. *)
LEMMA BuiltIsHeld ==
    ASSUME NEW kind \in Kind, NEW v \in Held(kind) \cup {Absent}
    PROVE  /\ FromJSON(kind, v) \in Held(kind)
           /\ v # Absent => v \in Held(kind)
           /\ Default \in Held(kind)
BY DefaultIsApart DEF FromJSON, Recognized, Held, Kind, Long

(* A value that is neither odd nor a default goes onto the wire as it is, or *)
(* as a default.                                                             *)
LEMMA ItemIsTyped ==
    ASSUME NEW n \in 1..Len(form), form[n] \in Kind, message[n] \in Held(form[n]), message[n] # "odd"
    PROVE  Item(n) \in [number : 1..Len(form), type : {0, 2},
                        value : {Default, "set", "foreign", "unrecognized"}]
<1>1. WireType(form[n]) \in {0, 2}
  BY DEF WireType
<1>2. (IF message[n] = "blank" THEN Default ELSE message[n]) \in {Default, "set", "foreign", "unrecognized"}
  BY DEF Held, Kind, Long
<1>3. QED
  BY <1>1, <1>2 DEF Item

(* Nothing but writing a field disturbs what is written. *)
LEMMA WrittenStays ==
    ASSUME Written, wire' = wire, next' = next, message' = message, form' = form
    PROVE  Written'
<1>1. \A k : Item(k)' = Item(k)
  BY DEF Item
<1> HIDE DEF Item
<1>2. QED
  BY <1>1 DEF Written

(* What a payload is made of, and what a frame received may be. *)
Whole == [number : 1..Len(form), type : {0, 2},
          value : {Default, "set", "foreign", "unrecognized"}]
Piece == [number : 1..Len(form), type : {0, 2},
          value : {Default, "set", "foreign", "unrecognized", "torn"}]

(* After the writing, only the counters and the reader's side change.        *)
LEMMA TypeStays ==
    ASSUME TypeOK, UNCHANGED <<exchange, message, next, wire>>,
           pc # "build", pc' \in {"sent", "read", "done", "threw"},
           length' \in Nat, received' \in Seq(Piece), pos' \in 1..(Len(received') + 1),
           pc' \in {"read", "done"} => DOMAIN result' = DOMAIN view,
           pc' = "done" => DOMAIN shown' = DOMAIN view
    PROVE  TypeOK'
<1>1. form' = form /\ view' = view
  BY DEF form, view
<1>2. DOMAIN message = DOMAIN form /\ \A n \in DOMAIN form : message[n] \in Held(form[n])
  BY DEF TypeOK
<1>3. /\ next \in 1..(Len(form) + 1)
      /\ wire \in Seq([number : 1..Len(form), type : {0, 2},
                       value : {Default, "set", "foreign", "unrecognized"}])
  BY DEF TypeOK
<1>4. QED
  BY <1>1, <1>2, <1>3 DEF TypeOK, Piece

(* No item that is written is torn. *)
LEMMA WrittenItems ==
    ASSUME TypeOK
    PROVE  /\ wire \in Seq(Whole)
           /\ \A item \in Whole : /\ item \in Piece /\ item.value # "torn"
                                  /\ Torn(item) \in Piece /\ Torn(item).value = "torn"
<1>1. wire \in Seq(Whole)
  BY DEF TypeOK, Whole
<1>2. ASSUME NEW item \in Whole PROVE item \in Piece /\ item.value # "torn"
  BY DefaultIsApart DEF Whole, Piece
<1>3. ASSUME NEW item \in Whole PROVE Torn(item) \in Piece /\ Torn(item).value = "torn"
  BY DEF Whole, Piece, Torn
<1> QED BY <1>1, <1>2, <1>3

(* How long a payload is. *)
LEMMA SizeIs ==
    ASSUME NEW payload \in Seq(Piece)
    PROVE  /\ payload = <<>> => Size(payload) = 0
           /\ payload # <<>> => Len(payload) \in 1..Len(payload)
           /\ payload # <<>> /\ payload[Len(payload)].value # "torn" => Size(payload) = 2 * Len(payload)
           /\ payload # <<>> /\ payload[Len(payload)].value = "torn" => Size(payload) = 2 * Len(payload) - 1
BY DEF Size

LEMMA WholeSize ==
    ASSUME TypeOK, NEW payload \in Seq(Whole)
    PROVE  payload \in Seq(Piece) /\ Size(payload) = 2 * Len(payload)
<1>1. \A item \in Whole : item \in Piece /\ item.value # "torn"
  BY WrittenItems
<1>2. payload \in Seq(Piece)
  BY <1>1
<1>3. payload # <<>> => payload[Len(payload)] \in Whole
  BY <1>2, SizeIs
<1>4. payload = <<>> => Len(payload) = 0
  OBVIOUS
<1> QED BY <1>1, <1>2, <1>3, <1>4, SizeIs

LEMMA BeginningIs ==
    ASSUME TypeOK, NEW k \in 0..Len(wire)
    PROVE  /\ Beginning(k) \in Seq(Whole) /\ Len(Beginning(k)) = k
           /\ k = Len(wire) => Beginning(k) = wire
<1>1. wire \in Seq(Whole) /\ Len(wire) \in Nat
  BY WrittenItems
<1> QED BY <1>1 DEF Beginning

(* What arrives is made of items and of torn ones, and has the length of     *)
(* what was sent only if it is that.                                         *)
LEMMA ArrivingIs ==
    ASSUME TypeOK, DOMAIN form = 1..Len(form), NEW payload \in Arriving
    PROVE  /\ payload \in Seq(Piece)
           /\ Size(payload) = 2 * Len(wire) => payload = wire
<1>1. wire \in Seq(Whole) /\ Len(wire) \in Nat /\ wire \in Seq(Piece)
  BY WrittenItems, WholeSize
<1>2. ASSUME NEW k \in 0..Len(wire), payload = Beginning(k)
      PROVE  payload \in Seq(Piece) /\ (Size(payload) = 2 * Len(wire) => payload = wire)
  <2>1. payload \in Seq(Piece) /\ Size(payload) = 2 * k
    BY <1>2, BeginningIs, WholeSize
  <2> QED BY <1>1, <1>2, <2>1, BeginningIs
<1>3. ASSUME NEW k \in 1..Len(wire), payload = Append(Beginning(k - 1), Torn(wire[k]))
      PROVE  payload \in Seq(Piece) /\ Size(payload) # 2 * Len(wire)
  <2> DEFINE torn == Torn(wire[k])
             start == Beginning(k - 1)
  <2>1. k - 1 \in 0..Len(wire) /\ k \in Nat /\ wire[k] \in Whole
    BY <1>1
  <2>2. torn \in Piece /\ torn.value = "torn"
    BY <2>1, WrittenItems
  <2>3. start \in Seq(Piece) /\ Len(start) = k - 1
    BY <2>1, BeginningIs, WholeSize
  <2> HIDE DEF torn, start
  <2>4. payload = Append(start, torn)
    BY <1>3 DEF torn, start
  <2>5. payload \in Seq(Piece) /\ Len(payload) = k /\ payload[k] = torn /\ payload # <<>>
    BY <2>1, <2>2, <2>3, <2>4
  <2>6. Size(payload) = 2 * k - 1
    BY <2>2, <2>5, SizeIs
  <2> QED BY <1>1, <2>1, <2>5, <2>6
<1>4. ASSUME NEW n \in DOMAIN form, payload = Append(wire, [number |-> n, type |-> WireType(form[n]), value |-> "set"])
      PROVE  payload \in Seq(Piece) /\ Size(payload) # 2 * Len(wire)
  <2> DEFINE more == [number |-> n, type |-> WireType(form[n]), value |-> "set"]
  <2>1. more \in Whole
    BY DEF Whole, WireType
  <2> HIDE DEF more
  <2>2. payload \in Seq(Whole) /\ Len(payload) = Len(wire) + 1
    BY <1>1, <1>4, <2>1 DEF more
  <2> QED BY <1>1, <2>2, WholeSize
<1> QED BY <1>2, <1>3, <1>4 DEF Arriving

LEMMA StepPreserves == IInv /\ [Next]_vars => IInv'
<1> SUFFICES ASSUME IInv, [Next]_vars PROVE IInv'
  OBVIOUS
<1> USE DEF IInv
<1>0. /\ form \in Seq(Kind) /\ view \in Seq(Kind)
      /\ Len(form) \in Nat /\ DOMAIN form = 1..Len(form)
      /\ Len(view) \in Nat /\ DOMAIN view = 1..Len(view)
      /\ \A n \in DOMAIN form : form[n] \in Kind /\ given[n] \in Held(form[n]) \cup {Absent}
  BY Exchanged
<1>1. CASE Build
  <2>1. Fit' /\ form' = form /\ view' = view /\ given' = given
    BY <1>1 DEF Build, Fit, form, view, given
  <2>2. /\ pc' = "write" /\ DOMAIN message' = DOMAIN form
        /\ \A n \in DOMAIN form : message'[n] \in
              (IF given[n] = Absent THEN {Default} ELSE {given[n], Recognized(form[n], given[n])})
    BY <1>1 DEF Build, FromJSON
  <2>3. \A n \in DOMAIN form : message'[n] \in Held(form[n])
    BY <1>0, <2>2, BuiltIsHeld DEF FromJSON
  <2>4. TypeOK'
    BY <1>1, <2>1, <2>2, <2>3 DEF Build, TypeOK
  <2>5. Built'
    BY <2>1, <2>2 DEF Built
  <2>6. Written'
    BY <1>1 DEF Build, Built, Written
  <2>7. Started' /\ Sent' /\ Taken' /\ Told'
    BY <1>1, <2>2 DEF Build, Started, Sent, Taken, Told
  <2>8. QED
    BY <2>1, <2>4, <2>5, <2>6, <2>7
<1>2. CASE WriteField
  <2>1. Fit' /\ form' = form /\ view' = view /\ given' = given /\ message' = message /\ pc' \in {"write", "threw"}
    BY <1>2 DEF WriteField, Fit, form, view, given
  <2>2. Started' /\ Sent' /\ Taken' /\ Told' /\ Built'
    BY <1>2, <2>1 DEF WriteField, Started, Sent, Taken, Told, Built
  <2>3. CASE message[next] = "odd" \/ message[next] = Default
    <3>1. CASE message[next] = "odd"
      <4>1. wire' = wire /\ next' = next
        BY <1>2, <3>1 DEF WriteField
      <4>2. TypeOK'
        BY <1>0, <1>2, <2>1, <4>1 DEF WriteField, TypeOK
      <4>3. Written'
        BY <2>1, <4>1, WrittenStays
      <4>4. QED
        BY <2>1, <2>2, <4>2, <4>3
    <3>2. CASE message[next] # "odd" /\ message[next] = Default
      <4>1. wire' = wire /\ next' = next + 1 /\ next \in Nat
        BY <1>0, <1>2, <3>2 DEF WriteField, TypeOK
      <4>2. TypeOK'
        BY <1>0, <1>2, <2>1, <4>1 DEF WriteField, TypeOK
      <4>3. \A k : Item(k)' = Item(k)
        BY <2>1 DEF Item
      <4>4. \A n \in 1..(next' - 1) : n = next \/ n \in 1..(next - 1)
        BY <4>1
      <4>5. \A n \in 1..(next - 1) : n \in 1..(next' - 1)
        BY <4>1
      <4>6. Written'
        BY <2>1, <3>2, <4>1, <4>3, <4>4, <4>5 DEF Written
      <4>7. QED
        BY <2>1, <2>2, <4>2, <4>6
    <3>3. QED
      BY <2>3, <3>1, <3>2
  <2>4. CASE message[next] # "odd" /\ message[next] # Default
    <3> DEFINE it == Item(next)
    <3>1. wire' = Append(wire, it) /\ next' = next + 1 /\ pc' = pc /\ next \in 1..Len(form)
      BY <1>0, <1>2, <2>4 DEF WriteField, TypeOK
    <3>2. it \in [number : 1..Len(form), type : {0, 2}, value : {Default, "set", "foreign", "unrecognized"}]
      <4>1. message[next] \in Held(form[next]) /\ form[next] \in Kind
        BY <1>0, <1>2, <3>1 DEF WriteField, TypeOK
      <4>2. QED
        BY <2>4, <3>1, <4>1, ItemIsTyped
    <3> HIDE DEF it
    <3>3. TypeOK'
      BY <1>0, <1>2, <2>1, <3>1, <3>2 DEF WriteField, TypeOK
    <3>4. Len(wire') = Len(wire) + 1 /\ Len(wire) \in Nat /\ wire'[Len(wire) + 1] = it
          /\ \A i \in 1..Len(wire) : wire'[i] = wire[i]
      BY <3>1, <3>2 DEF TypeOK
    <3>5. it.number = next
      BY DEF it, Item
    <3>6. \A k : Item(k)' = Item(k)
      BY <2>1 DEF Item
    <3>7. \A i \in 1..Len(wire') : (/\ wire[i].number \in 1..(next - 1)
                                    /\ wire[i] = Item(wire[i].number)
                                    /\ message[wire[i].number] # Default)'
      <4> SUFFICES ASSUME NEW i \in 1..Len(wire')
                   PROVE  /\ wire'[i].number \in 1..(next' - 1)
                          /\ wire'[i] = Item(wire'[i].number)
                          /\ message[wire'[i].number] # Default
        BY <2>1, <3>6
      <4>1. CASE i = Len(wire) + 1
        BY <2>4, <3>1, <3>4, <3>5, <4>1 DEF it
      <4>2. CASE i \in 1..Len(wire)
        BY <3>1, <3>4, <4>2 DEF Written
      <4>3. QED
        BY <3>4, <4>1, <4>2
    <3>8. \A n \in 1..(next' - 1) : message[n] # Default => \E i \in 1..Len(wire') : wire'[i].number = n
      <4> SUFFICES ASSUME NEW n \in 1..(next' - 1), message[n] # Default
                   PROVE  \E i \in 1..Len(wire') : wire'[i].number = n
        OBVIOUS
      <4>1. CASE n = next
        BY <3>4, <3>5, <4>1
      <4>2. CASE n \in 1..(next - 1)
        BY <3>4, <4>2 DEF Written
      <4>3. QED
        BY <3>1, <4>1, <4>2
    <3>9. Written'
      BY <2>1, <3>7, <3>8 DEF Written
    <3>10. QED
      BY <2>1, <2>2, <3>3, <3>9
  <2>5. QED
    BY <2>3, <2>4
<1>3. CASE Frame
  <2>1. /\ Fit' /\ form' = form /\ view' = view /\ given' = given /\ message' = message
        /\ wire' = wire /\ next' = next /\ pc' \in {"sent", "threw"}
    BY <1>3 DEF Frame, Fit, form, view, given
  <2>2. Built' /\ Written' /\ Started' /\ Taken' /\ Told'
    BY <1>3, <2>1, WrittenStays DEF Frame, Started, Built, Taken, Told
  <2>3. TypeOK'
    <3>1. length' \in Nat /\ received' = received /\ pos' = pos /\ pc = "write"
      BY <1>3 DEF Frame, Size, TypeOK
    <3>2. received \in Seq(Piece) /\ pos \in 1..(Len(received) + 1)
      BY DEF TypeOK, Piece
    <3>3. QED
      BY <1>3, <2>1, <3>1, <3>2, TypeStays DEF Frame
  <2>4. Sent'
    <3>1. next = Len(form) + 1
      <4>1. next > Len(form) /\ next \in 1..(Len(form) + 1)
        BY <1>3 DEF Frame, TypeOK
      <4> QED BY <1>0, <4>1
    <3>2. Size(wire) = 2 * Len(wire)
      BY WrittenItems, WholeSize
    <3>3. QED
      BY <1>3, <2>1, <3>1, <3>2 DEF Frame, Sent
  <2>5. QED
    BY <2>1, <2>2, <2>3, <2>4
<1>4. CASE Unframe
  <2>1. /\ Fit' /\ form' = form /\ view' = view /\ given' = given /\ message' = message
        /\ wire' = wire /\ next' = next /\ length' = length /\ pos' = pos /\ pc' \in {"read", "threw"}
    BY <1>4 DEF Unframe, Fit, form, view, given
  <2>2. Built' /\ Written' /\ Started' /\ Sent' /\ Told'
    BY <1>4, <2>1, WrittenStays DEF Unframe, Started, Built, Sent, Told
  <2>3. TypeOK'
    <3>1. length \in Nat /\ pos = 1 /\ pc = "sent"
      BY <1>4 DEF Unframe, TypeOK, Started
    <3>2. received' \in Seq(Piece) /\ (pc' = "read" => DOMAIN result' = DOMAIN view)
      BY <1>0, <1>4, ArrivingIs DEF Unframe
    <3>3. QED
      BY <1>4, <2>1, <3>1, <3>2, TypeStays DEF Unframe
  <2>4. Taken'
    <3> SUFFICES ASSUME pc' = "read" PROVE Taken'
      BY <2>1 DEF Taken
    <3>1. received' = wire /\ result' = [n \in DOMAIN view |-> Default]
      BY <1>0, <1>4, ArrivingIs DEF Unframe, WholeFrame, Sent
    <3>2. pos' = 1
      BY <1>4, <2>1 DEF Unframe, Started
    <3>3. QED
      BY <2>1, <3>1, <3>2 DEF Taken, Carries
  <2>5. QED
    BY <2>1, <2>2, <2>3, <2>4
<1>5. CASE ReadItem
  <2>1. /\ Fit' /\ form' = form /\ view' = view /\ given' = given /\ message' = message
        /\ wire' = wire /\ next' = next /\ length' = length /\ received' = received /\ received = wire /\ pc = "read" /\ pc' = pc
        /\ pos' = pos + 1 /\ pos \in 1..Len(wire)
    <3>1. received = wire /\ pos \in Nat /\ Len(wire) \in Nat
      BY <1>5 DEF ReadItem, Taken, TypeOK
    <3> QED BY <1>5, <3>1 DEF ReadItem, Fit, form, view, given, TypeOK
  <2>2. Built' /\ Written' /\ Started' /\ Sent' /\ Told'
    BY <1>5, <2>1, WrittenStays DEF Started, Built, Sent, Told
  <2>3. TypeOK'
    <3>1. length \in Nat /\ received \in Seq(Piece) /\ DOMAIN result = DOMAIN view
      BY <2>1 DEF TypeOK, Piece
    <3>2. DOMAIN result' = DOMAIN view
      BY <1>5, <3>1 DEF ReadItem
    <3>3. pos' \in 1..(Len(wire) + 1)
      BY <2>1
    <3>4. QED
      BY <1>5, <2>1, <3>1, <3>2, <3>3, TypeStays DEF ReadItem
  <2>4. Taken'
    <3> DEFINE m == wire[pos].number
    <3>1. DOMAIN result = DOMAIN view
      BY <2>1 DEF TypeOK
    <3>2. wire[pos] = Item(m)
      BY <2>1 DEF Written
    <3>3. /\ Known(wire[pos]) => m \in DOMAIN view /\ Carries(pos, m) /\ result' = [result EXCEPT ![m] = Item(m).value]
          /\ ~Known(wire[pos]) => result' = result /\ \A n \in DOMAIN view : ~Carries(pos, n)
      BY <1>5, <2>1, <3>2 DEF ReadItem, Known, Carries
    <3>4. ASSUME NEW n \in DOMAIN view
          PROVE  /\ (\A i \in 1..pos : ~Carries(i, n)) => result'[n] = Default
                 /\ (\E i \in 1..pos : Carries(i, n)) => result'[n] = Item(n).value
      <4>1. /\ (\A i \in 1..(pos - 1) : ~Carries(i, n)) => result[n] = Default
            /\ (\E i \in 1..(pos - 1) : Carries(i, n)) => result[n] = Item(n).value
        BY <2>1 DEF Taken
      <4>2. CASE Carries(pos, n)
        <5>1. m = n /\ Known(wire[pos])
          BY <3>3, <3>4, <4>2 DEF Carries
        <5>2. result'[n] = Item(n).value
          BY <3>1, <3>3, <3>4, <5>1
        <5>3. QED
          BY <2>1, <4>2, <5>2
      <4>3. CASE ~Carries(pos, n)
        <5>1. result'[n] = result[n]
          <6>1. Known(wire[pos]) => m # n
            BY <3>3, <4>3
          <6>2. QED
            BY <3>1, <3>3, <3>4, <6>1
        <5>2. \A i \in 1..pos : i \in 1..(pos - 1) \/ i = pos
          BY <2>1
        <5>3. \A i \in 1..(pos - 1) : i \in 1..pos
          BY <2>1
        <5>4. QED
          BY <4>1, <4>3, <5>1, <5>2, <5>3
      <4>4. QED
        BY <4>2, <4>3
    <3>5. pos' - 1 = pos /\ received' = wire'
      BY <2>1 DEF Taken
    <3>6. \A n : Item(n)' = Item(n)
      BY <2>1 DEF Item
    <3>7. \A i, n : Carries(i, n)' <=> Carries(i, n)
      BY <2>1 DEF Carries
    <3>8. QED
      BY <2>1, <3>4, <3>5, <3>6, <3>7 DEF Taken
  <2>5. QED
    BY <2>1, <2>2, <2>3, <2>4
<1>6. CASE Show
  <2>1. /\ Fit' /\ form' = form /\ view' = view /\ given' = given /\ message' = message
        /\ wire' = wire /\ next' = next /\ length' = length /\ received' = received /\ received = wire /\ pc = "read" /\ pc' = "done"
        /\ pos' = pos /\ result' = result
    BY <1>6 DEF Show, Fit, form, view, given, Taken
  <2>2. Built' /\ Written' /\ Started' /\ Sent' /\ Taken'
    BY <2>1, WrittenStays DEF Started, Built, Item, Sent, Taken, Carries
  <2>3. TypeOK'
    <3>1. /\ length \in Nat /\ received \in Seq(Piece) /\ pos \in 1..(Len(received) + 1)
          /\ DOMAIN result = DOMAIN view
      BY <2>1 DEF TypeOK, Piece
    <3>2. DOMAIN shown' = DOMAIN view
      BY <1>6 DEF Show
    <3>3. QED
      BY <1>6, <2>1, <3>1, <3>2, TypeStays DEF Show
  <2>4. Told'
    <3>1. pos' = Len(wire') + 1
      BY <1>0, <1>6, <2>1 DEF Show, TypeOK, Taken
    <3>2. shown' = [n \in DOMAIN view |-> ToJSON(view[n], result[n])]
      BY <1>6 DEF Show
    <3>3. QED
      BY <2>1, <3>1, <3>2 DEF Told, ToJSON
  <2>5. QED
    BY <2>1, <2>2, <2>3, <2>4
<1>7. CASE UNCHANGED vars
  <2>1. /\ Fit' /\ TypeOK' /\ Built' /\ Sent'
    BY <1>7 DEF vars, Fit, TypeOK, Built, Sent, form, view, given
  <2>2. Written' /\ Started' /\ Taken' /\ Told'
    BY <1>7, WrittenStays DEF vars, Started, Taken, Told, Item, Carries, form, view
  <2>3. QED
    BY <2>1, <2>2
<1>8. QED
  BY <1>1, <1>2, <1>3, <1>4, <1>5, <1>6, <1>7 DEF Next, Finished

LEMMA Inductive == Spec => []IInv
<1>1. QED
  BY InitEstablishes, StepPreserves, PTL DEF Spec

(* Every variable keeps its type: no undefined field reaches encode, and no  *)
(* number its format cannot hold reaches the wire.                           *)
THEOREM TypeCorrect == Spec => []TypeOK
<1>1. IInv => TypeOK
  BY DEF IInv
<1>2. QED
  BY <1>1, Inductive, PTL

----------------------------------------------------------------------------

(* What the reader shows of a field is what the writer was given, between    *)
(* any two versions of a message type (encode, unframeWSMessage, decode).    *)
THEOREM MeaningIsKept == Spec => []ShownAsGiven
<1>1. ASSUME IInv PROVE ShownAsGiven
  <2> SUFFICES ASSUME pc = "done", NEW n \in DOMAIN view
               PROVE  shown[n] = IF /\ n \in DOMAIN form
                                    /\ form[n] = view[n]
                                    /\ given[n] \notin {Absent, Default, "blank"}
                                 THEN Recognized(form[n], given[n])
                                 ELSE Absent
    BY DEF ShownAsGiven
  <2>1. /\ DOMAIN form = 1..Len(form) /\ Len(form) \in Nat
        /\ \A k \in DOMAIN form : form[k] \in Kind /\ given[k] \in Held(form[k]) \cup {Absent}
        /\ \A k \in DOMAIN form \cap DOMAIN view :
              form[k] # view[k] => WireType(form[k]) # WireType(view[k])
    BY <1>1, Exchanged DEF IInv
  <2>2. shown[n] = ToJSON(view[n], result[n]) /\ pos - 1 = Len(wire) /\ next - 1 = Len(form)
    BY <1>1, <2>1 DEF IInv, Told, Sent, TypeOK
  <2>3. /\ (\A i \in 1..Len(wire) : ~Carries(i, n)) => result[n] = Default
        /\ (\E i \in 1..Len(wire) : Carries(i, n)) => result[n] = Item(n).value
    BY <1>1, <2>2 DEF IInv, Taken
  <2>4. \A i \in 1..Len(wire) : /\ wire[i].number \in DOMAIN form
                                /\ wire[i] = Item(wire[i].number)
                                /\ message[wire[i].number] # Default
    BY <1>1, <2>1, <2>2 DEF IInv, Written
  <2>5. CASE n \notin DOMAIN form \/ form[n] # view[n]
    <3>1. \A i \in 1..Len(wire) : ~Carries(i, n)
      <4> SUFFICES ASSUME NEW i \in 1..Len(wire), Carries(i, n) PROVE FALSE
        OBVIOUS
      <4>1. wire[i] = Item(n) /\ n \in DOMAIN form
        BY <2>4 DEF Carries
      <4>2. WireType(form[n]) = WireType(view[n])
        BY <4>1 DEF Carries, Item
      <4>3. QED
        BY <2>1, <2>5, <4>1, <4>2
    <3>2. QED
      BY <2>2, <2>3, <2>5, <3>1 DEF ToJSON
  <2>6. CASE n \in DOMAIN form /\ form[n] = view[n]
    <3>1. message[n] \in (IF given[n] = Absent THEN {Default} ELSE {given[n], Recognized(form[n], given[n])})
      BY <1>1, <2>6 DEF IInv, Built
    <3>2. form[n] \in Kind /\ given[n] \in Held(form[n]) \cup {Absent}
      BY <2>1, <2>6
    <3>3. CASE message[n] = Default
      <4>1. \A i \in 1..Len(wire) : ~Carries(i, n)
        BY <2>4, <3>3 DEF Carries
      <4>2. shown[n] = Absent
        BY <2>2, <2>3, <4>1 DEF ToJSON
      <4>3. given[n] \in {Absent, Default}
        BY <3>1, <3>2, <3>3, DefaultIsApart DEF Recognized
      <4>4. QED
        BY <4>2, <4>3
    <3>4. CASE message[n] # Default
      <4>1. PICK i \in 1..Len(wire) : wire[i].number = n
        BY <1>1, <2>1, <2>2, <2>6, <3>4 DEF IInv, Written
      <4>2. wire[i] = Item(n)
        BY <2>4, <4>1
      <4>3. Carries(i, n)
        BY <2>6, <4>1, <4>2 DEF Carries, Item
      <4>4. result[n] = IF message[n] = "blank" THEN Default ELSE message[n]
        BY <2>3, <4>3 DEF Item
      <4>5. shown[n] = IF message[n] = "blank" THEN Absent ELSE Recognized(form[n], message[n])
        BY <2>2, <2>6, <3>4, <4>4 DEF ToJSON
      <4>6. given[n] # Absent /\ given[n] # Default
        BY <3>1, <3>4, DefaultIsApart DEF Recognized
      <4>7. (message[n] = "blank" <=> given[n] = "blank") /\ Recognized(form[n], message[n]) = Recognized(form[n], given[n])
        BY <3>1, <4>6 DEF Recognized
      <4>8. QED
        BY <2>6, <4>5, <4>6, <4>7
    <3>5. QED
      BY <3>3, <3>4
  <2>7. QED
    BY <2>5, <2>6
<1>2. QED
  BY <1>1, Inductive, PTL
=============================================================================

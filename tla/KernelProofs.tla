---------------------------- MODULE KernelProofs ----------------------------
(***************************************************************************)
(* The two kernel modules for buffers, headers, messages and memories of   *)
(* any size, and any number of loads.                                      *)
(***************************************************************************)
EXTENDS KernelModules, OperatorProofs

Waiting == {"creating", "binding", "receiving"}

(* Until a datagram has been received the buffer is clear and nothing was given
   in this load; then the buffer has the datagram, if it fits, and zeros. *)
BufferIsReceived ==
  /\ at \in Waiting => buffer = Zeros /\ datagram = <<>> /\ spilled = 0 /\ given = <<>>
  /\ at = "received" =>
       /\ given = <<>>
       /\ spilled = 0 => buffer = [i \in 1 .. UdpBufferSize |-> Received(i)]

UdpInv == UdpTypeOK /\ SocketsHeld /\ BufferIsReceived /\ GivenIsReceived

LEMMA BufferFacts ==
  /\ Header \in Nat /\ Header > 0 /\ IntMax \in Nat
  /\ UdpBufferSize \in Nat /\ Header <= UdpBufferSize /\ UdpBufferSize <= IntMax
  /\ 0 \in Bytes
BY IntAssumption, FramingAssumption, UdpAssumption DEF Bytes

LEMMA IntFits == \A n \in 0 .. IntMax : int(n) = n
BY IntAssumption DEF int

(* A message size and its header are what the other says: every uint32_t comes
   back from the header that htonl makes of it, and every header stands for
   one. *)
THEOREM HeaderRoundTrip ==
  /\ \A n \in 0 .. 2 * IntMax + 1 :
       htonl(n) \in [1 .. Header -> Bytes] /\ ntohl(htonl(n)) = n
  /\ \A bytes \in [1 .. Header -> Bytes] :
       ntohl(bytes) \in 0 .. 2 * IntMax + 1 /\ htonl(ntohl(bytes)) = bytes
<1> DEFINE V == ByteValues  H == Header
<1>1. V \in Nat \ {0} /\ H \in Nat /\ Power(V, H) = 2 * (IntMax + 1) /\ IntMax \in Nat
      /\ Bytes = 0 .. V - 1
  BY FramingAssumption, IntAssumption DEF Bytes
<1>2. \A i \in 1 .. H : H + 1 - i \in 1 .. H /\ H + 1 - (H + 1 - i) = i
  BY <1>1
<1>3. ASSUME NEW n \in 0 .. 2 * IntMax + 1
      PROVE  htonl(n) \in [1 .. H -> Bytes] /\ ntohl(htonl(n)) = n
  <2> DEFINE digits == DigitsOf(n, V, H)  header == htonl(n)
  <2>1. n \in Nat /\ n \in Int /\ n < Power(V, H)
    BY <1>1
  <2>2. digits \in [1 .. H -> 0 .. V - 1]
    BY <1>1, <2>1, DigitsType
  <2>3. FromDigits(digits, V, H) = n
    <3>1. Shifts(n, V, H)[H] = 0
      BY <1>1, <2>1, ShiftsEnd
    <3> QED BY <1>1, <2>1, <3>1, DigitsBack
  <2>4. header = [i \in 1 .. H |-> digits[H + 1 - i]]
    BY DEF htonl
  <2> HIDE DEF digits, header, V, H
  <2>5. header \in [1 .. H -> Bytes]
    BY <1>1, <1>2, <2>2, <2>4
  <2>6. [i \in 1 .. H |-> header[H + 1 - i]] = digits
    BY <1>2, <2>2, <2>4
  <2>7. ntohl(header) = FromDigits([i \in 1 .. H |-> header[H + 1 - i]], V, H)
    BY DEF ntohl, H, V
  <2> QED BY <2>3, <2>5, <2>6, <2>7 DEF header
<1>4. ASSUME NEW bytes \in [1 .. H -> Bytes]
      PROVE  ntohl(bytes) \in 0 .. 2 * IntMax + 1 /\ htonl(ntohl(bytes)) = bytes
  <2> DEFINE digits == [i \in 1 .. H |-> bytes[H + 1 - i]]  n == FromDigits(digits, V, H)
  <2>1. digits \in [1 .. H -> 0 .. V - 1]
    <3> HIDE DEF V, H
    <3> QED BY <1>1, <1>2
  <2>2. ntohl(bytes) = n
    BY DEF ntohl
  <2>3. \A i \in 1 .. H : digits[H + 1 - i] = bytes[i]
    <3> HIDE DEF V, H
    <3> QED BY <1>1, <1>2
  <2> HIDE DEF digits
  <2>4. n \in 0 .. Power(V, H) - 1 /\ DigitsOf(n, V, H) = digits
    BY <1>1, <2>1, FromDigitsBack
  <2>5. htonl(n) = [i \in 1 .. H |-> DigitsOf(n, V, H)[H + 1 - i]]
    BY DEF htonl
  <2> HIDE DEF n, V, H
  <2>6. htonl(n) = bytes
    BY <2>3, <2>4, <2>5
  <2>7. n \in 0 .. 2 * IntMax + 1
    BY <1>1, <2>4
  <2> QED BY <2>2, <2>6, <2>7
<1> QED BY <1>3, <1>4 DEF H

LEMMA ZeroHeader == ntohl([i \in 1 .. Header |-> 0]) = 0
<1> DEFINE V == ByteValues  H == Header  rest == Shifts(0, V, H)  digits == DigitsOf(0, V, H)
<1>1. V \in Nat \ {0} /\ H \in Nat /\ 0 \in 0 .. 2 * IntMax + 1 /\ 0 \in Int
  BY FramingAssumption, IntAssumption
<1>2. rest[0] = 0 /\ \A i \in 1 .. H : rest[i] = rest[i - 1] \div V
  BY <1>1, ShiftsAre DEF AreShifts
<1>3. 0 \div V = 0 /\ 0 % V = 0
  BY <1>1
<1>4. htonl(0) = [i \in 1 .. H |-> digits[H + 1 - i]]
  BY DEF htonl
<1>5. digits = [j \in 1 .. H |-> rest[j - 1] % V]
  BY DEF DigitsOf
<1> DEFINE T == {k \in Nat : k <= H => rest[k] = 0}
<1> HIDE DEF rest, digits, V, H
<1>6. 0 \in T /\ \A k \in Nat : k \in T => k + 1 \in T
  <2>1. ASSUME NEW k \in Nat, k \in T, k + 1 <= H PROVE rest[k + 1] = 0
    <3>1. k <= H /\ k + 1 \in 1 .. H /\ k + 1 - 1 = k
      BY <1>1, <2>1
    <3> QED BY <1>2, <1>3, <2>1, <3>1
  <2> QED BY <1>2, <2>1
<1> HIDE DEF T
<1>7. \A k \in 0 .. H : rest[k] = 0
  <2>1. Nat \subseteq T
    BY <1>6, NatSetInduction
  <2> QED BY <1>1, <2>1 DEF T
<1>8. ASSUME NEW j \in 1 .. H PROVE digits[j] = 0
  <2>1. rest[j - 1] = 0
    BY <1>1, <1>7
  <2> QED BY <1>3, <1>5, <2>1
<1>9. \A i \in 1 .. H : digits[H + 1 - i] = 0
  <2>1. \A i \in 1 .. H : H + 1 - i \in 1 .. H
    BY <1>1
  <2> QED BY <1>8, <2>1
<1>10. htonl(0) = [i \in 1 .. H |-> 0]
  BY <1>4, <1>9
<1> QED BY <1>1, <1>10, HeaderRoundTrip DEF H

(* What is kept of the types by a step that leaves the buffer and the queue. *)
LEMMA UdpTypes == UdpInv /\ UdpNext => UdpTypeOK'
<1> SUFFICES ASSUME UdpInv, UdpNext PROVE UdpTypeOK'
  OBVIOUS
<1> USE DEF UdpInv, UdpTypeOK
<1>1. CASE udp_init
  BY <1>1, BufferFacts DEF udp_init, Zeros
<1>2. CASE Send
  BY <1>2 DEF Send
<1>3. CASE CreateFails
  BY <1>3 DEF CreateFails
<1>4. CASE sock_create_kern
  BY <1>4 DEF sock_create_kern
<1>5. CASE BindFails
  BY <1>5, UdpAssumption DEF BindFails
<1>6. CASE bind
  BY <1>6 DEF bind
<1>7. CASE kernel_recvmsg
  <2> DEFINE d == Head(queue)
  <2>1. d \in Datagrams /\ Tail(queue) \in Seq(Datagrams)
    BY <1>7 DEF kernel_recvmsg
  <2>2. Len(d) \in Nat /\ \A i \in 1 .. Len(d) : d[i] \in Bytes
    BY <2>1, UdpAssumption
  <2>3. /\ UNCHANGED <<sockets, failedBinds>> /\ queue' = Tail(queue) /\ datagram' = d
        /\ Store(d) \/ StoreTooMuch(d)
    BY <1>7 DEF kernel_recvmsg
  <2> HIDE DEF d
  <2>4. CASE Store(d)
    BY <2>1, <2>2, <2>3, <2>4 DEF Store
  <2>5. CASE StoreTooMuch(d)
    <3>1. spilled' \in Nat
      BY <2>2, <2>5, UdpAssumption, BufferFacts DEF StoreTooMuch, Fits
    <3>2. PICK lost \in SUBSET (1 .. UdpBufferSize), beyond \in Beyond :
            buffer' = [i \in 1 .. UdpBufferSize |-> IF i \in lost THEN beyond ELSE d[i]]
      BY <2>5 DEF StoreTooMuch
    <3>3. \A i \in 1 .. UdpBufferSize : d[i] \in Bytes
      BY <2>2, <2>5, BufferFacts DEF StoreTooMuch, Fits
    <3>4. buffer' \in [1 .. UdpBufferSize -> Bytes]
      BY <3>2, <3>3, FramingAssumption
    <3> QED
      BY <2>1, <2>3, <2>5, <3>1, <3>4 DEF StoreTooMuch
  <2> QED
    BY <2>3, <2>4, <2>5
<1>8. CASE ReceiveFails
  <2>1. sockets - 1 \in Nat
    BY <1>8 DEF ReceiveFails, SocketsHeld
  <2> QED
    BY <1>8, <2>1 DEF ReceiveFails, sock_release
<1>9. CASE process_message
  <2>1. sockets - 1 \in Nat
    BY <1>9 DEF process_message, SocketsHeld
  <2> QED
    BY <1>9, <2>1 DEF process_message, sock_release
<1>10. CASE udp_exit
  BY <1>10 DEF udp_exit
<1>11. CASE Restart
  BY <1>11, BufferFacts, UdpAssumption DEF Restart, Zeros
<1> QED
  BY <1>1, <1>2, <1>3, <1>4, <1>5, <1>6, <1>7, <1>8, <1>9, <1>10, <1>11 DEF UdpNext, Proceed

LEMMA UdpSockets == UdpInv /\ UdpNext => SocketsHeld'
BY DEF UdpInv, UdpTypeOK, SocketsHeld, UdpNext, Proceed, udp_init, Send, CreateFails,
       sock_create_kern, BindFails, bind, kernel_recvmsg, Store, StoreTooMuch, ReceiveFails,
       process_message, sock_release, udp_exit, Restart

LEMMA UdpBuffer == UdpInv /\ UdpNext => BufferIsReceived'
<1> SUFFICES ASSUME UdpInv, UdpNext PROVE BufferIsReceived'
  OBVIOUS
<1> USE DEF UdpInv, BufferIsReceived, Waiting
<1>1. CASE udp_init
  BY <1>1 DEF udp_init
<1>2. CASE kernel_recvmsg
  <2>1. /\ buffer = Zeros /\ given' = <<>> /\ datagram' = Head(queue)
        /\ Store(Head(queue)) \/ StoreTooMuch(Head(queue))
    BY <1>2 DEF kernel_recvmsg
  <2>2. CASE Store(Head(queue))
    <3>1. buffer' = [i \in 1 .. UdpBufferSize |-> IF i <= Len(datagram') THEN datagram'[i] ELSE 0]
      BY <2>1, <2>2 DEF Store, Zeros
    <3> QED
      BY <2>1, <2>2, <3>1 DEF Store, Received
  <2>3. CASE StoreTooMuch(Head(queue))
    <3>1. Head(queue) \in Datagrams
      BY <1>2 DEF kernel_recvmsg, UdpTypeOK
    <3>2. Len(Head(queue)) \in Nat
      BY <3>1, UdpAssumption
    <3>3. spilled' # 0 /\ at' \in {"received", "crashed"}
      BY <2>3, <3>2, UdpAssumption, BufferFacts DEF StoreTooMuch, Fits
    <3> QED
      BY <2>1, <3>3
  <2> QED
    BY <2>1, <2>2, <2>3
<1>3. CASE Send \/ CreateFails \/ sock_create_kern \/ BindFails \/ bind \/ ReceiveFails
           \/ process_message \/ udp_exit
  BY <1>3 DEF Send, CreateFails, sock_create_kern, BindFails, bind, ReceiveFails,
              process_message, udp_exit, Received
<1>4. CASE Restart
  BY <1>4 DEF Restart
<1> QED
  BY <1>1, <1>2, <1>3, <1>4 DEF UdpNext, Proceed

(* The size in the header of what the buffer has: the number there, if it is less
   than the buffer's, and else nothing. *)
LEMMA SizeRead ==
  ASSUME NEW b \in [1 .. UdpBufferSize -> Bytes]
  PROVE  LET h == SubSeq(b, 1, Header)
             size == extract_message_size(h, UdpBufferSize)
         IN  /\ h = [i \in 1 .. Header |-> b[i]]
             /\ ntohl(h) \in Nat /\ size \in Int
             /\ ntohl(h) < UdpBufferSize => size = ntohl(h)
             /\ ~ (ntohl(h) < UdpBufferSize) => size < 0
<1> DEFINE h == SubSeq(b, 1, Header)
<1>1. h = [i \in 1 .. Header |-> b[i]]
  <2>1. b \in Seq(Bytes) /\ Len(b) = UdpBufferSize
    BY BufferFacts
  <2> QED
    BY <2>1, BufferFacts
<1>2. h \in [1 .. Header -> Bytes]
  <2>1. \A i \in 1 .. Header : b[i] \in Bytes
    BY BufferFacts
  <2> HIDE DEF h
  <2> QED
    BY <1>1, <2>1
<1> HIDE DEF h
<1>3. ntohl(h) \in 0 .. 2 * IntMax + 1
  BY <1>2, HeaderRoundTrip
<1> DEFINE n == ntohl(h)
<1> HIDE DEF n
<1>4. /\ n \in Nat /\ int(n) \in Int /\ (n <= IntMax => int(n) = n) /\ (n > IntMax => int(n) < 0)
  BY <1>3, BufferFacts DEF n, int
<1> QED
  BY <1>1, <1>4, BufferFacts DEF n, h, extract_message_size

(* What process_message is given when it is called. *)
LEMMA GivenWhenProcessed ==
  ASSUME UdpInv, process_message
  PROVE  LET n == ntohl([i \in 1 .. Header |-> buffer[i]])
         IN  /\ n \in Nat
             /\ n < UdpBufferSize => \E beyond \in Beyond :
                  given' = [i \in 1 .. n |-> IF Header + i <= UdpBufferSize
                                             THEN buffer[Header + i] ELSE beyond]
             /\ ~ (n < UdpBufferSize) => given' = <<>>
<1> DEFINE h == SubSeq(buffer, 1, Header)
           n == ntohl(h)
           size == extract_message_size(h, UdpBufferSize)
<1>1. /\ h = [i \in 1 .. Header |-> buffer[i]] /\ n \in Nat /\ size \in Int
      /\ (n < UdpBufferSize => size = n) /\ (~ (n < UdpBufferSize) => size < 0)
  BY SizeRead DEF UdpInv, UdpTypeOK
<1>2. given = <<>>
  BY DEF UdpInv, BufferIsReceived, process_message
<1>3. PICK beyond \in Beyond : given' = IF size > 0 THEN MessageAt(size, beyond) ELSE given
  BY DEF process_message
<1>4. n = ntohl([i \in 1 .. Header |-> buffer[i]])
  BY <1>1
<1> HIDE DEF size, n, h
<1>5. CASE n < UdpBufferSize /\ n > 0
  BY <1>1, <1>3, <1>4, <1>5 DEF MessageAt
<1>6. CASE n < UdpBufferSize /\ n = 0
  <2>1. given' = <<>>
    BY <1>1, <1>2, <1>3, <1>6
  <2>2. 1 .. n = {}
    BY <1>6
  <2>3. given' = [i \in 1 .. n |-> IF Header + i <= UdpBufferSize
                                   THEN buffer[Header + i] ELSE beyond]
    BY <2>1, <2>2
  <2> QED
    BY <1>1, <1>4, <1>6, <2>3
<1>7. CASE ~ (n < UdpBufferSize)
  BY <1>1, <1>2, <1>3, <1>4, <1>7
<1> QED
  BY <1>1, <1>5, <1>6, <1>7

LEMMA UdpGiven == UdpInv /\ UdpNext => GivenIsReceived'
<1> SUFFICES ASSUME UdpInv, UdpNext PROVE GivenIsReceived'
  OBVIOUS
<1> USE DEF UdpInv, BufferIsReceived, Waiting
(* Before anything is received the header is zeros, and nothing is given. *)
<1>1. ASSUME datagram' = <<>>, given' = <<>> PROVE GivenIsReceived'
  <2>1. \A i \in 1 .. Header : Received(i)' = 0
    BY <1>1, BufferFacts DEF Received
  <2>2. Claimed' = 0
    BY <2>1, ZeroHeader DEF Claimed
  <2> QED
    BY <1>1, <2>2, BufferFacts DEF GivenIsReceived
<1>2. CASE udp_init \/ CreateFails \/ BindFails \/ ReceiveFails \/ Restart
  BY <1>1, <1>2 DEF udp_init, CreateFails, BindFails, ReceiveFails, Restart
<1>3. CASE kernel_recvmsg
  <2>1. at' # "loaded" /\ given' = <<>>
    BY <1>3 DEF kernel_recvmsg, Store, StoreTooMuch
  <2> QED
    BY <2>1, BufferFacts DEF GivenIsReceived
<1>4. CASE Send \/ sock_create_kern \/ bind \/ udp_exit
  <2>1. at' # "loaded" /\ UNCHANGED given
    BY <1>4 DEF Send, sock_create_kern, bind, udp_exit
  <2> QED
    BY <2>1 DEF GivenIsReceived
<1>5. CASE process_message
  <2> DEFINE n == ntohl([i \in 1 .. Header |-> buffer[i]])
  <2>1. /\ n \in Nat
        /\ n < UdpBufferSize => \E beyond \in Beyond :
             given' = [i \in 1 .. n |-> IF Header + i <= UdpBufferSize
                                        THEN buffer[Header + i] ELSE beyond]
        /\ ~ (n < UdpBufferSize) => given' = <<>>
    BY <1>5, GivenWhenProcessed
  <2>2. UNCHANGED <<datagram, spilled>>
    BY <1>5 DEF process_message
  <2>3. (\A i : Received(i)' = Received(i)) /\ Claimed' = Claimed
    BY <2>2 DEF Received, Claimed
  <2>4. ASSUME spilled = 0 PROVE Claimed = n /\ \A i \in 1 .. UdpBufferSize : buffer[i] = Received(i)
    <3>1. buffer = [i \in 1 .. UdpBufferSize |-> Received(i)]
      BY <1>5, <2>4 DEF process_message
    <3>2. [i \in 1 .. Header |-> buffer[i]] = [i \in 1 .. Header |-> Received(i)]
      <4>1. \A i \in 1 .. Header : buffer[i] = Received(i)
        BY <3>1, BufferFacts
      <4> QED
        BY <4>1
    <3> QED
      BY <3>1, <3>2 DEF Claimed
  <2> HIDE DEF n
  <2>5. CASE n < UdpBufferSize
    <3>1. PICK beyond \in Beyond :
            given' = [i \in 1 .. n |-> IF Header + i <= UdpBufferSize
                                       THEN buffer[Header + i] ELSE beyond]
      BY <2>1, <2>5
    <3>2. Len(given') = n /\ DOMAIN given' = 1 .. n /\ n \in 0 .. UdpBufferSize - 1
      BY <2>1, <2>5, <3>1, BufferFacts
    <3>3. ASSUME spilled = 0, NEW i \in 1 .. n, Header + i <= UdpBufferSize
          PROVE  given'[i] = Received(Header + i)
      <4>1. Header + i \in 1 .. UdpBufferSize
        BY <2>1, <3>3, BufferFacts
      <4>2. given'[i] = buffer[Header + i]
        BY <3>1, <3>3
      <4> QED
        BY <2>4, <3>3, <4>1, <4>2
    <3>4. spilled = 0 => Claimed = n
      BY <2>4
    <3>5. spilled' = spilled
      BY <2>2
    <3> QED
      BY <2>3, <2>5, <3>2, <3>3, <3>4, <3>5 DEF GivenIsReceived
  <2>6. CASE ~ (n < UdpBufferSize)
    <3>1. given' = <<>> /\ Len(given') = 0 /\ DOMAIN given' = {}
      BY <2>1, <2>6
    <3>2. spilled' = 0 => ~ (Claimed' < UdpBufferSize)
      BY <2>2, <2>3, <2>4, <2>6
    <3>3. 0 \in 0 .. UdpBufferSize - 1
      BY BufferFacts
    <3> QED
      BY <3>1, <3>2, <3>3 DEF GivenIsReceived
  <2> QED
    BY <2>5, <2>6
<1> QED
  BY <1>2, <1>3, <1>4, <1>5 DEF UdpNext, Proceed

(* A step of the UDP module, or none. *)
LEMMA UdpInductive == UdpInv /\ (UdpNext \/ UNCHANGED udp) => UdpInv'
<1>1. UdpInv /\ UdpNext => UdpInv'
  BY UdpTypes, UdpSockets, UdpBuffer, UdpGiven DEF UdpInv
<1>2. UdpInv /\ UNCHANGED udp => UdpInv'
  <2> SUFFICES ASSUME UdpInv, UNCHANGED udp PROVE UdpInv'
    OBVIOUS
  <2>1. UNCHANGED <<at, sockets, queue, buffer, failedBinds, datagram, spilled, given>>
    BY DEF udp
  <2>2. (\A i : Received(i)' = Received(i)) /\ Claimed' = Claimed /\ (spilled' = spilled)
    BY <2>1 DEF Received, Claimed
  <2> QED
    BY <2>1, <2>2 DEF UdpInv, UdpTypeOK, SocketsHeld, BufferIsReceived, GivenIsReceived, Waiting
<1> QED
  BY <1>1, <1>2

LEMMA UdpStart == UdpInit => UdpInv
<1> SUFFICES ASSUME UdpInit PROVE UdpInv
  OBVIOUS
<1>1. /\ at = "unloaded" /\ sockets = 0 /\ queue = <<>> /\ buffer = Zeros
      /\ failedBinds = 0 /\ datagram = <<>> /\ spilled = 0 /\ given = <<>>
  BY DEF UdpInit
<1>2. UdpTypeOK
  BY <1>1, BufferFacts, UdpAssumption DEF UdpTypeOK, Zeros
<1> QED
  BY <1>1, <1>2, BufferFacts DEF UdpInv, SocketsHeld, BufferIsReceived, GivenIsReceived, Waiting
-----------------------------------------------------------------------------
(* What has arrived of a frame to be filtered came past the hook. *)
FilteredPast ==
  \A k \in DOMAIN sent : Filtered(sent[k]) => FrameAt(k) \cap arrived \subseteq unfiltered

NfTypes ==
  /\ loaded \in BOOLEAN /\ hooked \in BOOLEAN /\ copies \in 0 .. Memory
  /\ sent \in Seq(ClientMessages)
  /\ unfiltered \subseteq arrived /\ arrived \subseteq Stream

NfInv == NfTypes /\ FilteredPast

LEMMA SentFacts ==
  ASSUME NfTypes, NEW k \in DOMAIN sent
  PROVE  /\ k \in Nat /\ sent[k] \in Seq(Bytes) /\ Len(sent[k]) \in Nat
         /\ FrameAt(k) \subseteq Stream
  BY NetfilterAssumption DEF NfTypes, Stream

(* The places of the stream in order: those of frame k behind offset[k - 1]. *)
Places == [k \in DOMAIN sent |-> [i \in 1 .. Header + Len(sent[k]) |-> <<k, i>>]]

LEMMA PlacesAre ==
  ASSUME NfTypes
  PROVE  /\ Places \in Seq(Seq(Nat \X Nat)) /\ Len(Places) = Len(sent)
         /\ \A k \in DOMAIN sent :
              /\ Len(Places[k]) = Header + Len(sent[k])
              /\ \A i \in 1 .. Header + Len(sent[k]) : Places[k][i] = <<k, i>>
<1>1. DOMAIN sent = 1 .. Len(sent) /\ Len(sent) \in Nat
  BY DEF NfTypes
<1>2. ASSUME NEW k \in DOMAIN sent
      PROVE  /\ Places[k] \in Seq(Nat \X Nat) /\ Len(Places[k]) = Header + Len(sent[k])
             /\ \A i \in 1 .. Header + Len(sent[k]) : Places[k][i] = <<k, i>>
  <2> DEFINE n == Header + Len(sent[k])
  <2>1. k \in Nat /\ n \in Nat
    BY SentFacts, BufferFacts
  <2>2. Places[k] = [i \in 1 .. n |-> <<k, i>>]
    BY DEF Places
  <2> HIDE DEF n
  <2>3. \A i \in 1 .. n : <<k, i>> \in Nat \X Nat
    BY <2>1
  <2> QED
    BY <2>1, <2>2, <2>3 DEF n
<1>3. Places \in Seq(Seq(Nat \X Nat)) /\ Len(Places) = Len(sent)
  <2>1. Places = [k \in 1 .. Len(sent) |-> Places[k]]
    BY <1>1 DEF Places
  <2> QED
    BY <1>1, <1>2, <2>1
<1> QED
  BY <1>2, <1>3

InOrder(offset, places) ==
  /\ Offsets(offset, Places) /\ places \in Seq(Nat \X Nat)
  /\ \A k \in DOMAIN sent : \A i \in 1 .. Header + Len(sent[k]) :
       offset[k - 1] + i \in 1 .. Len(places) /\ places[offset[k - 1] + i] = <<k, i>>
  /\ \A j \in 1 .. Len(places) :
       \E k \in DOMAIN sent : \E i \in 1 .. Header + Len(sent[k]) :
         j = offset[k - 1] + i /\ places[j] = <<k, i>>

LEMMA PlacesInOrder ==
  ASSUME NfTypes PROVE \E offset : InOrder(offset, FlattenSeq(Places))
<1>1. /\ Places \in Seq(Seq(Nat \X Nat)) /\ Len(Places) = Len(sent)
      /\ \A k \in DOMAIN sent :
           /\ Len(Places[k]) = Header + Len(sent[k])
           /\ \A i \in 1 .. Header + Len(sent[k]) : Places[k][i] = <<k, i>>
  BY PlacesAre
<1>2. DOMAIN sent = 1 .. Len(Places)
  BY <1>1 DEF NfTypes
<1> DEFINE places == FlattenSeq(Places)
<1>3. places \in Seq(Nat \X Nat) /\ \E offset : Flat(places, offset, Places)
  <2> DEFINE S == Nat \X Nat
  <2>1. Places \in Seq(Seq(S))
    BY <1>1
  <2> HIDE DEF S
  <2>2. places \in Seq(S) /\ \E offset : Flat(places, offset, Places)
    BY <2>1, FlattenPlaces
  <2> QED
    BY <2>2 DEF S
<1>a. PICK offset : Flat(places, offset, Places)
  BY <1>3
<1> HIDE DEF places
<1>4. ASSUME NEW k \in DOMAIN sent, NEW i \in 1 .. Header + Len(sent[k])
      PROVE  offset[k - 1] + i \in 1 .. Len(places) /\ places[offset[k - 1] + i] = <<k, i>>
  <2>1. k \in 1 .. Len(Places) /\ i \in 1 .. Len(Places[k]) /\ Places[k][i] = <<k, i>>
    BY <1>1, <1>2
  <2> QED
    BY <1>a, <2>1, Zenon DEF Flat
<1>5. ASSUME NEW j \in 1 .. Len(places)
      PROVE  \E k \in DOMAIN sent : \E i \in 1 .. Header + Len(sent[k]) :
               j = offset[k - 1] + i /\ places[j] = <<k, i>>
  <2>1. PICK k \in 1 .. Len(Places) : \E i \in 1 .. Len(Places[k]) : j = offset[k - 1] + i
    BY <1>a DEF Flat
  <2>2. k \in DOMAIN sent /\ Len(Places[k]) = Header + Len(sent[k])
    BY <1>1, <1>2
  <2>3. PICK i \in 1 .. Header + Len(sent[k]) : j = offset[k - 1] + i
    BY <2>1, <2>2
  <2> QED
    BY <1>4, <2>2, <2>3
<1>6. InOrder(offset, places)
  BY <1>3, <1>a, <1>4, <1>5 DEF InOrder, Flat
<1> QED
  BY <1>6 DEF places

(* A stretch is one of places of the stream. *)
LEMMA StretchIs ==
  ASSUME NfTypes, NEW stretch \in Stretches
  PROVE  /\ Range(stretch) \subseteq Stream
         /\ \E offset, places : \E first, last \in 1 .. Len(places) :
              /\ InOrder(offset, places)
              /\ DOMAIN stretch = 1 .. last - first + 1
              /\ \A x \in DOMAIN stretch : /\ first + x - 1 \in 1 .. Len(places)
                                           /\ stretch[x] = places[first + x - 1]
<1> DEFINE places == FlattenSeq(Places)
<1>1. PICK offset : InOrder(offset, places)
  BY PlacesInOrder
<1>2. PICK first \in 1 .. Len(places), last \in 1 .. Len(places) : stretch = SubSeq(places, first, last)
  <2>1. Stretches = {SubSeq(places, i, j) : i, j \in 1 .. Len(places)}
    BY DEF Stretches, Places
  <2> HIDE DEF places
  <2> QED
    BY <2>1
<1> HIDE DEF places
<1>3. places \in Seq(Nat \X Nat) /\ Len(places) \in Nat
  BY <1>1 DEF InOrder
<1>4. /\ DOMAIN stretch = 1 .. last - first + 1
      /\ \A x \in 1 .. last - first + 1 : stretch[x] = places[first + x - 1]
  <2>1. first \in Int /\ last \in Int /\ \A i \in first .. last : places[i] \in Nat \X Nat
    BY <1>3
  <2>2. /\ stretch \in Seq(Nat \X Nat)
        /\ Len(stretch) = IF first <= last THEN last - first + 1 ELSE 0
        /\ \A x \in 1 .. last - first + 1 : stretch[x] = places[first + x - 1]
    BY <1>2, <2>1, SubSeqProperties
  <2>3. DOMAIN stretch = 1 .. Len(stretch)
    BY <2>2
  <2>4. 1 .. Len(stretch) = 1 .. last - first + 1
    BY <2>1, <2>2
  <2> QED
    BY <2>2, <2>3, <2>4
<1>5. \A x \in DOMAIN stretch : /\ first + x - 1 \in 1 .. Len(places)
                                /\ stretch[x] = places[first + x - 1]
  <2> TAKE x \in DOMAIN stretch
  <2>1. first \in 1 .. Len(places) /\ last \in 1 .. Len(places) /\ x \in 1 .. last - first + 1
    BY <1>4
  <2>2. first + x - 1 \in 1 .. Len(places)
    <3>1. Len(places) \in Nat
      BY <1>3
    <3> QED
      BY <2>1, <3>1
  <2> QED
    BY <1>4, <2>1, <2>2
<1>6. Range(stretch) \subseteq Stream
  <2> SUFFICES ASSUME NEW x \in DOMAIN stretch PROVE stretch[x] \in Stream
    BY DEF Range
  <2> DEFINE j == first + x - 1
  <2>1. j \in 1 .. Len(places) /\ stretch[x] = places[j]
    BY <1>5
  <2> HIDE DEF j
  <2>2. PICK k \in DOMAIN sent : \E i \in 1 .. Header + Len(sent[k]) : places[j] = <<k, i>>
    BY <1>1, <2>1 DEF InOrder
  <2>3. places[j] \in FrameAt(k)
    BY <2>2 DEF FrameAt
  <2> QED
    BY <2>1, <2>3 DEF Stream
<1> QED
  BY <1>1, <1>4, <1>5, <1>6

(* One that has all of a frame and nothing before it begins with the frame. *)
LEMMA StretchBegins ==
  ASSUME NfTypes, NEW stretch \in Stretches, NEW k \in DOMAIN sent,
         FrameAt(k) \subseteq Range(stretch), \A p \in Range(stretch) : k <= p[1]
  PROVE  \A i \in 1 .. Header + Len(sent[k]) : i \in DOMAIN stretch /\ stretch[i] = <<k, i>>
<1>1. PICK offset, places : \E first, last \in 1 .. Len(places) :
        /\ InOrder(offset, places)
        /\ DOMAIN stretch = 1 .. last - first + 1
        /\ \A x \in DOMAIN stretch : /\ first + x - 1 \in 1 .. Len(places)
                                     /\ stretch[x] = places[first + x - 1]
  BY StretchIs
<1>2. PICK first \in 1 .. Len(places), last \in 1 .. Len(places) :
        /\ InOrder(offset, places)
        /\ DOMAIN stretch = 1 .. last - first + 1
        /\ \A x \in DOMAIN stretch : /\ first + x - 1 \in 1 .. Len(places)
                                     /\ stretch[x] = places[first + x - 1]
  BY <1>1
<1> DEFINE n == Header + Len(sent[k])
<1>3. n \in Nat /\ 1 <= n /\ k \in Nat /\ k \in 1 .. Len(Places) /\ Len(places) \in Nat
  <2>1. Len(sent[k]) \in Nat /\ k \in Nat
    BY SentFacts
  <2>2. Len(Places) = Len(sent)
    BY PlacesAre
  <2>3. k \in 1 .. Len(sent)
    BY DEF NfTypes
  <2>4. Len(places) \in Nat
    BY <1>2 DEF InOrder
  <2> QED
    BY <2>1, <2>2, <2>3, <2>4, BufferFacts
(* Where the bytes of the frame are in the stretch. *)
<1>4. ASSUME NEW i \in 1 .. n
      PROVE  \E x \in DOMAIN stretch : first + x - 1 = offset[k - 1] + i
  <2>1. <<k, i>> \in FrameAt(k)
    BY DEF FrameAt
  <2>2. PICK x \in DOMAIN stretch : stretch[x] = <<k, i>>
    BY <2>1 DEF Range
  <2> DEFINE j == first + x - 1
  <2>3. j \in 1 .. Len(places) /\ places[j] = <<k, i>>
    BY <1>2, <2>2
  <2> HIDE DEF j
  <2>4. PICK m \in DOMAIN sent : \E l \in 1 .. Header + Len(sent[m]) :
               j = offset[m - 1] + l /\ places[j] = <<m, l>>
    BY <1>2, <2>3 DEF InOrder
  <2>5. j = offset[k - 1] + i
    BY <2>3, <2>4
  <2> QED
    BY <2>5 DEF j
<1> HIDE DEF n
<1>5. PICK x \in DOMAIN stretch : first + x - 1 = offset[k - 1] + 1
  BY <1>3, <1>4
(* The stretch begins with the first of them. *)
<1>6. first = offset[k - 1] + 1
  <2>1. x \in Nat /\ 1 <= x /\ first \in Nat /\ last \in Nat /\ 1 \in DOMAIN stretch
    BY <1>2, <1>3
  <2>2. first <= offset[k - 1] + 1
    BY <1>5, <2>1
  <2>3. PICK m \in DOMAIN sent : \E l \in 1 .. Header + Len(sent[m]) :
               first = offset[m - 1] + l /\ places[first] = <<m, l>>
    BY <1>2 DEF InOrder
  <2>4. PICK l \in 1 .. Header + Len(sent[m]) : first = offset[m - 1] + l /\ places[first] = <<m, l>>
    BY <2>3
  <2>5. stretch[1] = <<m, l>>
    <3>1. first + 1 - 1 = first
      BY <2>1
    <3> QED
      BY <1>2, <2>1, <2>4, <3>1
  <2>6. k <= m
    BY <2>1, <2>5 DEF Range
  <2>7. m \in Nat /\ m \in 1 .. Len(Places) /\ l \in Nat /\ 1 <= l
    <3>1. Len(sent[m]) \in Nat /\ m \in Nat
      BY SentFacts
    <3>2. Len(Places) = Len(sent)
      BY PlacesAre
    <3>3. m \in 1 .. Len(sent)
      BY DEF NfTypes
    <3> QED
      BY <3>1, <3>2, <3>3, BufferFacts
  <2>8. Len(Places) \in Nat /\ \A i \in 0 .. Len(Places) : offset[i] \in Nat
    <3>1. Places \in Seq(Seq(Nat \X Nat))
      BY PlacesAre
    <3>2. Len(Places) \in Nat
      BY <3>1, LenProperties
    <3>3. offset \in [0 .. Len(Places) -> Nat]
      BY <1>2 DEF InOrder, Offsets
    <3>4. \A i \in 0 .. Len(Places) : offset[i] \in Nat
      BY <3>3
    <3> QED
      BY <3>2, <3>4
  <2>9. CASE m = k
    BY <2>2, <2>4, <2>7, <2>8, <2>9, SMTT(40)
  <2>10. CASE k < m
    <3>1. k \in 0 .. m - 1 /\ m - 1 \in 0 .. Len(Places) /\ k - 1 \in 0 .. Len(Places)
      BY <1>3, <2>7, <2>8, <2>10
    <3>2. offset[k] <= offset[m - 1]
      BY <1>2, <3>1, PlacesAre, OffsetsGrow DEF InOrder
    <3>3. offset[k] = offset[k - 1] + n
      <4>1. Len(Places[k]) = n
        BY PlacesAre DEF n
      <4> QED
        BY <1>2, <1>3, <4>1 DEF InOrder, Offsets
    <3>4. offset[k] \in Nat /\ offset[m - 1] \in Nat /\ offset[k - 1] \in Nat
      BY <1>3, <2>8, <3>1
    <3> DEFINE a == offset[k - 1]
               b == offset[m - 1]
    <3>5. /\ a \in Nat /\ b \in Nat /\ n \in Nat /\ 1 <= n /\ l \in Nat /\ 1 <= l
          /\ a + n <= b /\ first = b + l /\ first <= a + 1
      BY <1>3, <2>2, <2>4, <2>7, <3>2, <3>3, <3>4
    <3> HIDE DEF a, b
    <3> QED
      BY <3>5
  <2> QED
    BY <1>3, <2>6, <2>7, <2>9, <2>10
<1>7. ASSUME NEW i \in 1 .. n PROVE i \in DOMAIN stretch /\ stretch[i] = <<k, i>>
  <2>1. PICK y \in DOMAIN stretch : first + y - 1 = offset[k - 1] + i
    BY <1>4
  <2>2. y = i
    <3>1. offset[k - 1] \in Nat
      <4>1. k - 1 \in 0 .. Len(Places)
        BY <1>3, PlacesAre
      <4> QED
        BY <1>2, <4>1 DEF InOrder, Offsets
    <3>2. y \in Int
      BY <1>2
    <3> QED
      BY <1>6, <2>1, <3>1, <3>2, SMTT(40)
  <2>3. places[offset[k - 1] + i] = <<k, i>>
    BY <1>2 DEF InOrder, n
  <2> QED
    BY <1>2, <2>1, <2>2, <2>3
<1> QED
  BY <1>7 DEF n

LEMMA FrameIs ==
  ASSUME NEW message \in Seq(Bytes)
  PROVE  LET h == htonl(Len(message))
         IN  /\ DOMAIN Frame(message) = 1 .. Header + Len(message)
             /\ h = [i \in 1 .. Header |-> h[i]]
             /\ \A i \in 1 .. Header : Frame(message)[i] = h[i]
             /\ \A i \in 1 .. Len(message) : Frame(message)[Header + i] = message[i]
<1> DEFINE n == Len(message)
           h == htonl(n)
           f == Frame(message)
           Values == {h[i] : i \in 1 .. Header} \cup Bytes
<1>1. n \in Nat /\ f = h \o message /\ h = [i \in 1 .. Header |-> h[i]]
  BY DEF Frame, htonl
<1> HIDE DEF h
<1>2. h \in Seq(Values) /\ Len(h) = Header /\ message \in Seq(Values)
  <2>1. h \in [1 .. Header -> Values]
    BY <1>1
  <2>2. \A i \in 1 .. Len(message) : message[i] \in Values
    OBVIOUS
  <2> HIDE DEF Values
  <2> QED
    BY <2>1, <2>2, BufferFacts
<1> HIDE DEF f, Values
<1>3. /\ f \in Seq(Values) /\ Len(f) = Len(h) + Len(message)
      /\ \A i \in 1 .. Len(h) + Len(message) :
           f[i] = IF i <= Len(h) THEN h[i] ELSE message[i - Len(h)]
  BY <1>1, <1>2, ConcatProperties, Zenon
<1>4. DOMAIN f = 1 .. Header + n
  BY <1>2, <1>3
<1>5. ASSUME NEW i \in 1 .. Header PROVE f[i] = h[i]
  <2>1. i \in 1 .. Len(h) + Len(message) /\ i <= Len(h)
    BY <1>1, <1>2, BufferFacts
  <2> QED
    BY <1>3, <2>1
<1>6. ASSUME NEW i \in 1 .. n PROVE f[Header + i] = message[i]
  <2> DEFINE q == Header + i
  <2>1. q \in 1 .. Len(h) + Len(message) /\ ~ (q <= Len(h)) /\ q - Len(h) = i
    BY <1>1, <1>2, BufferFacts
  <2> HIDE DEF q
  <2>2. f[q] = message[q - Len(h)]
    BY <1>3, <2>1
  <2> QED
    BY <2>1, <2>2 DEF q
<1> QED
  BY <1>1, <1>4, <1>5, <1>6 DEF f, h

(* The message of a frame that came whole is what process_message is given,
   whatever follows it. *)
LEMMA FrameUnderstood ==
  ASSUME NEW message \in Seq(Bytes), Len(message) <= 2 * IntMax + 1, NEW beyond, NEW data,
         \A i \in 1 .. Header + Len(message) : i \in DOMAIN data /\ data[i] = Frame(message)[i]
  PROVE  handle_tcp_payload(data, beyond) =
           IF Len(message) < NfBufferSize THEN message ELSE Nothing
<1> DEFINE n == Len(message)
<1>1. n \in Nat /\ n <= 2 * IntMax + 1 /\ NfBufferSize \in Nat /\ NfBufferSize <= IntMax
  BY NetfilterAssumption, BufferFacts
<1> DEFINE h == htonl(n)
<1>3. h = [i \in 1 .. Header |-> h[i]]
  BY FrameIs
<1>5. /\ \A i \in 1 .. Header : i \in DOMAIN data /\ data[i] = h[i]
      /\ \A i \in 1 .. n : Header + i \in DOMAIN data /\ data[Header + i] = message[i]
  <2>1. /\ \A i \in 1 .. Header : Frame(message)[i] = h[i]
        /\ \A i \in 1 .. n : Frame(message)[Header + i] = message[i]
    BY FrameIs
  <2>2. \A i \in 1 .. Header : i \in 1 .. Header + n
    BY <1>1, BufferFacts
  <2>3. \A i \in 1 .. n : Header + i \in 1 .. Header + n
    BY <1>1, BufferFacts
  <2> HIDE DEF h, n
  <2> QED
    BY <2>1, <2>2, <2>3 DEF n
<1> HIDE DEF h
<1> HIDE DEF n
<1> DEFINE byte(i) == IF i \in DOMAIN data THEN data[i] ELSE beyond
           header == [i \in 1 .. Header |-> byte(i)]
           size == extract_message_size(header, NfBufferSize)
<1>6. header = h
  BY <1>3, <1>5
<1> HIDE DEF header
<1>7. ntohl(header) = n
  BY <1>1, <1>6, HeaderRoundTrip, BufferFacts DEF h
<1>a. int(n) \in Int /\ (n <= IntMax => int(n) = n) /\ (n > IntMax => int(n) < 0)
  BY <1>1, BufferFacts DEF int
<1>b. size = IF int(n) < NfBufferSize THEN int(n) ELSE -1
  BY <1>7 DEF extract_message_size
<1> HIDE DEF size
<1>8. /\ n < NfBufferSize => size = n
      /\ n >= NfBufferSize => size \in Int /\ ~ (size > 0)
  <2> DEFINE m == int(n)
  <2> HIDE DEF m
  <2>1. m \in Int /\ (n <= IntMax => m = n) /\ (n > IntMax => m < 0)
    BY <1>a DEF m
  <2>2. size = IF m < NfBufferSize THEN m ELSE -1
    BY <1>b DEF m
  <2> QED
    BY <1>1, <2>1, <2>2, BufferFacts
<1>9. [i \in 1 .. n |-> byte(Header + i)] = message
  <2>1. message = [i \in 1 .. n |-> message[i]]
    BY DEF n
  <2>2. \A i \in 1 .. n : byte(Header + i) = message[i]
    BY <1>5
  <2> QED
    BY <2>1, <2>2
<1>10. data # <<>>
  <2>1. 1 \in DOMAIN data
    BY <1>5, BufferFacts
  <2> QED
    BY <2>1
<1>11. handle_tcp_payload(data, beyond) =
         IF data # <<>> /\ size > 0 THEN [i \in 1 .. size |-> byte(Header + i)] ELSE Nothing
  BY DEF handle_tcp_payload, header, size
<1>12. n = 0 => message = <<>>
  BY DEF n
<1> HIDE DEF byte
<1>16. n = Len(message)
  BY DEF n
<1>13. CASE n < NfBufferSize /\ n > 0
  BY <1>1, <1>8, <1>9, <1>10, <1>11, <1>13, <1>16
<1>14. CASE n < NfBufferSize /\ n = 0
  BY <1>1, <1>8, <1>11, <1>12, <1>14, <1>16 DEF Nothing
<1>15. CASE n >= NfBufferSize
  BY <1>1, <1>8, <1>11, <1>15, <1>16
<1> QED
  BY <1>1, <1>13, <1>14, <1>15

(* Frames share no byte of the stream, and each has one. *)
LEMMA FramesDisjoint ==
  ASSUME NfTypes, NEW j \in DOMAIN sent, NEW k \in DOMAIN sent
  PROVE  /\ j # k => FrameAt(j) \cap FrameAt(k) = {}
         /\ FrameAt(k) # {}
<1>1. <<k, 1>> \in FrameAt(k)
  BY SentFacts, BufferFacts DEF FrameAt
<1> QED
  BY <1>1 DEF FrameAt

(* A pushed segment that begins with a frame and has all of it is understood. *)
LEMMA NfUnderstands == NfTypes => WholeFramesUnderstood
<1> SUFFICES ASSUME NfTypes, NEW s \in Segments, NEW k \in DOMAIN sent, NEW beyond \in Beyond,
                    FrameAt(k) \subseteq s.at, \A p \in s.at : k <= p[1]
             PROVE  handle_tcp_payload(s.data, beyond) =
                      IF Len(sent[k]) < NfBufferSize THEN sent[k] ELSE Nothing
  BY DEF WholeFramesUnderstood
<1>1. sent[k] \in Seq(Bytes) /\ sent[k] \in ClientMessages /\ Len(sent[k]) <= 2 * IntMax + 1
  BY NetfilterAssumption DEF NfTypes
<1>2. \A i \in 1 .. Header + Len(sent[k]) : i \in DOMAIN s.data /\ s.data[i] = Frame(sent[k])[i]
  <2>1. CASE framed
    <3>1. PICK j \in DOMAIN sent : s = FrameSegment(j)
      BY <2>1 DEF Segments
    <3>2. s.at = FrameAt(j) /\ s.data = Frame(sent[j])
      BY <3>1 DEF FrameSegment, Segment
    <3>3. j = k
      BY <3>2, FramesDisjoint
    <3> QED
      BY <1>1, <3>2, <3>3, FrameIs
  <2>2. CASE ~ framed
    <3>1. PICK stretch \in Stretches, psh \in BOOLEAN, nonlinear \in BOOLEAN :
            s = Segment(Range(stretch), Read(stretch), psh, nonlinear)
      BY <2>2 DEF Segments
    <3>2. s.at = Range(stretch) /\ s.data = Read(stretch)
      BY <3>1 DEF Segment
    <3>3. \A i \in 1 .. Header + Len(sent[k]) : i \in DOMAIN stretch /\ stretch[i] = <<k, i>>
      BY <3>2, StretchBegins
    <3> QED
      BY <3>2, <3>3 DEF Read
  <2> QED
    BY <2>1, <2>2
<1> QED
  BY <1>1, <1>2, FrameUnderstood

(* A segment is of bytes of the stream. *)
LEMMA SegmentAt ==
  ASSUME NfTypes, NEW s \in Segments
  PROVE  s.at \subseteq Stream
<1>1. CASE framed
  <2>1. PICK k \in DOMAIN sent : s = FrameSegment(k)
    BY <1>1 DEF Segments
  <2> QED
    BY <2>1, SentFacts DEF FrameSegment, Segment
<1>2. CASE ~ framed
  <2>1. PICK stretch \in Stretches, psh \in BOOLEAN, nonlinear \in BOOLEAN :
          s = Segment(Range(stretch), Read(stretch), psh, nonlinear)
    BY <1>2 DEF Segments
  <2> QED
    BY <2>1, StretchIs DEF Segment
<1> QED
  BY <1>1, <1>2

(* What arrives of a segment that the hook lets through has no byte of a frame to
   be filtered that the verdict rests on. *)
LEMMA SegmentArrives ==
  ASSUME NfTypes, NEW s \in Segments, hook_func(s)
  PROVE  /\ UNCHANGED <<loaded, hooked, framed, sent>> /\ copies' \in 0 .. Memory
         /\ \/ UNCHANGED <<arrived, unfiltered>>
            \/ /\ Arrive(s)
               /\ hooked /\ s.psh => \A k \in DOMAIN sent :
                    Filtered(sent[k]) => FrameAt(k) \cap Judged(s) = {}
<1>1. UNCHANGED <<loaded, hooked, framed, sent>>
  BY DEF hook_func
<1>2. Memory \in Nat /\ copies \in 0 .. Memory
  BY NetfilterAssumption DEF NfTypes
<1>3. ASSUME Judge(s)
      PROVE  \/ UNCHANGED <<arrived, unfiltered>>
             \/ /\ Arrive(s)
                /\ \A k \in DOMAIN sent : Filtered(sent[k]) => FrameAt(k) \cap Judged(s) = {}
  <2>1. PICK beyond \in Beyond :
          IF Accepts(handle_tcp_payload(s.data, beyond)) THEN Arrive(s) ELSE Drop
    BY <1>3 DEF Judge
  <2>2. CASE ~ Accepts(handle_tcp_payload(s.data, beyond))
    BY <2>1, <2>2 DEF Drop
  <2>3. CASE Accepts(handle_tcp_payload(s.data, beyond))
    <3>1. ASSUME NEW k \in DOMAIN sent, Filtered(sent[k]), NEW p \in FrameAt(k) \cap Judged(s)
          PROVE  FALSE
      <4>1. p[1] = k
        BY <3>1 DEF FrameAt
      <4>2. FrameAt(k) \subseteq s.at /\ \A q \in s.at : k <= q[1]
        BY <3>1, <4>1 DEF Judged
      <4>3. sent[k] \in Rejected /\ Len(sent[k]) \in 1 .. NfBufferSize - 1 /\ sent[k] # <<>>
        BY <3>1, SentFacts DEF Filtered
      <4>4. Len(sent[k]) < NfBufferSize
        BY <4>3, NetfilterAssumption
      <4>5. handle_tcp_payload(s.data, beyond) = sent[k]
        BY <4>2, <4>4, NfUnderstands DEF WholeFramesUnderstood
      <4> QED
        BY <2>3, <4>3, <4>5 DEF Accepts, Nothing
    <3> QED
      BY <2>1, <2>3, <3>1
  <2> QED
    BY <2>2, <2>3
<1>4. CASE NotSelected(s)
  <2>1. ~ (hooked /\ s.psh) /\ Arrive(s) /\ copies' = copies
    BY <1>4 DEF NotSelected
  <2> QED
    BY <1>1, <1>2, <2>1
<1>5. CASE Linear(s)
  <2>1. Judge(s) /\ copies' = copies
    BY <1>5 DEF Linear
  <2> QED
    BY <1>1, <1>2, <1>3, <2>1
<1>6. CASE CopiedOut(s)
  <2>1. Judge(s) /\ copies' \in 0 .. Memory
    BY <1>2, <1>6 DEF CopiedOut
  <2> QED
    BY <1>1, <1>3, <2>1
<1>7. CASE CopyRefused(s) \/ LinearizeFails(s)
  <2>1. UNCHANGED <<arrived, unfiltered>> /\ copies' = copies
    BY <1>7 DEF CopyRefused, LinearizeFails, Drop
  <2> QED
    BY <1>1, <1>2, <2>1
<1> QED
  BY <1>4, <1>5, <1>6, <1>7 DEF hook_func, Processed

(* When each frame has a segment of its own, none that is to be filtered comes in
   past a hook. *)
LEMMA NfHooked ==
  ASSUME NfTypes, NfNext, framed, hooked, NEW k \in DOMAIN sent, Filtered(sent[k])
  PROVE  arrived' \cap FrameAt(k) \subseteq arrived
<1>1. CASE netfilter_init \/ netfilter_exit \/ Write
  BY <1>1 DEF netfilter_init, netfilter_exit, Write
<1>2. ASSUME NEW s \in Segments, hook_func(s)
      PROVE  arrived' \cap FrameAt(k) \subseteq arrived
  <2>1. PICK j \in DOMAIN sent : s = FrameSegment(j)
    BY DEF Segments
  <2>2. s.at = FrameAt(j) /\ s.psh
    BY <2>1 DEF FrameSegment, Segment
  <2>3. CASE UNCHANGED <<arrived, unfiltered>>
    BY <2>3
  <2>4. CASE Arrive(s) /\ (hooked /\ s.psh => \A i \in DOMAIN sent :
                             Filtered(sent[i]) => FrameAt(i) \cap Judged(s) = {})
    <3>1. arrived' = arrived \cup FrameAt(j)
      BY <2>2, <2>4 DEF Arrive
    <3>2. CASE j = k
      <4>1. \A q \in FrameAt(k) : q[1] = k
        BY DEF FrameAt
      <4>2. Judged(s) = FrameAt(k)
        BY <2>2, <3>2, <4>1, SentFacts DEF Judged
      <4> QED
        BY <2>2, <2>4, <4>2, FramesDisjoint
    <3>3. CASE j # k
      BY <3>1, <3>3, FramesDisjoint
    <3> QED
      BY <3>2, <3>3
  <2> QED
    BY <1>2, <2>3, <2>4, SegmentArrives
<1> QED
  BY <1>1, <1>2 DEF NfNext

LEMMA NfStep == NfInv /\ NfNext => NfInv'
<1> SUFFICES ASSUME NfInv, NfNext PROVE NfInv'
  OBVIOUS
<1> USE DEF NfInv
<1>1. CASE netfilter_init \/ netfilter_exit
  <2>1. UNCHANGED <<copies, framed, sent, arrived, unfiltered>> /\ hooked' \in BOOLEAN /\ loaded' \in BOOLEAN
    BY <1>1 DEF netfilter_init, netfilter_exit
  <2>2. Stream' = Stream /\ (\A k : FrameAt(k)' = FrameAt(k) /\ (Filtered(sent[k])' <=> Filtered(sent[k])))
    BY <2>1 DEF Stream, FrameAt, Filtered
  <2> QED
    BY <2>1, <2>2 DEF NfTypes, FilteredPast
<1>2. CASE Write
  <2>1. PICK message \in ClientMessages : sent' = Append(sent, message)
    BY <1>2 DEF Write
  <2>2. UNCHANGED <<loaded, hooked, copies, framed, arrived, unfiltered>>
    BY <1>2 DEF Write
  <2>3. /\ sent' \in Seq(ClientMessages) /\ Len(sent') = Len(sent) + 1 /\ Len(sent) \in Nat
        /\ DOMAIN sent = 1 .. Len(sent) /\ DOMAIN sent' = 1 .. Len(sent) + 1
        /\ \A k \in DOMAIN sent : k \in DOMAIN sent' /\ sent'[k] = sent[k]
    BY <2>1 DEF NfTypes
  <2>4. \A k \in DOMAIN sent : FrameAt(k)' = FrameAt(k)
    BY <2>3 DEF FrameAt
  <2>5. Stream \subseteq Stream'
    BY <2>3, <2>4 DEF Stream
  <2>6. NfTypes'
    BY <2>2, <2>3, <2>5 DEF NfTypes
  <2>7. ASSUME NEW k \in DOMAIN sent', Filtered(sent[k])'
        PROVE  FrameAt(k)' \cap arrived' \subseteq unfiltered'
    <3>1. CASE k \in DOMAIN sent
      <4>1. Filtered(sent[k])' <=> Filtered(sent[k])
        BY <2>3, <3>1 DEF Filtered
      <4> QED
        BY <2>2, <2>4, <2>7, <3>1, <4>1 DEF FilteredPast
    <3>2. CASE k \notin DOMAIN sent
      <4>1. \A p \in arrived : p[1] \in DOMAIN sent
        BY <2>2, <2>7 DEF NfTypes, Stream, FrameAt
      <4>2. \A p \in FrameAt(k)' : p[1] = k
        BY DEF FrameAt
      <4> QED
        BY <2>2, <3>2, <4>1, <4>2
    <3> QED
      BY <3>1, <3>2
  <2> QED
    BY <2>6, <2>7 DEF FilteredPast
<1>3. ASSUME NEW s \in Segments, hook_func(s) PROVE NfInv'
  <2>1. /\ UNCHANGED <<loaded, hooked, framed, sent>> /\ copies' \in 0 .. Memory
        /\ \/ UNCHANGED <<arrived, unfiltered>>
           \/ /\ Arrive(s)
              /\ hooked /\ s.psh => \A k \in DOMAIN sent :
                   Filtered(sent[k]) => FrameAt(k) \cap Judged(s) = {}
    BY <1>3, SegmentArrives
  <2>2. (\A j : FrameAt(j)' = FrameAt(j) /\ (Filtered(sent[j])' <=> Filtered(sent[j]))) /\ Stream' = Stream
    BY <2>1 DEF FrameAt, Stream, Filtered
  <2>3. CASE UNCHANGED <<arrived, unfiltered>>
    BY <2>1, <2>2, <2>3 DEF NfTypes, FilteredPast
  <2>4. CASE /\ Arrive(s)
             /\ hooked /\ s.psh => \A k \in DOMAIN sent :
                  Filtered(sent[k]) => FrameAt(k) \cap Judged(s) = {}
    <3>1. arrived' = arrived \cup s.at /\ unfiltered' = unfiltered \cup Unjudged(s)
      BY <2>4 DEF Arrive
    <3>2. s.at \subseteq Stream /\ Unjudged(s) \subseteq s.at
      BY <1>3, SegmentAt DEF Unjudged
    <3>3. NfTypes'
      BY <2>1, <2>2, <3>1, <3>2 DEF NfTypes
    <3>4. ASSUME NEW k \in DOMAIN sent, Filtered(sent[k]), NEW p \in FrameAt(k), p \in s.at
          PROVE  p \in Unjudged(s)
      <4>1. p[1] = k
        BY <3>4 DEF FrameAt
      <4> QED
        BY <2>4, <3>4, <4>1 DEF Unjudged
    <3>5. FilteredPast'
      BY <2>1, <2>2, <3>1, <3>4 DEF FilteredPast
    <3> QED
      BY <3>3, <3>5
  <2> QED
    BY <2>1, <2>3, <2>4
<1> QED
  BY <1>1, <1>2, <1>3 DEF NfNext

LEMMA NfStart == NfInit => NfInv
<1> SUFFICES ASSUME NfInit PROVE NfInv
  OBVIOUS
<1>1. loaded \in BOOLEAN /\ hooked \in BOOLEAN /\ copies \in 0 .. Memory
  <2>1. loaded = FALSE /\ hooked = FALSE /\ copies = 0 /\ Memory \in Nat
    BY NetfilterAssumption, Zenon DEF NfInit
  <2>2. loaded \in BOOLEAN /\ hooked \in BOOLEAN
    BY <2>1, Zenon
  <2>3. copies \in 0 .. Memory
    BY <2>1, SMT
  <2> QED
    BY <2>2, <2>3
<1>2. sent \in Seq(ClientMessages) /\ arrived = {} /\ unfiltered = {}
  BY DEF NfInit
<1> QED
  BY <1>1, <1>2 DEF NfInv, NfTypes, FilteredPast

LEMMA NfUnchanged == NfInv /\ UNCHANGED netfilter => NfInv'
<1> SUFFICES ASSUME NfInv, UNCHANGED netfilter PROVE NfInv'
  OBVIOUS
<1>1. UNCHANGED <<loaded, hooked, copies, framed, sent, arrived, unfiltered>>
  BY DEF netfilter
<1>2. Stream' = Stream /\ (\A k : FrameAt(k)' = FrameAt(k) /\ (Filtered(sent[k])' <=> Filtered(sent[k])))
  BY <1>1 DEF Stream, FrameAt, Filtered
<1> QED
  BY <1>1, <1>2 DEF NfInv, NfTypes, FilteredPast

(* What the server reads is behind nothing that came only by the hook. *)
LEMMA NfFilters == NfInv => FilterHolds
<1> SUFFICES ASSUME NfInv, NEW p \in Delivered, NEW k \in 1 .. p[1], Filtered(sent[k]),
                    NEW q \in FrameAt(k), Precedes(q, p)
             PROVE  q \in unfiltered
  BY DEF FilterHolds
<1>1. p \in arrived /\ \A r \in Stream : Precedes(r, p) => r \in arrived
  BY DEF Delivered
<1>2. p[1] \in DOMAIN sent
  BY <1>1 DEF NfInv, NfTypes, Stream, FrameAt
<1>3. DOMAIN sent = 1 .. Len(sent) /\ Len(sent) \in Nat
  BY DEF NfInv, NfTypes
<1>4. k \in DOMAIN sent
  BY <1>2, <1>3
<1>5. q \in Stream
  BY <1>4, SentFacts DEF NfInv
<1> QED
  BY <1>1, <1>4, <1>5 DEF NfInv, FilteredPast

-----------------------------------------------------------------------------
KernelInv == UdpInv /\ NfInv

LEMMA KernelInductive == KernelInv /\ [Next]_modules => KernelInv'
<1> SUFFICES ASSUME KernelInv, [Next]_modules PROVE KernelInv'
  OBVIOUS
<1>1. CASE NfNext /\ UNCHANGED udp
  BY <1>1, NfStep, UdpInductive DEF KernelInv
<1>2. CASE UdpNext /\ UNCHANGED netfilter
  BY <1>2, NfUnchanged, UdpInductive DEF KernelInv
<1>3. CASE UNCHANGED modules
  <2>1. UNCHANGED udp /\ UNCHANGED netfilter
    BY <1>3, Zenon DEF modules
  <2> QED
    BY <2>1, NfUnchanged, UdpInductive DEF KernelInv
<1> QED
  BY <1>1, <1>2, <1>3 DEF Next

LEMMA KernelInvariant == Spec => []KernelInv
<1>1. Init => KernelInv
  BY UdpStart, NfStart DEF Init, KernelInv
<1> QED
  BY <1>1, KernelInductive, PTL DEF Spec

(* TypeOK of KernelModules: memory, sockets and what arrived stay in their types,
   for every way TCP may cut the stream. *)
THEOREM KernelTypeOK == Spec => []TypeOK
<1>1. KernelInv => TypeOK
  BY DEF KernelInv, UdpInv, NfInv, NfTypes, TypeOK
<1> QED
  BY <1>1, KernelInvariant, PTL

(* The UDP module's init, over any number of loads: a socket is left behind by
   every load whose bind failed, and by no other. *)
THEOREM KernelSocketsHeld == Spec => []SocketsHeld
<1>1. KernelInv => SocketsHeld
  BY DEF KernelInv, UdpInv
<1> QED
  BY <1>1, KernelInvariant, PTL

(* extract_message_size and process_message, for buffers, headers and datagrams of
   every size: what process_message is given is always less than the buffer has;
   and of a datagram that fits in the buffer it has the size that the datagram
   claims, if that is less, and else none, and as far as it lies in the buffer the
   datagram's own bytes and zeros behind them. *)
THEOREM KernelGivenIsReceived == Spec => []GivenIsReceived
<1>1. KernelInv => GivenIsReceived
  BY DEF KernelInv, UdpInv
<1> QED
  BY <1>1, KernelInvariant, PTL

(* hook_func between any clients and the server, however TCP cuts the stream,
   retransmissions, failed copies, reloads and hooks that were not registered
   included: of a frame that process_message rejects, and behind one, the server
   reads only what came past the hook or in a segment that did not begin with that
   frame and have all of it. *)
THEOREM KernelFilterHolds == Spec => []FilterHolds
<1>1. KernelInv => FilterHolds
  BY NfFilters DEF KernelInv
<1> QED
  BY <1>1, KernelInvariant, PTL

(* The same without a history, for frames with segments of their own: while a hook
   is registered, no step brings in a byte of a rejected frame. *)
THEOREM KernelHookedFilters == Spec => HookedFilters
<1>1. KernelInv /\ [Next]_modules =>
        [framed /\ hooked => \A k \in DOMAIN sent :
           Filtered(sent[k]) => arrived' \cap FrameAt(k) \subseteq arrived]_netfilter
  <2> SUFFICES ASSUME KernelInv, [Next]_modules, netfilter' # netfilter,
                      framed, hooked, NEW k \in DOMAIN sent, Filtered(sent[k])
               PROVE  arrived' \cap FrameAt(k) \subseteq arrived
    BY Zenon
  <2>1. NfNext
    BY DEF Next, modules
  <2> QED
    BY <2>1, NfHooked DEF KernelInv, NfInv
<1> QED
  BY <1>1, KernelInvariant, PTL DEF Spec, HookedFilters

(* handle_tcp_payload and extract_message_size, however TCP cuts the stream and
   whatever its messages are: a segment that begins with a frame and has all of
   it gives process_message its message, if that is smaller than the buffer. *)
THEOREM KernelWholeFramesUnderstood == Spec => []WholeFramesUnderstood
<1>1. KernelInv => WholeFramesUnderstood
  BY NfUnderstands DEF KernelInv, NfInv
<1> QED
  BY <1>1, KernelInvariant, PTL
=============================================================================

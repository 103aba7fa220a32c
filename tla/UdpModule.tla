----------------------------- MODULE UdpModule -----------------------------
(***************************************************************************)
(* The UDP module.  Loading it runs its init, which makes a socket, waits  *)
(* for one datagram, processes the frame in it and releases the socket.    *)
(* The kernel's sockets and queue, the clients and whoever else uses the   *)
(* port are external.                                                      *)
(***************************************************************************)
EXTENDS Framing

CONSTANTS Datagrams,        \* what clients send
          UdpBufferSize,    \* the bytes of the buffer, 128 in the code
          ReceiveSize,      \* what kernel_recvmsg is asked for, 1024 in the code
          MaxFailedBinds,   \* bound: how often the port is taken
          MaxQueue          \* the datagrams the kernel keeps for a socket

ASSUME UdpAssumption ==
  /\ UdpBufferSize \in Header .. IntMax
  /\ ReceiveSize \in Nat /\ UdpBufferSize < ReceiveSize
  /\ MaxFailedBinds \in Nat /\ MaxQueue \in Nat
  /\ Datagrams \subseteq Seq(Bytes)

VARIABLES at,           \* where init is; "loaded" when it has returned, "crashed" when
                        \* the machine has stopped in it
          sockets,      \* sockets created and not released
          queue,        \* the datagrams waiting at the bound socket
          buffer,
          failedBinds,  \* the loads so far that found the port taken
          datagram,     \* the one received in this load
          spilled,      \* the bytes of it that were stored elsewhere
          given         \* what process_message was given in this load

udp == <<at, sockets, queue, buffer, failedBinds, datagram, spilled, given>>

Zeros == [i \in 1 .. UdpBufferSize |-> 0]

UdpInit ==
  /\ at = "unloaded" /\ sockets = 0 /\ queue = <<>> /\ buffer = Zeros
  /\ failedBinds = 0 /\ datagram = <<>> /\ spilled = 0 /\ given = <<>>

(* Mutant: the buffer is not cleared. *)
udp_init_dirty ==
  /\ at = "unloaded" /\ at' = "creating"
  /\ datagram' = <<>> /\ spilled' = 0 /\ given' = <<>>
  /\ UNCHANGED <<sockets, queue, buffer, failedBinds>>

(* insmod: init starts with a cleared buffer. *)
udp_init ==
  /\ at = "unloaded" /\ at' = "creating"
  /\ buffer' = Zeros /\ datagram' = <<>> /\ spilled' = 0 /\ given' = <<>>
  /\ UNCHANGED <<sockets, queue, failedBinds>>

(* Mutant: goto out_release. *)
CreateFails_release ==
  /\ at = "creating" /\ at' = "loaded" /\ sockets' = sockets - 1
  /\ UNCHANGED <<queue, buffer, failedBinds, datagram, spilled, given>>

CreateFails ==
  /\ at = "creating" /\ at' = "loaded"
  /\ UNCHANGED <<sockets, queue, buffer, failedBinds, datagram, spilled, given>>

sock_create_kern ==
  /\ at = "creating" /\ at' = "binding" /\ sockets' = sockets + 1
  /\ UNCHANGED <<queue, buffer, failedBinds, datagram, spilled, given>>

(* goto out: the socket stays. *)
BindFails ==
  /\ at = "binding" /\ failedBinds < MaxFailedBinds
  /\ at' = "loaded" /\ failedBinds' = failedBinds + 1
  /\ UNCHANGED <<sockets, queue, buffer, datagram, spilled, given>>

bind ==
  /\ at = "binding" /\ at' = "receiving" /\ queue' = <<>>
  /\ UNCHANGED <<sockets, buffer, failedBinds, datagram, spilled, given>>

(* Clients: a datagram for no socket, or for a full queue, is lost. *)
Send ==
  /\ at \in {"receiving", "received"} /\ Len(queue) < MaxQueue
  /\ \E d \in Datagrams : queue' = Append(queue, d)
  /\ UNCHANGED <<at, sockets, buffer, failedBinds, datagram, spilled, given>>

(* Releasing the socket drops what still waits at it. *)
sock_release == sockets' = sockets - 1 /\ queue' = <<>>

Fits(d) == Len(d) <= UdpBufferSize

Store(d) ==
  /\ Fits(d) /\ at' = "received"
  /\ buffer' = [i \in 1 .. UdpBufferSize |-> IF i <= Len(d) THEN d[i] ELSE buffer[i]]
  /\ UNCHANGED spilled

(* The one kvec has room for UdpBufferSize bytes; those behind them, up to
   ReceiveSize, are stored by whatever memory has behind the kvec: over any part
   of the buffer, or anywhere else, and the machine may not survive it. *)
StoreTooMuch(d) ==
  /\ ~ Fits(d) /\ at' \in {"received", "crashed"}
  /\ spilled' = (IF Len(d) < ReceiveSize THEN Len(d) ELSE ReceiveSize) - UdpBufferSize
  /\ \E lost \in SUBSET (1 .. UdpBufferSize), beyond \in Beyond :
       buffer' = [i \in 1 .. UdpBufferSize |-> IF i \in lost THEN beyond ELSE d[i]]

kernel_recvmsg ==
  /\ at = "receiving" /\ queue # <<>>
  /\ datagram' = Head(queue) /\ queue' = Tail(queue)
  /\ Store(Head(queue)) \/ StoreTooMuch(Head(queue))
  /\ UNCHANGED <<sockets, failedBinds, given>>

(* Mutant: goto out. *)
ReceiveFails_out ==
  /\ at = "receiving" /\ at' = "loaded" /\ queue' = <<>>
  /\ UNCHANGED <<sockets, buffer, failedBinds, datagram, spilled, given>>

ReceiveFails ==
  /\ at = "receiving" /\ at' = "loaded" /\ sock_release
  /\ UNCHANGED <<buffer, failedBinds, datagram, spilled, given>>

(* process_message(buffer + 4, size).  A size that passes may still reach up to
   Header - 1 bytes behind the buffer. *)
MessageAt(size, beyond) ==
  [i \in 1 .. size |-> IF Header + i <= UdpBufferSize THEN buffer[Header + i] ELSE beyond]

(* Mutant: the socket is kept for the next datagram. *)
Process_on ==
  /\ at = "received" /\ at' = "receiving"
  /\ \E beyond \in Beyond :
       LET size == extract_message_size(SubSeq(buffer, 1, Header), UdpBufferSize)
       IN  given' = IF size > 0 THEN MessageAt(size, beyond) ELSE given
  /\ UNCHANGED <<sockets, queue, buffer, failedBinds, datagram, spilled>>

process_message ==
  /\ at = "received" /\ at' = "loaded"
  /\ \E beyond \in Beyond :
       LET size == extract_message_size(SubSeq(buffer, 1, Header), UdpBufferSize)
       IN  given' = IF size > 0 THEN MessageAt(size, beyond) ELSE given
  /\ sock_release
  /\ UNCHANGED <<buffer, failedBinds, datagram, spilled>>

udp_exit ==
  /\ at = "loaded" /\ at' = "unloaded"
  /\ UNCHANGED <<sockets, queue, buffer, failedBinds, datagram, spilled, given>>

(* A machine that has stopped starts again, without the module. *)
Restart ==
  /\ at = "crashed" /\ at' = "unloaded" /\ sockets' = 0 /\ queue' = <<>> /\ buffer' = Zeros
  /\ failedBinds' = 0 /\ datagram' = <<>> /\ spilled' = 0 /\ given' = <<>>

(* What init does of itself.  In kernel_recvmsg it waits for a datagram, without
   one for ever; that the wait is broken off is nothing to rely on. *)
Proceed ==
  CreateFails \/ sock_create_kern \/ BindFails \/ bind \/ kernel_recvmsg \/ process_message

UdpNext == udp_init \/ Send \/ Proceed \/ ReceiveFails \/ udp_exit \/ Restart

UdpFairness == WF_udp(Proceed)
UdpSpec == UdpInit /\ [][UdpNext]_udp /\ UdpFairness
-----------------------------------------------------------------------------
UdpTypeOK ==
  /\ at \in {"unloaded", "creating", "binding", "receiving", "received", "loaded", "crashed"}
  /\ sockets \in Nat /\ failedBinds \in 0 .. MaxFailedBinds
  /\ queue \in Seq(Datagrams) /\ datagram \in Datagrams \cup {<<>>}
  /\ spilled \in Nat
  /\ buffer \in [1 .. UdpBufferSize -> Bytes]

(* Over any number of loads and unloads the sockets left behind are those whose
   bind failed (u:106 goes past the release): every other way out of init, after
   a datagram or after an error, gives its socket back. *)
SocketsHeld ==
  sockets = failedBinds +
    (IF at \in {"binding", "receiving", "received", "crashed"} THEN 1 ELSE 0)

(* Byte i of what was received in this load, and the size it claims. *)
Received(i) == IF i <= Len(datagram) THEN datagram[i] ELSE 0
Claimed == ntohl([i \in 1 .. Header |-> Received(i)])

(* What process_message is given is less than the buffer has, whatever came.  When
   nothing was stored outside the buffer, it is as many bytes as the datagram
   claims, if that is less than the buffer has, and else nothing; those that lie in
   the buffer are the datagram's and zeros behind it, never those of an earlier
   load.  Up to Header - 1 of them lie behind the buffer. *)
GivenIsReceived ==
  /\ Len(given) \in 0 .. UdpBufferSize - 1
  /\ at = "loaded" /\ spilled = 0 =>
       /\ Len(given) = IF Claimed < UdpBufferSize THEN Claimed ELSE 0
       /\ \A i \in DOMAIN given : Header + i <= UdpBufferSize => given[i] = Received(Header + i)

(* init waits for a datagram only: once one waits for it, it returns, whatever the
   datagram says; or it was too large for the buffer and has stopped the machine. *)
EveryLoadEnds ==
  queue # <<>> \/ at = "received" ~> at = "loaded" \/ (at = "crashed" /\ spilled > 0)
=============================================================================

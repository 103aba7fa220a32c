--------------------------- MODULE KernelModules ---------------------------
(***************************************************************************)
(* What generate_files writes: one main.c, of the type asked for on the    *)
(* command line, that is compiled and loaded beside its clients.           *)
(***************************************************************************)
EXTENDS NetfilterModule, UdpModule

VARIABLE module_type

modules == <<module_type, netfilter, udp>>

Init == module_type \in {"netfilter", "udp_socket"} /\ NfInit /\ UdpInit

Next ==
  \/ module_type = "netfilter" /\ NfNext /\ UNCHANGED <<module_type, udp>>
  \/ module_type = "udp_socket" /\ UdpNext /\ UNCHANGED <<module_type, netfilter>>

Spec == Init /\ [][Next]_modules
        /\ (module_type = "netfilter" => NfFairness)
        /\ (module_type = "udp_socket" => UdpFairness)
-----------------------------------------------------------------------------
TypeOK ==
  /\ UdpTypeOK
  /\ loaded \in BOOLEAN /\ hooked \in BOOLEAN /\ copies \in 0 .. Memory
  /\ sent \in Seq(ClientMessages)
  /\ unfiltered \subseteq arrived /\ arrived \subseteq Stream
=============================================================================

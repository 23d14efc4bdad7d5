---------------------------- MODULE ClientAddress ----------------------------
(***************************************************************************)
(* The address a request is counted under: remoteIP and isTrustedProxy of  *)
(* handlers/middleware.go, as operators.                                   *)
(*                                                                         *)
(* A request is the host and the port it comes from and the first entry of *)
(* its X-Forwarded-For header, NoEntry when the header is absent or starts *)
(* with an empty entry.                                                    *)
(***************************************************************************)

CONSTANTS Hosts,    \* addresses, as peers and as header entries
          Ports,    \* ports a peer connects from
          Private,  \* the loopback and private-network addresses
          TrustXFF  \* TRUST_XFF

ASSUME ClientAddressAssumption ==
  /\ Hosts # {} /\ Ports # {}
  /\ Private \subseteq Hosts
  /\ TrustXFF \in BOOLEAN

NoEntry  == "none"
Arrivals == [host : Hosts, port : Ports, xff : Hosts \cup {NoEntry}]

(* Faulty variant of IsTrustedProxy: every peer is believed. *)
AnyProxy(ip) == TRUE

IsTrustedProxy(ip) == ip \in Private

(* SplitHostPort drops the port, so reconnecting changes nothing.          *)
RemoteIP(r) ==
  IF TrustXFF /\ IsTrustedProxy(r.host) /\ r.xff # NoEntry THEN r.xff ELSE r.host
=============================================================================

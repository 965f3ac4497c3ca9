---------------------------- MODULE OutboundUrl -----------------------------
(***************************************************************************)
(* Which URLs the platform may call (libs/common/src/ssrf.rs).  The API    *)
(* checks a configured base URL with validate_url, the injector checks     *)
(* the URL of every call with validate_url_with_dns.                       *)
(*                                                                         *)
(* An IPv4 address is a sequence of four octets, an IPv6 address one of    *)
(* eight 16-bit groups, as the two constructors take them.  A parsed URL   *)
(* is a record [scheme, port, host]; port 0 is a URL without an explicit   *)
(* one.                                                                    *)
(***************************************************************************)
EXTENDS Integers, Sequences

(* Ipv4Addr, Ipv6Addr and IpAddr of std::net (external).                   *)
Ipv4Addr == {ip \in [1 .. 4 -> Nat] : \A i \in 1 .. 4 : ip[i] <= 255}
Ipv6Addr == {ip \in [1 .. 8 -> Nat] : \A i \in 1 .. 8 : ip[i] <= 65535}
IpAddr == [kind : {"v4"}, ip : Ipv4Addr] \cup [kind : {"v6"}, ip : Ipv6Addr]

V4(ip) == [kind |-> "v4", ip |-> ip]
V6(ip) == [kind |-> "v6", ip |-> ip]
Domain(name) == [kind |-> "domain", name |-> name]
NoHost == [kind |-> "none"]

BLOCKED_PORTS == {22, 23, 25, 3306, 5432, 6379}
BLOCKED_HOSTNAMES == {"169.254.169.254", "metadata.google.internal"}
LOOPBACK_HOSTNAMES == {"localhost", "ip6-localhost", "ip6-loopback"}

(* Network and prefix length.                                              *)
blocked_ipv4_networks ==
    {<< <<10, 0, 0, 0>>, 8>>, << <<172, 16, 0, 0>>, 12>>, << <<192, 168, 0, 0>>, 16>>,
     << <<127, 0, 0, 0>>, 8>>, << <<169, 254, 0, 0>>, 16>>, << <<100, 64, 0, 0>>, 10>>,
     << <<224, 0, 0, 0>>, 4>>, << <<240, 0, 0, 0>>, 4>>, << <<0, 0, 0, 0>>, 8>>,
     << <<192, 0, 2, 0>>, 24>>, << <<198, 51, 100, 0>>, 24>>, << <<203, 0, 113, 0>>, 24>>}

blocked_ipv6_networks ==
    {<< <<0, 0, 0, 0, 0, 0, 0, 1>>, 128>>,
     << <<65152, 0, 0, 0, 0, 0, 0, 0>>, 10>>,               \* fe80::
     << <<64512, 0, 0, 0, 0, 0, 0, 0>>, 7>>,                \* fc00::
     << <<0, 0, 0, 0, 0, 65535, 0, 0>>, 96>>}               \* ::ffff:0:0

(* Of the i-th part, width bits wide, the bits a prefix of that length     *)
(* covers.                                                                 *)
Covered(prefix, width, i) ==
    LET left == prefix - width * (i - 1)
    IN IF left < 0 THEN 0 ELSE IF left > width THEN width ELSE left

(* Ipv4Network::contains and Ipv6Network::contains (external): the address *)
(* and the network agree on the prefix.                                    *)
Contains(net, width, ip) ==
    \A i \in DOMAIN ip :
        LET rest == 2 ^ (width - Covered(net[2], width, i))
        IN ip[i] \div rest = net[1][i] \div rest

is_blocked_ip(host) ==
    CASE host.kind = "v4" -> \E net \in blocked_ipv4_networks : Contains(net, 8, host.ip)
      [] host.kind = "v6" -> \E net \in blocked_ipv6_networks : Contains(net, 16, host.ip)

(* validate_url: TRUE for Ok, FALSE for SsrfBlocked.                       *)
validate_url(url) ==
    /\ url.scheme \in {"http", "https"}
    /\ url.port \notin BLOCKED_PORTS
    /\ url.host # NoHost
    /\ url.host.kind \in {"v4", "v6"} => ~is_blocked_ip(url.host)
    /\ url.host.kind = "domain" =>
         url.host.name \notin BLOCKED_HOSTNAMES \cup LOOPBACK_HOSTNAMES

-----------------------------------------------------------------------------
(* The same ranges as first and last address, in the order of addresses.   *)

AtMost(x, y) ==
    x = y \/ \E i \in DOMAIN x : x[i] < y[i] /\ \A j \in 1 .. i - 1 : x[j] = y[j]

ReservedV4 ==
    {<< <<0, 0, 0, 0>>, <<0, 255, 255, 255>> >>,            \* this network
     << <<10, 0, 0, 0>>, <<10, 255, 255, 255>> >>,          \* private
     << <<100, 64, 0, 0>>, <<100, 127, 255, 255>> >>,       \* carrier-grade NAT
     << <<127, 0, 0, 0>>, <<127, 255, 255, 255>> >>,        \* loopback
     << <<169, 254, 0, 0>>, <<169, 254, 255, 255>> >>,      \* link-local
     << <<172, 16, 0, 0>>, <<172, 31, 255, 255>> >>,        \* private
     << <<192, 0, 2, 0>>, <<192, 0, 2, 255>> >>,            \* TEST-NET-1
     << <<192, 168, 0, 0>>, <<192, 168, 255, 255>> >>,      \* private
     << <<198, 51, 100, 0>>, <<198, 51, 100, 255>> >>,      \* TEST-NET-2
     << <<203, 0, 113, 0>>, <<203, 0, 113, 255>> >>,        \* TEST-NET-3
     << <<224, 0, 0, 0>>, <<255, 255, 255, 255>> >>}        \* multicast, reserved

TOP == 65535

ReservedV6 ==
    {<< <<0, 0, 0, 0, 0, 0, 0, 1>>, <<0, 0, 0, 0, 0, 0, 0, 1>> >>,
     << <<0, 0, 0, 0, 0, TOP, 0, 0>>, <<0, 0, 0, 0, 0, TOP, TOP, TOP>> >>,
     << <<64512, 0, 0, 0, 0, 0, 0, 0>>, <<65023, TOP, TOP, TOP, TOP, TOP, TOP, TOP>> >>,  \* fc00 to fdff
     << <<65152, 0, 0, 0, 0, 0, 0, 0>>, <<65215, TOP, TOP, TOP, TOP, TOP, TOP, TOP>> >>}  \* fe80 to febf

Reserved(host) ==
    \E range \in (IF host.kind = "v4" THEN ReservedV4 ELSE ReservedV6) :
        AtMost(range[1], host.ip) /\ AtMost(host.ip, range[2])
=============================================================================

------------------------------- MODULE MCFleet ------------------------------
(* Instances of Fleet for TLC.                                              *)
EXTENDS Fleet

\* Host names, and another spelling of the address 2.
CONSTANTS n1, n2, n3, other2

\* Versions as in the fleet: fields of different number, equal fields, a
\* field beyond the limit of atoi, and none at all.
DigitsDef ==
    [v \in {"17.2", "17.2.0", "17.10-1", "20240", Unknown, Blank} |->
        CASE v = "17.2" -> <<<<1, 7>>, <<2>>>>
          [] v = "17.2.0" -> <<<<1, 7>>, <<2>>, <<0>>>>
          [] v = "17.10-1" -> <<<<1, 7>>, <<1, 0>>, <<1>>>>
          [] v = "20240" -> <<<<2, 0, 2, 4, 0>>>>
          [] OTHER -> <<>>]

Profile(version, status, state, ip, host) ==
    [version |-> version, status |-> status, state |-> state, ip |-> ip, host |-> host]

\* Two agents with one address, and one whose address has another spelling.
V4(n) == <<TRUE, n>>
ProfilesDef ==
    <<{Profile("17.2", "active", Blank, V4(1), n1), Profile("20240", "active", Blank, V4(1), n1)},
      {Profile("17.2.0", "disconnected", Blank, V4(2), n2), Profile(Unknown, Blank, Blank, V4(2), n2)},
      {Profile("17.10-1", Blank, "active", Blank, n3), Profile(Blank, "offline", "active", V4(2), n2),
       Profile("17.2", "offline", Blank, other2, n3)}>>

\* One token of every kind and size, and pairs that overlap, meet the limit or
\* spell one address twice.
SomeTokens ==
    {Host(h) : h \in {V4(0), V4(2), V4(7), <<FALSE, 2>>, n1, other2}} \cup {Bad, Hyphened}
    \cup {Cidr(v4, n, b) : v4 \in BOOLEAN, n \in {0, 5}, b \in 0..3}
    \cup {Dashed(TRUE, lo, hi) : lo \in {0, 1, 4}, hi \in 0..7}
    \cup {Short(v4, n, last, trail) : v4, trail \in BOOLEAN, n \in {1, 6}, last \in 0..4}
TypedDef == {<<>>} \cup {<<t>> : t \in SomeTokens} \cup {<<t, u>> : t, u \in SomeTokens}
=============================================================================

--------------------------- MODULE MCCanonicalNodes ---------------------------
(* Devices 1 and 2, the relay 3, and what reports and the directory may say of *)
(* them.  r1, r2 and r3 report for the two devices and for the relay.          *)
EXTENDS CanonicalNodes

Id(stable, key, disco, ip) == [stable |-> stable, key |-> key, disco |-> disco, ip |-> ip]

Device1 == Id("s1", "k1", None, "i1")
Device2 == Id("s2", "k2", None, "i2")
Device3 == Id("s3", "k3", None, None)
Client1 == Id(None, "k1", "d1", None)
Client2 == Id(None, "k2", "d2", None)
Nobody  == Id(None, None, None, None)

Peer(identity) == [identity |-> identity, via |-> None]
Relayed(identity) == [identity |-> identity, via |-> [stable |-> "s3", vni |-> 1]]

Report(kind, by, observer, peers) ==
    [kind |-> kind, by |-> by, parts |-> <<[observer |-> observer, peers |-> peers]>>]

Client(id, identity) == [id |-> id, identity |-> identity]
RelayReport(relay, x, source, target) ==
    [kind |-> "relay", by |-> "r3",
     parts |-> <<[relay |-> relay, vni |-> 1, id |-> x, source |-> source, target |-> target]>>]

\* The observer is known by its key to one reporter, by its stable id to the
\* other, until somebody names both.
IdentityReports ==
    {Report("hello", "r1", Id(None, "k1", None, None), <<>>),
     Report("hello", "r2", Id("s1", None, None, None), <<>>),
     Report("hello", "r1", Device1, <<Peer(Device2), Peer(Device3)>>),
     Report("hello", "r2", Device2, <<Peer(Id("s1", "k1", "d1", None))>>),
     Report("traffic", "r1", Device1, <<Relayed(Id(None, "k2", None, None))>>),
     Report("traffic", "r1", Device1, <<Relayed(Id("s4", "k4", None, "i2"))>>),
     Report("withdrawal", "r2", Id("s1", None, None, None), <<>>),
     Report("inventory", "r1", Device1, <<Peer(Id("s2", "k1", None, "i1"))>>),
     RelayReport(Id(None, "k3", None, None), "x1", Client("c1", Id(None, None, "d1", None)), Client("c2", Nobody)),
     RelayReport(Device3, "x1", Client("c1", Client1), Client("c2", Client2))}

IdentityDirectories ==
    {<<[stable |-> "s1", key |-> "k1"], [stable |-> "s2", key |-> "k2"]>>,
     <<[stable |-> "s1", key |-> "k1"], [stable |-> "s2", key |-> "k1"]>>,
     <<[stable |-> "s1", key |-> "k2"]>>}

IdentityOrders == {<<1, 2, 3, 4, 5, 6, 7, 8>>, <<8, 7, 6, 5, 4, 3, 2, 1>>}
IdentityGaps == {1}

\* The stable id of an observer changes under a key that stays.
RenamedReports ==
    {Report("hello", "r1", Device1, <<Peer(Device2)>>),
     Report("inventory", "r1", Id("s5", "k1", None, None), <<Peer(Device2)>>),
     Report("traffic", "r1", Id("s5", "k1", None, None), <<Peer(Device2)>>)}

NoDirectory == {}
=============================================================================

----------------------------- MODULE MCAuthority -----------------------------
(* Instances of Authority for TLC: two generations of one policy and a rival *)
(* of the first, requests with every kind of lease, three overrides.         *)
EXTENDS Authority, MCSamples

CONSTANTS p1, p2

Alike == Permutations({p1, p2})

\* Requests.
Other == Sketch(Envelope({}), Read, "play")
Pii   == Sketch(Envelope({"pii"}), Read, "work")
Tool  == Sketch([taints |-> {}, intact |-> TRUE, bundle |-> "evidence"], Run, "work")

Withdrawn == LeaseFor("withdrawn", Tool, 2)
PiiLease  == LeaseFor("pii", Pii, 1)

SampleRequests ==
    [granted   |-> RequestOn(Clean, First),
     renewed   |-> RequestOn(Clean, Second),
     withdrawn |-> RequestOn(Tool, Withdrawn),
     borrowed  |-> RequestOn(Other, First),
     ungranted |-> RequestOn(Clean, Ungranted),
     pii       |-> RequestOn(Pii, PiiLease),
     toxic     |-> RequestOn(Toxic, ToxicLease),
     garbled   |-> [RequestOn(Clean, First) EXCEPT !.effect = "malformed"]]

\* Policies.
Auth1 == Authorization(1)
Policy1 == Policy(1, {First, ToxicLease}, {}, Auth1)
Rival1  == Policy(1, {First, Ungranted}, {}, Auth1)
Policy2 == Policy(2, {Second, Withdrawn}, {Withdrawn}, Auth1)
SampleGovernors ==
    [one |-> Governor(Policy1, Auth1), rival |-> Governor(Rival1, Auth1), two |-> Governor(Policy2, Auth1)]

SampleRuntimes ==
    [early |-> Runtime(1, Unset("policy")),
     late  |-> Runtime(6, Unset("policy")),
     stale |-> Runtime(8, Unset("policy"))]

\* Overrides of the ungranted requests, under the first policy in the early snapshot.
OverrideFor(generation, request) ==
    Override(generation, Policy1, SampleRequests[request], SampleRuntimes["early"], Auth1)
SampleOverrides ==
    [old |-> OverrideFor(1, "ungranted"), new |-> OverrideFor(2, "ungranted"),
     exempt |-> OverrideFor(1, "pii")]

\* TLC evaluates a definition once, but what replaces a constant at every use: hence the aliases.
MCGovernors == SampleGovernors
MCRequests == SampleRequests
MCRuntimes == SampleRuntimes
MCOverrides == SampleOverrides
=============================================================================

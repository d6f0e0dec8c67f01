----------------------------- MODULE MCReceipts -----------------------------
(* An instance of Receipts for TLC: two policies under two signer            *)
(* authorizations, two overrides of one request, and a request to be         *)
(* quarantined that the one point does not know and the other decides under  *)
(* rules that have lapsed.                                                   *)
EXTENDS Receipts, MCSamples

CONSTANTS p1, p2

Alike == Permutations({p1, p2})

Poison == Sketch([Envelope({"critical"}) EXCEPT !.bundle = "evidence"], Run, "work")

SampleRequests ==
    [granted   |-> RequestOn(Clean, First),
     renewed   |-> RequestOn(Clean, Second),
     ungranted |-> RequestOn(Clean, Ungranted),
     toxic     |-> RequestOn(Poison, LeaseFor("poison", Poison, 1))]

Auth1 == Authorization(1)
Auth2 == Authorization(2)
Policy1 == Policy(1, {First}, {}, Auth1)
ShortRules == [Rules(2, Auth2) EXCEPT !.until = 5]
Policy2 == [Policy(2, {Second}, {}, Auth2) EXCEPT !.rules = RuleDigest(ShortRules)]
SampleGovernors ==
    [one |-> [Governor(Policy1, Auth1) EXCEPT !.operations = {[id |-> "fetch", capability |-> "read"]}],
     two |-> [Governor(Policy2, Auth2) EXCEPT !.rules = ShortRules]]

SampleRuntimes == [early |-> Runtime(1, Unset("policy")), late |-> Runtime(6, Unset("policy"))]

OverrideFor(generation) ==
    Override(generation, Policy1, SampleRequests["ungranted"], SampleRuntimes["early"], Auth1)
SampleOverrides == [old |-> OverrideFor(1), new |-> OverrideFor(2)]

Plain(request) == [request |-> request, runtime |-> "early", override |-> Nothing]
SampleCallable == {Plain("granted"), Plain("renewed"), [Plain("toxic") EXCEPT !.runtime = "late"]}
              \cup {[Plain("ungranted") EXCEPT !.override = name] : name \in DOMAIN SampleOverrides}
SampleExitable == {Plain("granted"), [Plain("toxic") EXCEPT !.runtime = "late"]}

\* TLC evaluates a definition once, but what replaces a constant at every use: hence the aliases.
MCGovernors == SampleGovernors
MCRequests == SampleRequests
MCRuntimes == SampleRuntimes
MCOverrides == SampleOverrides
MCCallable == SampleCallable
MCExitable == SampleExitable
=============================================================================
